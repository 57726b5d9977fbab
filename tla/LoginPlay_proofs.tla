-------------------------- MODULE LoginPlay_proofs --------------------------
(***************************************************************************)
(* DuplicateIsKicked, LockCoversPlay and NoLostUpdate as theorems of       *)
(* Login.                                                                  *)
(* KickInv adds to the invariant of Login_proofs that a game server saac   *)
(* does not know yet has nobody in play, that a request to load names the  *)
(* account of its connection, and that of any two servers one throws the   *)
(* account out.  A step either leaves every doomed server doomed (Calm),   *)
(* or it is a successful load, whose kicks doom every server but one.      *)
(* HeldInv is about one game server and polite clients.  It follows the    *)
(* lock and the file of an account through the requests and answers under  *)
(* way: who has it, who may still get it, and what each save holds.        *)
(***************************************************************************)
EXTENDS Login_proofs

(* Connection c plays a character of account k.                            *)
Plays(c, k) == c.use /\ c.state = "LOGIN" /\ c.cdkey = k

(* Line m brings a character of k to one of the connections cs.            *)
Brings(cs, m, k) ==
  /\ m.type = "CharLoad" /\ m.ok
  /\ \E f \in Fds : cs[f].use /\ cs[f].fdid = m.fdid /\ cs[f].cdkey = k

(* Account k is kicked behind line n of q.                                 *)
Kicks(q, n, k) == \E j \in DOMAIN q : j > n /\ q[j] = Kick(k)

(* Doomed, for a server with connections cs and answers q.                 *)
Doom(cs, q, k) ==
  /\ \A f \in Fds : Plays(cs[f], k) => cs[f].close_request \/ Kicks(q, 0, k)
  /\ \A i \in DOMAIN q : Brings(cs, q[i], k) => Kicks(q, i, k)

(* Nobody is in play, saac has not seen the server's login yet.            *)
Fresh(cs, qa, qg) ==
  /\ qa # <<>> /\ Head(qa).type = "ServerLogin" /\ qg = <<>>
  /\ \A f \in Fds : ~(cs[f].use /\ cs[f].state = "LOGIN")

(* A server that is up has not closed its line to saac, and saac knows it  *)
(* or it is fresh.                                                         *)
Listed(u, r, cs, qa, qg) ==
  u => (\A i \in DOMAIN qa : qa[i].type # "Eof") /\ (r \/ Fresh(cs, qa, qg))

(* A request to load a character names the account of its connection.      *)
Named(cs, qa) ==
  \A i \in DOMAIN qa, f \in Fds :
    cs[f].use /\ qa[i].type = "CharLoad" /\ qa[i].fdid = cs[f].fdid
      => qa[i].cdkey = cs[f].cdkey

(* What one server owes to the invariant.                                  *)
KickOK(u, r, cs, qa, qg) == Listed(u, r, cs, qa, qg) /\ Named(cs, qa)

(* Of any two servers, one is about to throw the account out.              *)
OneDoomed ==
  \A k \in Cdkeys, s, t \in Servers :
    s # t => Doom(conn[s], toGs[s], k) \/ Doom(conn[t], toGs[t], k)

(* The inductive invariant.                                                *)
KickInv ==
  /\ Inv
  /\ \A s \in Servers : KickOK(up[s], s \in registered, conn[s], toSaac[s], toGs[s])
  /\ OneDoomed

-----------------------------------------------------------------------------
(* A connection may end, start, or leave the game; it does not enter it.   *)
Tame(c, c2, qa, qg) ==
  c2.use =>
    \/ /\ c.use /\ c2.fdid = c.fdid /\ c2.cdkey = c.cdkey
       /\ c2.state = "LOGIN" => c.state = "LOGIN" /\ (c.close_request => c2.close_request)
    \/ c2.state # "LOGIN" /\ Quiet(qa, qg, c2.fdid)

(* Tame connections stay doomed. *)
LEMMA DoomTame ==
  ASSUME NEW cs, NEW cs2, NEW qa, NEW q, NEW k, Doom(cs, q, k),
         \A f \in Fds : Tame(cs[f], cs2[f], qa, q)
  PROVE  Doom(cs2, q, k)
<1>1. ASSUME NEW f \in Fds, Plays(cs2[f], k) PROVE cs2[f].close_request \/ Kicks(q, 0, k)
  BY <1>1 DEF Doom, Plays, Tame
<1>2. ASSUME NEW i \in DOMAIN q, Brings(cs2, q[i], k) PROVE Brings(cs, q[i], k)
  <2>1. PICK f \in Fds : cs2[f].use /\ cs2[f].fdid = q[i].fdid /\ cs2[f].cdkey = k
    BY <1>2 DEF Brings
  <2>2. q[i].type = "CharLoad" /\ IsAbout(q[i], cs2[f].fdid)
    BY <1>2, <2>1 DEF Brings, IsAbout
  <2>3. ~Quiet(qa, q, cs2[f].fdid)
    BY <2>2 DEF Quiet, None
  <2> QED BY <1>2, <2>1, <2>3 DEF Brings, Tame
<1> QED BY <1>1, <1>2 DEF Doom

(* Positions of a queue and of its tail. *)
LEMMA TailFacts ==
  ASSUME NEW S, NEW q \in Seq(S), q # <<>>
  PROVE  /\ q[1] = Head(q) /\ 1 \in DOMAIN q
         /\ \A i \in DOMAIN Tail(q) : i \in Nat /\ i + 1 \in DOMAIN q /\ Tail(q)[i] = q[i + 1]
         /\ \A j \in DOMAIN q : /\ j \in Nat /\ j > 0
                                /\ j > 1 => j - 1 \in DOMAIN Tail(q) /\ Tail(q)[j - 1] = q[j]
  OBVIOUS

(* A line is taken; if it was the kick, everybody in play is to be closed. *)
LEMMA DoomTail ==
  ASSUME NEW cs, NEW q \in Seq(Reply), q # <<>>, NEW k, Doom(cs, q, k),
         Head(q) = Kick(k) => \A f \in Fds : Plays(cs[f], k) => cs[f].close_request
  PROVE  Doom(cs, Tail(q), k)
<1> DEFINE r == Tail(q)
<1>1. /\ q[1] = Head(q) /\ 1 \in DOMAIN q
      /\ \A i \in DOMAIN r : i \in Nat /\ i + 1 \in DOMAIN q /\ r[i] = q[i + 1]
      /\ \A j \in DOMAIN q : /\ j \in Nat /\ j > 0
                             /\ j > 1 => j - 1 \in DOMAIN r /\ r[j - 1] = q[j]
  BY TailFacts
<1> HIDE DEF r
<1>2. ASSUME NEW n \in Nat, Kicks(q, n + 1, k) PROVE Kicks(r, n, k)
  BY <1>1, <1>2 DEF Kicks
<1>3. ASSUME NEW f \in Fds, Plays(cs[f], k) PROVE cs[f].close_request \/ Kicks(r, 0, k)
  <2>1. CASE Head(q) = Kick(k)
    BY <1>3, <2>1
  <2>2. CASE Head(q) # Kick(k) /\ Kicks(q, 0, k)
    <3>1. PICK j \in DOMAIN q : j > 0 /\ q[j] = Kick(k)
      BY <2>2 DEF Kicks
    <3>2. j # 1
      BY <1>1, <2>2, <3>1
    <3>3. j > 0 + 1
      BY <1>1, <3>1, <3>2
    <3>4. Kicks(q, 0 + 1, k)
      BY <3>1, <3>3 DEF Kicks
    <3> QED BY <1>2, <3>4
  <2> QED BY <1>3, <2>1, <2>2 DEF Doom
<1>4. ASSUME NEW i \in DOMAIN r, Brings(cs, r[i], k) PROVE Kicks(r, i, k)
  BY <1>1, <1>2, <1>4 DEF Doom
<1> QED BY <1>3, <1>4 DEF Doom, r

(* A line that brings nobody is put behind the queue. *)
LEMMA DoomAppend ==
  ASSUME NEW cs, NEW q \in Seq(Reply), NEW m \in Reply, NEW k, Doom(cs, q, k),
         ~Brings(cs, m, k)
  PROVE  Doom(cs, Append(q, m), k)
<1> DEFINE r == Append(q, m)
<1>1. /\ \A i \in DOMAIN q : i \in DOMAIN r /\ r[i] = q[i]
      /\ \A i \in DOMAIN r : (i \in DOMAIN q /\ r[i] = q[i]) \/ r[i] = m
  OBVIOUS
<1> HIDE DEF r
<1>2. \A n : Kicks(q, n, k) => Kicks(r, n, k)
  BY <1>1 DEF Kicks
<1> QED BY <1>1, <1>2 DEF Doom, r

(* A kick behind the queue throws everybody out. *)
LEMMA DoomKick ==
  ASSUME NEW cs, NEW q \in Seq(Reply), NEW k \in Cdkeys
  PROVE  Doom(cs, Append(q, Kick(k)), k)
<1> DEFINE m == Kick(k)
           r == Append(q, m)
<1>1. m \in Reply /\ m.type = "Kick"
  BY KickLine
<1>2. /\ \A i \in DOMAIN r : i \in Nat /\ (i < Len(q) + 1 \/ r[i] = m)
      /\ Len(q) + 1 \in DOMAIN r /\ r[Len(q) + 1] = m /\ Len(q) \in Nat
  <2> HIDE DEF m
  <2> QED BY <1>1
<1>3. \A n \in Nat : n < Len(q) + 1 => Kicks(r, n, k)
  BY <1>2 DEF Kicks
<1>4. Kicks(r, 0, k)
  BY <1>2, <1>3
<1>5. ~Brings(cs, m, k)
  BY <1>1 DEF Brings
<1> HIDE DEF r, m
<1>6. \A i \in DOMAIN r : Brings(cs, r[i], k) => Kicks(r, i, k)
  BY <1>2, <1>3, <1>5
<1> QED BY <1>4, <1>6 DEF Doom, r, m

(* A server without anybody is doomed in the empty sense. *)
LEMMA DoomNobody ==
  ASSUME NEW cs, NEW k, \A f \in Fds : ~(cs[f].use /\ cs[f].state = "LOGIN")
  PROVE  Doom(cs, <<>>, k)
  BY DEF Doom, Plays

(* The answer that brings the character is handled: the kick behind it stays. *)
LEMMA DoomEnter ==
  ASSUME NEW cs, NEW cs2, NEW q \in Seq(Reply), q # <<>>, NEW k, Doom(cs, q, k),
         Head(q).type = "CharLoad", Head(q).ok, NEW f \in Fds,
         cs[f].use, cs[f].fdid = Head(q).fdid,
         \A g \in Fds : cs2[g].use = cs[g].use /\ cs2[g].fdid = cs[g].fdid
                        /\ cs2[g].cdkey = cs[g].cdkey,
         \A g \in Fds : g # f => cs2[g] = cs[g]
  PROVE  Doom(cs2, Tail(q), k)
<1> DEFINE r == Tail(q)
<1>1. Head(q) # Kick(k)
  BY DEF Kick
<1>2. Doom(cs, r, k)
  BY <1>1, DoomTail
<1>3. ASSUME cs[f].cdkey = k PROVE Kicks(r, 0, k)
  <2>1. /\ q[1] = Head(q) /\ 1 \in DOMAIN q
        /\ \A j \in DOMAIN q : /\ j \in Nat /\ j > 0
                               /\ j > 1 => j - 1 \in DOMAIN r /\ r[j - 1] = q[j]
    BY TailFacts
  <2>2. Kicks(q, 1, k)
    BY <1>3, <2>1 DEF Doom, Brings
  <2> HIDE DEF r
  <2> QED BY <2>1, <2>2 DEF Kicks
<1> HIDE DEF r
<1>4. \A g \in Fds : Plays(cs2[g], k) => cs2[g].close_request \/ Kicks(r, 0, k)
  BY <1>2, <1>3 DEF Doom, Plays
<1>5. \A i \in DOMAIN r : Brings(cs2, r[i], k) => Brings(cs, r[i], k)
  BY DEF Brings
<1> QED BY <1>2, <1>4, <1>5 DEF Doom, r

-----------------------------------------------------------------------------
(* qa2 is qa and further lines that neither end the connection nor load.   *)
Longer(qa, qa2) ==
  /\ \A i \in DOMAIN qa2 :
       (i \in DOMAIN qa /\ qa2[i] = qa[i]) \/ qa2[i].type \notin {"Eof", "CharLoad"}
  /\ qa # <<>> => qa2 # <<>> /\ Head(qa2) = Head(qa)

(* Longer is reflexive and transitive. *)
LEMMA LongerSelf == \A q : Longer(q, q)
  BY DEF Longer

(* Longer is transitive. *)
LEMMA LongerTrans ==
  ASSUME NEW p, NEW q, NEW r, Longer(p, q), Longer(q, r)
  PROVE  Longer(p, r)
  BY DEF Longer

(* Positions of a queue and of one that is a line longer. *)
LEMMA AppendFacts ==
  ASSUME NEW S, NEW q \in Seq(S), NEW m \in S
  PROVE  /\ \A i \in DOMAIN Append(q, m) :
              (i \in DOMAIN q /\ Append(q, m)[i] = q[i]) \/ Append(q, m)[i] = m
         /\ q # <<>> => Append(q, m) # <<>> /\ Head(Append(q, m)) = Head(q)
  OBVIOUS

(* A line put behind the queue. *)
LEMMA LongerAppend ==
  ASSUME NEW q \in Seq(Request), NEW m \in Request, m.type \notin {"Eof", "CharLoad"}
  PROVE  Longer(q, Append(q, m))
  BY AppendFacts DEF Longer

(* Connections as before, but for tame changes, and a longer queue. *)
LEMMA TameOK ==
  ASSUME NEW u, NEW r, NEW cs, NEW cs2, NEW qa, NEW qa2, NEW qg,
         KickOK(u, r, cs, qa, qg), Longer(qa, qa2),
         \A f \in Fds : Tame(cs[f], cs2[f], qa, qg)
  PROVE  KickOK(u, r, cs2, qa2, qg)
<1>1. \A f \in Fds : cs2[f].use /\ cs2[f].state = "LOGIN" => cs[f].use /\ cs[f].state = "LOGIN"
  BY DEF Tame
<1>2. Listed(u, r, cs2, qa2, qg)
  BY <1>1 DEF KickOK, Listed, Fresh, Longer
<1>3. ASSUME NEW i \in DOMAIN qa2, NEW f \in Fds, cs2[f].use, qa2[i].type = "CharLoad",
             qa2[i].fdid = cs2[f].fdid
      PROVE  qa2[i].cdkey = cs2[f].cdkey
  <2>1. i \in DOMAIN qa /\ qa2[i] = qa[i]
    BY <1>3 DEF Longer
  <2>2. IsAbout(qa[i], cs2[f].fdid)
    BY <1>3, <2>1 DEF IsAbout
  <2>3. ~Quiet(qa, qg, cs2[f].fdid)
    BY <2>1, <2>2 DEF Quiet, None
  <2>4. cs[f].use /\ cs2[f].fdid = cs[f].fdid /\ cs2[f].cdkey = cs[f].cdkey
    BY <1>3, <2>3 DEF Tame
  <2> QED BY <1>3, <2>1, <2>4 DEF KickOK, Named
<1> QED BY <1>2, <1>3 DEF KickOK, Named

(* A step of one server that dooms it no less. *)
LEMMA OneServer ==
  ASSUME KickInv, Inv', NEW s \in Servers, UNCHANGED <<up, registered>>,
         \A t \in Servers \ {s} :
           conn'[t] = conn[t] /\ toSaac'[t] = toSaac[t] /\ toGs'[t] = toGs[t],
         KickOK(up[s], s \in registered, conn'[s], toSaac'[s], toGs'[s]),
         \A k \in Cdkeys : Doom(conn[s], toGs[s], k) => Doom(conn'[s], toGs'[s], k)
  PROVE  KickInv'
<1>1. \A t \in Servers : KickOK(up'[t], t \in registered', conn'[t], toSaac'[t], toGs'[t])
  BY DEF KickInv
<1>2. \A t \in Servers, k \in Cdkeys : Doom(conn[t], toGs[t], k) => Doom(conn'[t], toGs'[t], k)
  OBVIOUS
<1>3. OneDoomed'
  BY <1>2 DEF KickInv, OneDoomed
<1> QED BY <1>1, <1>3 DEF KickInv

-----------------------------------------------------------------------------
(* Steps of clients and of the server's own loop.                          *)

(* A connection that does not change. *)
LEMMA TameSelf == \A c, qa, qg : Tame(c, c, qa, qg)
  BY DEF Tame

(* A slot that is free. *)
LEMMA TameFree == \A c, qa, qg : Tame(c, NoConn, qa, qg)
  BY NoConnType DEF Tame

(* A step of server s that takes no answer. *)
LEMMA ClientTame ==
  ASSUME KickInv, Inv', NEW s \in Servers, UNCHANGED <<up, registered, toGs>>,
         \A t \in Servers \ {s} : conn'[t] = conn[t] /\ toSaac'[t] = toSaac[t],
         Longer(toSaac[s], toSaac'[s]),
         \A f \in Fds : Tame(conn[s][f], conn'[s][f], toSaac[s], toGs[s])
  PROVE  KickInv'
<1>1. KickOK(up[s], s \in registered, conn'[s], toSaac'[s], toGs'[s])
  BY TameOK DEF KickInv
<1>2. \A k \in Cdkeys : Doom(conn[s], toGs[s], k) => Doom(conn'[s], toGs'[s], k)
  BY DoomTame
<1> QED BY <1>1, <1>2, OneServer

(* Connect: nothing is under way about the new fdid. *)
LEMMA ConnectKick ==
  ASSUME KickInv, Inv', NEW s \in Servers, NEW f \in Fds, Connect(s, f)
  PROVE  KickInv'
<1> DEFINE c == [NoConn EXCEPT !.use = TRUE, !.fdid = nextFdid[s]]
<1>1. c.state = "NULLCONNECT" /\ c.fdid = nextFdid[s]
  BY DEF NoConn
<1>2. /\ UNCHANGED <<up, registered, toGs, toSaac>> /\ up[s] /\ nextFdid[s] <= MaxFdid
      /\ conn' = [conn EXCEPT ![s][f] = c]
  BY DEF Connect, saacVars, netVars
<1> HIDE DEF c
<1>3. /\ conn'[s][f] = c /\ \A g \in Fds : g # f => conn'[s][g] = conn[s][g]
      /\ \A t \in Servers \ {s} : conn'[t] = conn[t]
  BY <1>2 DEF KickInv, Inv, TypeOK
<1>4. Quiet(toSaac[s], toGs[s], c.fdid)
  <2>1. nextFdid[s] \in Fdid /\ nextFdid[s] \in Nat
    BY <1>2, LoginAssumption DEF KickInv, Inv, TypeOK, Fdid
  <2>2. ServerOK(up[s], conn[s], nextFdid[s], toSaac[s], toGs[s])
    BY DEF KickInv, Inv
  <2> QED BY <1>1, <1>2, <2>1, <2>2 DEF ServerOK
<1>5. Tame(conn[s][f], c, toSaac[s], toGs[s])
  BY <1>1, <1>4 DEF Tame
<1> QED BY <1>2, <1>3, <1>5, TameSelf, LongerSelf, ClientTame

(* ClientLogin_recv: a connection that waits for nothing takes a name. *)
LEMMA ClientLoginKick ==
  ASSUME KickInv, Inv', NEW s \in Servers, NEW f \in Fds, NEW k \in Cdkeys,
         ClientLogin_recv(s, f, k)
  PROVE  KickInv'
<1> DEFINE c == [conn[s][f] EXCEPT !.state = "WHILEAUTH", !.cdkey = k]
           m == [type |-> "CharLogin", cdkey |-> k, fdid |-> conn[s][f].fdid]
<1>1. conn[s][f].use /\ conn[s][f].state = "NULLCONNECT"
  BY DEF ClientLogin_recv
<1>2. conn[s][f] \in Connection /\ conn[s][f].fdid \in Fdid
  BY <1>1, UsedFacts DEF KickInv
<1>3. c.state = "WHILEAUTH" /\ c.fdid = conn[s][f].fdid
  BY <1>2 DEF Connection
<1>0. TypeOK
  BY DEF KickInv, Inv
<1>4. /\ conn' = [conn EXCEPT ![s][f] = c] /\ toSaac' = [toSaac EXCEPT ![s] = Append(toSaac[s], m)]
      /\ UNCHANGED <<up, registered, toGs>>
  <2>1. conn' = [conn EXCEPT ![s][f] = c] /\ toSaac' = [toSaac EXCEPT ![s] = Append(toSaac[s], m)]
    BY <1>0 DEF ClientLogin_recv, TypeOK
  <2>2. UNCHANGED <<up, registered, toGs>>
    BY DEF ClientLogin_recv, saacVars
  <2> QED BY <2>1, <2>2
<1>5. m \in Request /\ m.type \notin {"Eof", "CharLoad"}
  BY <1>2 DEF Request
<1> HIDE DEF c, m
<1>6. /\ conn'[s][f] = c /\ \A g \in Fds : g # f => conn'[s][g] = conn[s][g]
      /\ toSaac'[s] = Append(toSaac[s], m)
      /\ \A t \in Servers \ {s} : conn'[t] = conn[t] /\ toSaac'[t] = toSaac[t]
  BY <1>4 DEF KickInv, Inv, TypeOK
<1>7. Quiet(toSaac[s], toGs[s], c.fdid)
  <2>1. ServerOK(up[s], conn[s], nextFdid[s], toSaac[s], toGs[s])
    BY DEF KickInv, Inv
  <2>2. ConnOK(conn[s][f], nextFdid[s], toSaac[s], toGs[s]) /\ ~Waits(conn[s][f])
    BY <1>1, <2>1 DEF ServerOK, Waits, Waiting
  <2> QED BY <1>3, <2>2 DEF ConnOK, Expected
<1>8. Tame(conn[s][f], c, toSaac[s], toGs[s])
  BY <1>3, <1>7 DEF Tame
<1>9. Longer(toSaac[s], toSaac'[s])
  BY <1>5, <1>6, QueueTypes, LongerAppend DEF KickInv
<1> QED BY <1>4, <1>6, <1>8, <1>9, TameSelf, ClientTame

(* What a connection sends when it ends. *)
LEMMA EndOneLonger ==
  ASSUME Inv, NEW s \in Servers, NEW f \in Fds, conn[s][f].use
  PROVE  Longer(toSaac[s], toSaac[s] \o EndOneSends(s, f))
<1>1. toSaac[s] \in Seq(Request)
  BY QueueTypes
<1>2. CASE LoggedIn(s, f)
  <2> DEFINE m == Save(s, f, TRUE)
  <2>1. m \in Request /\ m.type = "CharSave"
    BY <1>2, UsedFacts, SaveLine DEF LoggedIn
  <2>2. EndOneSends(s, f) = <<m>>
    BY <1>2 DEF EndOneSends
  <2> HIDE DEF m
  <2>3. toSaac[s] \o <<m>> = Append(toSaac[s], m)
    BY <1>1, <2>1, ConcatOne
  <2>4. Longer(toSaac[s], Append(toSaac[s], m))
    BY <1>1, <2>1, LongerAppend
  <2> QED BY <2>2, <2>3, <2>4
<1>3. CASE ~LoggedIn(s, f)
  BY <1>1, <1>3, LongerSelf DEF EndOneSends
<1> QED BY <1>2, <1>3

(* EndOne. *)
LEMMA EndOneKick ==
  ASSUME KickInv, Inv', NEW s \in Servers, NEW f \in Fds, EndOne(s, f)
  PROVE  KickInv'
<1>1. /\ UNCHANGED <<up, registered, toGs>>
      /\ conn[s][f].use
      /\ conn' = [conn EXCEPT ![s][f] = NoConn]
      /\ toSaac' = [toSaac EXCEPT ![s] = toSaac[s] \o EndOneSends(s, f)]
  BY DEF EndOne, saacVars, KickInv, Inv, TypeOK
<1>2. /\ conn'[s][f] = NoConn /\ \A g \in Fds : g # f => conn'[s][g] = conn[s][g]
      /\ toSaac'[s] = toSaac[s] \o EndOneSends(s, f)
      /\ \A t \in Servers \ {s} : conn'[t] = conn[t] /\ toSaac'[t] = toSaac[t]
  BY <1>1 DEF KickInv, Inv, TypeOK
<1>3. Longer(toSaac[s], toSaac'[s])
  BY <1>1, <1>2, EndOneLonger DEF KickInv
<1> QED BY <1>1, <1>2, <1>3, TameSelf, TameFree, ClientTame

(* A connection that leaves NOTLOGIN for a wait. *)
LEMMA TameWait ==
  ASSUME NEW c \in Connection, NEW st \in State, st # "LOGIN", c.use, NEW qa, NEW qg
  PROVE  Tame(c, [c EXCEPT !.state = st], qa, qg)
<1> DEFINE c2 == [c EXCEPT !.state = st]
<1>1. c2.fdid = c.fdid /\ c2.cdkey = c.cdkey /\ c2.state # "LOGIN"
  BY SetState
<1> QED BY <1>1 DEF Tame

(* CharList_recv: perhaps another character of the account ends first. *)
LEMMA CharListKick ==
  ASSUME KickInv, Inv', NEW s \in Servers, NEW f \in Fds, CharList_recv(s, f)
  PROVE  KickInv'
<1> DEFINE c == [conn[s][f] EXCEPT !.state = "WHILEDOWNLOADCHARLIST"]
           m == Ask("CharList", s, f)
<1>1. conn[s][f].use /\ conn[s][f].state = "NOTLOGIN"
  BY DEF CharList_recv, Forward
<1>2. conn[s][f] \in Connection /\ conn[s][f].fdid \in Fdid /\ conn[s][f].cdkey \in Cdkeys
  BY <1>1, UsedFacts DEF KickInv
<1>3. Tame(conn[s][f], c, toSaac[s], toGs[s])
  BY <1>1, <1>2, TameWait DEF State, Waiting
<1>4. m \in Request /\ m.type \notin {"Eof", "CharLoad"}
  BY <1>2, AskLine DEF LineTypes
<1>5. UNCHANGED <<up, registered, toGs>>
  BY DEF CharList_recv, saacVars
<1>6. toSaac[s] \in Seq(Request) /\ conn \in [Servers -> [Fds -> Connection]]
      /\ toSaac \in [Servers -> Seq(Request)]
  BY QueueTypes DEF KickInv, Inv, TypeOK
<1>7. CASE Forward(s, f, "NOTLOGIN", "WHILEDOWNLOADCHARLIST", "CharList")
  <2>1. conn' = [conn EXCEPT ![s][f] = c] /\ toSaac' = [toSaac EXCEPT ![s] = Append(toSaac[s], m)]
    BY <1>6, <1>7 DEF Forward
  <2> HIDE DEF c, m
  <2>2. /\ conn'[s][f] = c /\ \A g \in Fds : g # f => conn'[s][g] = conn[s][g]
        /\ toSaac'[s] = Append(toSaac[s], m)
        /\ \A t \in Servers \ {s} : conn'[t] = conn[t] /\ toSaac'[t] = toSaac[t]
    BY <1>6, <2>1
  <2>3. Longer(toSaac[s], toSaac'[s])
    BY <1>4, <1>6, <2>2, LongerAppend
  <2> QED BY <1>3, <1>5, <2>2, <2>3, TameSelf, ClientTame
<1>8. ASSUME NEW g \in Fds, LoggedIn(s, g),
             conn' = [conn EXCEPT ![s][f].state = "WHILEDOWNLOADCHARLIST", ![s][g] = NoConn],
             toSaac' = [toSaac EXCEPT ![s] =
                          @ \o EndOneSends(s, g) \o <<Ask("CharList", s, f)>>]
      PROVE  KickInv'
  <2> DEFINE qa == toSaac[s] \o EndOneSends(s, g)
  <2>1. qa \in Seq(Request) /\ Longer(toSaac[s], qa)
    BY <1>8, EndOneLines, EndOneLonger DEF LoggedIn, KickInv
  <2>2. f # g
    BY <1>1, <1>8 DEF LoggedIn
  <2>3. toSaac' = [toSaac EXCEPT ![s] = Append(qa, m)]
    BY <1>4, <1>6, <1>8, <2>1, ConcatOne
  <2>4. conn' = [SetConn(s, f, c) EXCEPT ![s][g] = NoConn]
    BY <1>6, <1>8 DEF SetConn
  <2> HIDE DEF c, m, qa
  <2>5. /\ conn'[s][f] = c /\ conn'[s][g] = NoConn
        /\ \A h \in Fds : h # f /\ h # g => conn'[s][h] = conn[s][h]
        /\ \A t \in Servers \ {s} : conn'[t] = conn[t]
    BY <1>6, <2>2, <2>4 DEF SetConn
  <2>6. /\ toSaac'[s] = Append(qa, m)
        /\ \A t \in Servers \ {s} : toSaac'[t] = toSaac[t]
    BY <1>6, <2>3
  <2>7. Longer(toSaac[s], toSaac'[s])
    BY <1>4, <2>1, <2>6, LongerAppend, LongerTrans
  <2> QED BY <1>3, <1>5, <2>5, <2>6, <2>7, TameSelf, TameFree, ClientTame
<1> QED BY <1>7, <1>8 DEF CharList_recv

(* CharLogin_recv: the request names the account of the connection. *)
LEMMA CharLoginKick ==
  ASSUME KickInv, Inv', NEW s \in Servers, NEW f \in Fds, CharLogin_recv(s, f)
  PROVE  KickInv'
<1> DEFINE c == [conn[s][f] EXCEPT !.state = "WHILELOGIN"]
           m == Ask("CharLoad", s, f)
<1>1. conn[s][f].use /\ conn[s][f].state = "NOTLOGIN"
  BY DEF CharLogin_recv, Forward
<1>2. conn[s][f] \in Connection /\ conn[s][f].fdid \in Fdid /\ conn[s][f].cdkey \in Cdkeys
  BY <1>1, UsedFacts DEF KickInv
<1>3. Tame(conn[s][f], c, toSaac[s], toGs[s])
  BY <1>1, <1>2, TameWait DEF State, Waiting
<1>4. /\ m \in Request /\ m.type = "CharLoad" /\ m.fdid = conn[s][f].fdid
      /\ m.cdkey = conn[s][f].cdkey
  BY <1>2, AskLine DEF LineTypes, Ask
<1>5. UNCHANGED <<up, registered, toGs>>
  BY DEF CharLogin_recv, saacVars
<1>6. /\ toSaac[s] \in Seq(Request) /\ conn \in [Servers -> [Fds -> Connection]]
      /\ toSaac \in [Servers -> Seq(Request)]
      /\ ServerOK(up[s], conn[s], nextFdid[s], toSaac[s], toGs[s])
  BY QueueTypes DEF KickInv, Inv, TypeOK
<1>7. conn' = [conn EXCEPT ![s][f] = c] /\ toSaac' = [toSaac EXCEPT ![s] = Append(toSaac[s], m)]
  BY <1>6 DEF Forward, CharLogin_recv
<1>8. c.use /\ c.fdid = conn[s][f].fdid /\ c.cdkey = conn[s][f].cdkey
  BY <1>1, <1>2, SetState DEF State, Waiting
<1> HIDE DEF c, m
<1>9. /\ conn'[s][f] = c /\ \A g \in Fds : g # f => conn'[s][g] = conn[s][g]
      /\ toSaac'[s] = Append(toSaac[s], m)
      /\ \A t \in Servers \ {s} : conn'[t] = conn[t] /\ toSaac'[t] = toSaac[t]
  BY <1>6, <1>7
<1>10. \A g \in Fds : Tame(conn[s][g], conn'[s][g], toSaac[s], toGs[s])
  BY <1>3, <1>9, TameSelf
<1>11. \A k \in Cdkeys : Doom(conn[s], toGs[s], k) => Doom(conn'[s], toGs'[s], k)
  BY <1>5, <1>10, DoomTame
<1>12. KickOK(up[s], s \in registered, conn'[s], toSaac[s], toGs[s])
  BY <1>10, LongerSelf, TameOK DEF KickInv
<1>13. Listed(up[s], s \in registered, conn'[s], toSaac'[s], toGs'[s])
  BY <1>4, <1>5, <1>6, <1>9, <1>12, AppendFacts DEF KickOK, Listed, Fresh
<1>14. Named(conn'[s], toSaac'[s])
  <2> SUFFICES ASSUME NEW i \in DOMAIN toSaac'[s], NEW g \in Fds, conn'[s][g].use,
                      toSaac'[s][i].type = "CharLoad", toSaac'[s][i].fdid = conn'[s][g].fdid
               PROVE  toSaac'[s][i].cdkey = conn'[s][g].cdkey
    BY DEF Named
  <2>1. CASE i \in DOMAIN toSaac[s] /\ toSaac'[s][i] = toSaac[s][i]
    BY <2>1, <1>12 DEF KickOK, Named
  <2>2. CASE toSaac'[s][i] = m
    <3>1. conn'[s][g].fdid = conn[s][f].fdid
      BY <2>2, <1>4
    <3>2. g = f
      <4>1. CASE g # f
        <5>1. conn[s][g].use /\ conn[s][g].fdid = conn[s][f].fdid
          BY <1>9, <3>1, <4>1
        <5> QED BY <1>1, <1>6, <5>1 DEF ServerOK
      <4> QED BY <4>1
    <3> QED BY <1>4, <1>8, <1>9, <2>2, <3>2
  <2> QED BY <1>4, <1>6, <1>9, <2>1, <2>2, AppendFacts
<1>15. KickOK(up[s], s \in registered, conn'[s], toSaac'[s], toGs'[s])
  BY <1>13, <1>14 DEF KickOK
<1> QED BY <1>5, <1>9, <1>11, <1>15, OneServer

(* Edit. *)
LEMMA EditKick ==
  ASSUME KickInv, Inv', NEW s \in Servers, NEW f \in Fds, Edit(s, f)
  PROVE  KickInv'
<1> DEFINE c == [conn[s][f] EXCEPT !.char = @ \union {edits + 1}]
<1>1. /\ UNCHANGED <<up, registered, toSaac, toGs>> /\ conn' = [conn EXCEPT ![s][f] = c]
  BY DEF Edit, saacVars, netVars, KickInv, Inv, TypeOK
<1>2. conn[s][f] \in Connection
  BY DEF KickInv, Inv, TypeOK
<1>3. /\ c.use = conn[s][f].use /\ c.state = conn[s][f].state /\ c.fdid = conn[s][f].fdid
      /\ c.cdkey = conn[s][f].cdkey /\ c.close_request = conn[s][f].close_request
  BY <1>2 DEF Connection
<1> HIDE DEF c
<1>4. /\ conn'[s][f] = c /\ \A g \in Fds : g # f => conn'[s][g] = conn[s][g]
      /\ \A t \in Servers \ {s} : conn'[t] = conn[t]
  BY <1>1 DEF KickInv, Inv, TypeOK
<1>5. Tame(conn[s][f], c, toSaac[s], toGs[s])
  BY <1>3 DEF Tame
<1> QED BY <1>1, <1>4, <1>5, TameSelf, LongerSelf, ClientTame

(* ClientLeaves and PeriodicSave. *)
LEMMA SameConnKick ==
  ASSUME KickInv, Inv', NEW s \in Servers, NEW f \in Fds,
         ClientLeaves(s, f) \/ PeriodicSave(s, f)
  PROVE  KickInv'
<1>1. UNCHANGED <<up, registered, toGs, conn>>
  BY DEF ClientLeaves, PeriodicSave, saacVars, gsVars, netVars
<1>2. CASE ClientLeaves(s, f)
  <2>1. toSaac' = toSaac
    BY <1>2 DEF ClientLeaves, netVars
  <2> QED BY <1>1, <2>1, TameSelf, LongerSelf, ClientTame
<1>3. CASE PeriodicSave(s, f)
  <2> DEFINE m == Save(s, f, FALSE)
  <2>1. m \in Request /\ m.type = "CharSave"
    BY <1>3, UsedFacts, SaveLine DEF PeriodicSave, LoggedIn, KickInv
  <2>2. /\ toSaac \in [Servers -> Seq(Request)]
        /\ toSaac' = [toSaac EXCEPT ![s] = Append(toSaac[s], m)]
    BY <1>3 DEF PeriodicSave, KickInv, Inv, TypeOK
  <2> HIDE DEF m
  <2>3. /\ toSaac'[s] = Append(toSaac[s], m)
        /\ \A t \in Servers \ {s} : toSaac'[t] = toSaac[t]
    BY <2>2
  <2>4. Longer(toSaac[s], toSaac'[s])
    BY <2>1, <2>2, <2>3, LongerAppend
  <2> QED BY <1>1, <2>3, <2>4, TameSelf, ClientTame
<1> QED BY <1>2, <1>3

-----------------------------------------------------------------------------
(* Answers handled by the game server.                                     *)

(* A server that has an answer is up and known to saac. *)
LEMMA KnownServer ==
  ASSUME KickInv, NEW s \in Servers, toGs[s] # <<>>
  PROVE  up[s] /\ s \in registered
<1>1. ServerOK(up[s], conn[s], nextFdid[s], toSaac[s], toGs[s])
  BY DEF KickInv, Inv
<1>2. up[s]
  BY <1>1 DEF ServerOK
<1> QED BY <1>2 DEF KickInv, KickOK, Listed, Fresh

(* The fields that say whose connection it is. *)
Same(c, c2) == c2.use = c.use /\ c2.fdid = c.fdid /\ c2.cdkey = c.cdkey

(* A server takes an answer; its connections keep their names. *)
LEMMA GsKick ==
  ASSUME KickInv, Inv', NEW s \in Servers, NEW type, Receive(s, type),
         UNCHANGED <<up, registered>>,
         \A t \in Servers \ {s} : conn'[t] = conn[t] /\ toSaac'[t] = toSaac[t],
         Longer(toSaac[s], toSaac'[s]),
         \A f \in Fds : Same(conn[s][f], conn'[s][f]),
         \A k \in Cdkeys : Doom(conn[s], toGs[s], k) => Doom(conn'[s], Tail(toGs[s]), k)
  PROVE  KickInv'
<1>0. Inv
  BY DEF KickInv
<1>1. toGs[s] # <<>> /\ toGs' = [toGs EXCEPT ![s] = Tail(toGs[s])]
  BY <1>0, ReceiveFacts
<1>2. toGs'[s] = Tail(toGs[s]) /\ \A t \in Servers \ {s} : toGs'[t] = toGs[t]
  BY <1>0, <1>1 DEF Inv, TypeOK
<1>3. up[s] /\ s \in registered
  BY <1>1, KnownServer
<1>4. KickOK(up[s], s \in registered, conn[s], toSaac[s], toGs[s])
  BY DEF KickInv
<1>5. Listed(up[s], s \in registered, conn'[s], toSaac'[s], toGs'[s])
  BY <1>3, <1>4 DEF KickOK, Listed, Longer
<1>6. Named(conn'[s], toSaac'[s])
  BY <1>4 DEF KickOK, Named, Longer, Same
<1>7. KickOK(up[s], s \in registered, conn'[s], toSaac'[s], toGs'[s])
  BY <1>5, <1>6 DEF KickOK
<1>8. \A k \in Cdkeys : Doom(conn[s], toGs[s], k) => Doom(conn'[s], toGs'[s], k)
  BY <1>2
<1> QED BY <1>2, <1>7, <1>8, OneServer

(* An answer that is no kick and lets nobody in. *)
LEMMA GsTame ==
  ASSUME KickInv, Inv', NEW s \in Servers, NEW type, type # "Kick", Receive(s, type),
         UNCHANGED <<up, registered>>,
         \A t \in Servers \ {s} : conn'[t] = conn[t] /\ toSaac'[t] = toSaac[t],
         Longer(toSaac[s], toSaac'[s]),
         \A f \in Fds : /\ Same(conn[s][f], conn'[s][f])
                         /\ Tame(conn[s][f], conn'[s][f], toSaac[s], toGs[s])
  PROVE  KickInv'
<1>1. /\ toGs[s] # <<>> /\ toGs[s] \in Seq(Reply) /\ Head(toGs[s]).type = type
  BY ReceiveFacts, QueueTypes DEF KickInv, Line
<1>2. ASSUME NEW k \in Cdkeys, Doom(conn[s], toGs[s], k)
      PROVE  Doom(conn'[s], Tail(toGs[s]), k)
  <2>1. Doom(conn'[s], toGs[s], k)
    BY <1>2, DoomTame
  <2>2. Head(toGs[s]) # Kick(k)
    BY <1>1 DEF Kick
  <2> QED BY <1>1, <2>1, <2>2, DoomTail
<1> QED BY <1>2, GsKick

(* A connection that is moved to a state out of the game. *)
LEMMA TameMove ==
  ASSUME NEW c \in Connection, NEW st \in State, st # "LOGIN", NEW qa, NEW qg
  PROVE  /\ Tame(c, [c EXCEPT !.state = st], qa, qg)
         /\ Same(c, [c EXCEPT !.state = st])
<1> DEFINE c2 == [c EXCEPT !.state = st]
<1>1. c2.use = c.use /\ c2.fdid = c.fdid /\ c2.cdkey = c.cdkey /\ c2.state # "LOGIN"
  BY SetState
<1> QED BY <1>1 DEF Tame, Same

(* SaacClient_ACCharLogin_recv and SaacClient_ACCharList_recv. *)
LEMMA ACStateKick ==
  ASSUME KickInv, Inv', NEW s \in Servers,
         SaacClient_ACCharLogin_recv(s) \/ SaacClient_ACCharList_recv(s)
  PROVE  KickInv'
<1>1. conn \in [Servers -> [Fds -> Connection]]
  BY DEF KickInv, Inv, TypeOK
<1>2. UNCHANGED <<up, registered, toSaac>>
  BY DEF SaacClient_ACCharLogin_recv, SaacClient_ACCharList_recv, saacVars
<1>3. PICK type \in {"CharLogin", "CharList"} : Receive(s, type)
  BY DEF SaacClient_ACCharLogin_recv, SaacClient_ACCharList_recv
<1>4. CASE SaacClient_ACCharLogin_recv(s)
  <2> DEFINE st == IF Line(s).ok THEN "NOTLOGIN" ELSE "NULLCONNECT"
             cs == [f \in Fds |-> IF f \in Owner(s, Line(s).fdid) /\ conn[s][f].state = "WHILEAUTH"
                                    THEN [conn[s][f] EXCEPT !.state = st] ELSE conn[s][f]]
  <2>1. conn' = [conn EXCEPT ![s] = cs]
    BY <1>4 DEF SaacClient_ACCharLogin_recv
  <2>2. st \in State /\ st # "LOGIN"
    BY DEF State
  <2>3. ASSUME NEW f \in Fds
        PROVE  cs[f] = conn[s][f] \/ cs[f] = [conn[s][f] EXCEPT !.state = st]
    OBVIOUS
  <2> HIDE DEF st, cs
  <2>4. conn'[s] = cs /\ \A t \in Servers \ {s} : conn'[t] = conn[t]
    BY <1>1, <2>1
  <2>5. ASSUME NEW f \in Fds
        PROVE  Same(conn[s][f], cs[f]) /\ Tame(conn[s][f], cs[f], toSaac[s], toGs[s])
    <3>1. conn[s][f] \in Connection
      BY <1>1
    <3>2. CASE cs[f] = conn[s][f]
      BY <3>2, TameSelf DEF Same
    <3>3. CASE cs[f] = [conn[s][f] EXCEPT !.state = st]
      BY <2>2, <3>1, <3>3, TameMove
    <3> QED BY <2>3, <3>2, <3>3
  <2> QED BY <1>2, <1>3, <2>4, <2>5, LongerSelf, GsTame
<1>5. CASE SaacClient_ACCharList_recv(s)
  <2> DEFINE cs == [f \in Fds |-> IF f \in Owner(s, Line(s).fdid)
                                    THEN [conn[s][f] EXCEPT !.state = "NOTLOGIN"] ELSE conn[s][f]]
  <2>1. conn' = [conn EXCEPT ![s] = cs]
    BY <1>5 DEF SaacClient_ACCharList_recv
  <2>3. ASSUME NEW f \in Fds
        PROVE  cs[f] = conn[s][f] \/ cs[f] = [conn[s][f] EXCEPT !.state = "NOTLOGIN"]
    OBVIOUS
  <2> HIDE DEF cs
  <2>4. conn'[s] = cs /\ \A t \in Servers \ {s} : conn'[t] = conn[t]
    BY <1>1, <2>1
  <2>5. ASSUME NEW f \in Fds
        PROVE  Same(conn[s][f], cs[f]) /\ Tame(conn[s][f], cs[f], toSaac[s], toGs[s])
    <3>1. conn[s][f] \in Connection
      BY <1>1
    <3>2. CASE cs[f] = conn[s][f]
      BY <3>2, TameSelf DEF Same
    <3>3. CASE cs[f] = [conn[s][f] EXCEPT !.state = "NOTLOGIN"]
      BY <3>1, <3>3, TameMove DEF State
    <3> QED BY <2>3, <3>2, <3>3
  <2> QED BY <1>2, <1>3, <2>4, <2>5, LongerSelf, GsTame
<1> QED BY <1>4, <1>5

(* One connection of s replaced, seen pointwise. *)
LEMMA OneReplaced ==
  ASSUME KickInv, NEW s \in Servers, NEW f \in Fds, NEW c, conn' = [conn EXCEPT ![s][f] = c]
  PROVE  /\ conn'[s][f] = c /\ \A g \in Fds : g # f => conn'[s][g] = conn[s][g]
         /\ \A t \in Servers \ {s} : conn'[t] = conn[t]
  BY DEF KickInv, Inv, TypeOK

(* The owner of an answer moves out of the wait, perhaps with a request to unlock. *)
LEMMA OwnerMoves ==
  ASSUME KickInv, Inv', NEW s \in Servers, NEW type \in LineTypes, Receive(s, type),
         UNCHANGED <<up, registered>>, NEW f \in Owner(s, Line(s).fdid),
         NEW st \in State, st # "LOGIN",
         conn' = [conn EXCEPT ![s][f].state = st] \/ UNCHANGED conn,
         UNCHANGED toSaac \/ toSaac' = [toSaac EXCEPT ![s] = Append(@, Ask("Lock", s, f))]
  PROVE  KickInv'
<1> DEFINE c == [conn[s][f] EXCEPT !.state = st]
           m == Ask("Lock", s, f)
<1>1. /\ f \in Fds /\ conn[s][f] \in Connection /\ conn[s][f].fdid \in Fdid
      /\ conn[s][f].cdkey \in Cdkeys
  BY OwnerFacts DEF KickInv
<1>2. toSaac \in [Servers -> Seq(Request)] /\ conn \in [Servers -> [Fds -> Connection]]
  BY DEF KickInv, Inv, TypeOK
<1>3. m \in Request /\ m.type = "Lock"
  BY <1>1, AskLine DEF LineTypes
<1>4. conn' = [conn EXCEPT ![s][f] = c] \/ conn' = conn
  BY <1>2
<1>5. toSaac' = toSaac \/ toSaac' = [toSaac EXCEPT ![s] = Append(toSaac[s], m)]
  BY <1>2
<1>6. Tame(conn[s][f], c, toSaac[s], toGs[s]) /\ Same(conn[s][f], c)
  BY <1>1, TameMove
<1> HIDE DEF c, m
<1>7. /\ conn'[s][f] \in {c, conn[s][f]} /\ \A g \in Fds : g # f => conn'[s][g] = conn[s][g]
      /\ \A t \in Servers \ {s} : conn'[t] = conn[t]
  <2>1. CASE conn' = [conn EXCEPT ![s][f] = c]
    BY <1>1, <2>1, OneReplaced
  <2>2. CASE conn' = conn
    BY <2>2
  <2> QED BY <1>4, <2>1, <2>2
<1>8. /\ toSaac'[s] \in {toSaac[s], Append(toSaac[s], m)}
      /\ \A t \in Servers \ {s} : toSaac'[t] = toSaac[t]
  BY <1>2, <1>5
<1>9. Longer(toSaac[s], toSaac'[s])
  <2>1. toSaac[s] \in Seq(Request)
    BY <1>2
  <2>2. Longer(toSaac[s], toSaac[s]) /\ Longer(toSaac[s], Append(toSaac[s], m))
    BY <1>3, <2>1, LongerSelf, LongerAppend
  <2> QED BY <1>8, <2>2
<1>10. \A g \in Fds : /\ Same(conn[s][g], conn'[s][g])
                       /\ Tame(conn[s][g], conn'[s][g], toSaac[s], toGs[s])
  BY <1>6, <1>7, TameSelf DEF Same
<1>11. type # "Kick"
  BY DEF LineTypes
<1> QED BY <1>7, <1>8, <1>9, <1>10, <1>11, GsTame

(* SaacClient_ACCharLoad_recv: who enters the game is followed by the kick that was
   behind the answer. *)
LEMMA ACCharLoadKick ==
  ASSUME KickInv, Inv', NEW s \in Servers, SaacClient_ACCharLoad_recv(s)
  PROVE  KickInv'
<1>1. /\ Receive(s, "CharLoad") /\ "CharLoad" \in LineTypes /\ UNCHANGED <<up, registered>>
  BY DEF SaacClient_ACCharLoad_recv, LineTypes, saacVars
<1>2. CASE UNCHANGED <<conn, toSaac>>
  BY <1>1, <1>2, TameSelf, LongerSelf, GsTame DEF Same
<1>3. ASSUME NEW f \in Owner(s, Line(s).fdid), NEW st \in {"NOTLOGIN", "WHILECANNOTLOGIN"},
             conn' = [conn EXCEPT ![s][f].state = st],
             UNCHANGED toSaac \/ toSaac' = [toSaac EXCEPT ![s] = Append(@, Ask("Lock", s, f))]
      PROVE  KickInv'
  <2>1. st \in State /\ st # "LOGIN"
    BY DEF State, Waiting
  <2> QED BY <1>1, <1>3, <2>1, OwnerMoves
<1>4. ASSUME NEW f \in Owner(s, Line(s).fdid), Line(s).ok,
             conn' = [conn EXCEPT ![s][f].state = "LOGIN", ![s][f].char = Line(s).data],
             UNCHANGED toSaac
      PROVE  KickInv'
  <2> DEFINE c == [conn[s][f] EXCEPT !.state = "LOGIN", !.char = Line(s).data]
  <2>1. conn[s][f] \in Connection /\ f \in Fds /\ conn[s][f].use /\ conn[s][f].fdid = Line(s).fdid
    BY <1>1, OwnerFacts DEF KickInv, Owner
  <2>2. Same(conn[s][f], c)
    BY <2>1 DEF Same, Connection
  <2>3. conn' = [conn EXCEPT ![s][f] = c]
    <3>1. conn \in [Servers -> [Fds -> Connection]]
      BY DEF KickInv, Inv, TypeOK
    <3> QED BY ONLY <1>4, <2>1, <3>1, s \in Servers
  <2> HIDE DEF c
  <2>4. /\ conn'[s][f] = c /\ \A g \in Fds : g # f => conn'[s][g] = conn[s][g]
        /\ \A t \in Servers \ {s} : conn'[t] = conn[t]
    BY <2>1, <2>3, OneReplaced
  <2>5. \A g \in Fds : Same(conn[s][g], conn'[s][g])
    BY <2>2, <2>4 DEF Same
  <2>6. /\ toGs[s] # <<>> /\ toGs[s] \in Seq(Reply) /\ Line(s) = Head(toGs[s])
        /\ Line(s).type = "CharLoad"
    BY <1>1, ReceiveFacts, QueueTypes DEF KickInv, Line
  <2>7. ASSUME NEW k \in Cdkeys, Doom(conn[s], toGs[s], k)
        PROVE  Doom(conn'[s], Tail(toGs[s]), k)
    <3>1. \A g \in Fds : /\ conn'[s][g].use = conn[s][g].use /\ conn'[s][g].fdid = conn[s][g].fdid
                          /\ conn'[s][g].cdkey = conn[s][g].cdkey
      BY <2>5 DEF Same
    <3>2. PICK q : q = toGs[s]
      OBVIOUS
    <3>3. PICK cs : cs = conn[s]
      OBVIOUS
    <3>4. PICK cs2 : cs2 = conn'[s]
      OBVIOUS
    <3>5. q \in Seq(Reply) /\ q # <<>> /\ Head(q).type = "CharLoad" /\ Head(q).ok /\ Doom(cs, q, k)
      BY <1>4, <2>6, <2>7, <3>2, <3>3
    <3>6. cs[f].use /\ cs[f].fdid = Head(q).fdid
      BY <2>1, <2>6, <3>2, <3>3
    <3>7. /\ \A g \in Fds : /\ cs2[g].use = cs[g].use /\ cs2[g].fdid = cs[g].fdid
                             /\ cs2[g].cdkey = cs[g].cdkey
          /\ \A g \in Fds : g # f => cs2[g] = cs[g]
      BY <2>4, <3>1, <3>3, <3>4
    <3>8. Doom(cs2, Tail(q), k)
      BY ONLY <2>1, <3>5, <3>6, <3>7, DoomEnter
    <3> QED BY <3>2, <3>4, <3>8
  <2> QED BY <1>1, <1>4, <2>4, <2>5, <2>7, LongerSelf, GsKick
<1> QED BY <1>2, <1>3, <1>4 DEF SaacClient_ACCharLoad_recv

(* SaacClient_ACLock_recv. *)
LEMMA ACLockKick ==
  ASSUME KickInv, Inv', NEW s \in Servers, SaacClient_ACLock_recv(s)
  PROVE  KickInv'
<1>1. /\ Receive(s, "Lock") /\ "Lock" \in LineTypes /\ UNCHANGED <<up, registered>>
      /\ "NOTLOGIN" \in State
  BY DEF SaacClient_ACLock_recv, LineTypes, saacVars, State
<1>2. CASE UNCHANGED <<conn, toSaac>>
  BY <1>1, <1>2, TameSelf, LongerSelf, GsTame DEF Same
<1>3. ASSUME NEW f \in Owner(s, Line(s).fdid),
             conn' = [conn EXCEPT ![s][f].state = "NOTLOGIN"] \/ UNCHANGED conn,
             UNCHANGED toSaac \/ toSaac' = [toSaac EXCEPT ![s] = Append(@, Ask("Lock", s, f))]
      PROVE  KickInv'
  BY <1>1, <1>3, OwnerMoves
<1> QED BY <1>2, <1>3 DEF SaacClient_ACLock_recv

(* SaacClient_ACUCheck_recv. *)
LEMMA ACUCheckKick ==
  ASSUME KickInv, Inv', NEW s \in Servers, SaacClient_ACUCheck_recv(s)
  PROVE  KickInv'
<1> DEFINE st == IF WithLogin(s, Line(s).cdkey) THEN 1 ELSE 0
           m == [type |-> "UCheck", cdkey |-> Line(s).cdkey, status |-> st]
<1>1. toSaac \in [Servers -> Seq(Request)]
  BY DEF KickInv, Inv, TypeOK
<1>2. /\ Receive(s, "UCheck") /\ UNCHANGED <<up, registered, conn>>
      /\ toSaac' = [toSaac EXCEPT ![s] = Append(toSaac[s], m)]
  BY <1>1 DEF SaacClient_ACUCheck_recv, saacVars, gsVars
<1>3. m \in Request /\ m.type = "UCheck"
  <2>1. Line(s).cdkey \in Cdkeys /\ st \in {0, 1}
    BY <1>2, ReceiveFacts, ReplyFields DEF KickInv
  <2> HIDE DEF st
  <2> QED BY <2>1, UCheckLine
<1> HIDE DEF m
<1>4. toSaac'[s] = Append(toSaac[s], m) /\ \A t \in Servers \ {s} : toSaac'[t] = toSaac[t]
  BY <1>1, <1>2
<1>5. Longer(toSaac[s], toSaac'[s])
  BY <1>1, <1>3, <1>4, LongerAppend
<1> QED BY <1>2, <1>4, <1>5, TameSelf, GsTame DEF Same

(* SaacClient_ACKick_recv: everybody in play is to be closed. *)
LEMMA ACKickKick ==
  ASSUME KickInv, Inv', NEW s \in Servers, SaacClient_ACKick_recv(s)
  PROVE  KickInv'
<1> DEFINE cs == [f \in Fds |-> IF LoggedIn(s, f) /\ conn[s][f].cdkey = Line(s).cdkey
                    THEN [conn[s][f] EXCEPT !.close_request = TRUE] ELSE conn[s][f]]
<1>1. Receive(s, "Kick") /\ UNCHANGED <<up, registered, toSaac>> /\ conn' = [conn EXCEPT ![s] = cs]
  BY DEF SaacClient_ACKick_recv, saacVars
<1>2. conn \in [Servers -> [Fds -> Connection]]
  BY DEF KickInv, Inv, TypeOK
<1>3. ASSUME NEW f \in Fds
      PROVE  /\ Same(conn[s][f], cs[f]) /\ Tame(conn[s][f], cs[f], toSaac[s], toGs[s])
             /\ Plays(cs[f], Line(s).cdkey) => cs[f].close_request
  <2>1. conn[s][f] \in Connection
    BY <1>2
  <2>2. CASE LoggedIn(s, f) /\ conn[s][f].cdkey = Line(s).cdkey
    <3> DEFINE c == [conn[s][f] EXCEPT !.close_request = TRUE]
    <3>1. cs[f] = c
      BY <2>2
    <3>2. /\ c.use = conn[s][f].use /\ c.fdid = conn[s][f].fdid /\ c.cdkey = conn[s][f].cdkey
          /\ c.state = conn[s][f].state /\ c.close_request = TRUE
      BY <2>1 DEF Connection
    <3> HIDE DEF c, cs
    <3> QED BY <3>1, <3>2 DEF Same, Tame
  <2>3. CASE ~(LoggedIn(s, f) /\ conn[s][f].cdkey = Line(s).cdkey)
    <3>1. cs[f] = conn[s][f]
      BY <2>3
    <3> HIDE DEF cs
    <3> QED BY <2>3, <3>1, TameSelf DEF Same, Plays, LoggedIn
  <2> QED BY <2>2, <2>3
<1> HIDE DEF cs
<1>4. conn'[s] = cs /\ \A t \in Servers \ {s} : conn'[t] = conn[t]
  BY <1>1, <1>2
<1>5. toGs[s] # <<>> /\ toGs[s] \in Seq(Reply) /\ Line(s) = Head(toGs[s])
  BY <1>1, ReceiveFacts, QueueTypes DEF KickInv, Line
<1>6. ASSUME NEW k \in Cdkeys, Doom(conn[s], toGs[s], k)
      PROVE  Doom(cs, Tail(toGs[s]), k)
  <2>1. Doom(cs, toGs[s], k)
    BY <1>3, <1>6, DoomTame
  <2>2. Head(toGs[s]) = Kick(k) => Line(s).cdkey = k
    BY <1>5 DEF Kick
  <2> QED BY <1>3, <1>5, <2>1, <2>2, DoomTail
<1> QED BY <1>1, <1>3, <1>4, <1>6, LongerSelf, GsKick

-----------------------------------------------------------------------------
(* Requests handled by saac.                                               *)

(* Answers r instead of q: known servers, and s, got lines that let nobody of
   account k in. *)
Sent(q, r, s, k) ==
  /\ r \in [Servers -> Seq(Reply)]
  /\ \A t \in Servers : Doom(conn[t], q[t], k) => Doom(conn[t], r[t], k)
  /\ \A t \in Servers \ {s} : t \notin registered => r[t] = q[t]

(* Sent is reflexive. *)
LEMMA SentSelf ==
  ASSUME NEW q \in [Servers -> Seq(Reply)], NEW s, NEW k
  PROVE  Sent(q, q, s, k)
  BY DEF Sent

(* Sent is transitive. *)
LEMMA SentTrans ==
  ASSUME NEW p, NEW q, NEW r, NEW s, NEW k, Sent(p, q, s, k), Sent(q, r, s, k)
  PROVE  Sent(p, r, s, k)
  BY DEF Sent

(* A line that brings nobody of account k. *)
LEMMA PutSent ==
  ASSUME NEW q \in [Servers -> Seq(Reply)], NEW s, NEW k, NEW S, NEW m \in Reply,
         \A t \in S : t = s \/ t \in registered,
         \A t \in S \cap Servers : ~Brings(conn[t], m, k)
  PROVE  Sent(q, Put(q, S, m), s, k)
<1>1. /\ Put(q, S, m) \in [Servers -> Seq(Reply)]
      /\ \A t \in Servers : Put(q, S, m)[t] = IF t \in S /\ up[t] THEN Append(q[t], m) ELSE q[t]
  BY PutQueues
<1>2. ASSUME NEW t \in Servers, Doom(conn[t], q[t], k)
      PROVE  Doom(conn[t], Put(q, S, m)[t], k)
  <2>1. q[t] \in Seq(Reply)
    OBVIOUS
  <2>2. CASE t \in S /\ up[t]
    <3>1. ~Brings(conn[t], m, k)
      BY <2>2
    <3>2. Doom(conn[t], Append(q[t], m), k)
      BY <1>2, <2>1, <3>1, DoomAppend
    <3> QED BY <1>1, <2>2, <3>2
  <2>3. CASE ~(t \in S /\ up[t])
    BY <1>1, <1>2, <2>3
  <2> QED BY <2>2, <2>3
<1> QED BY <1>1, <1>2 DEF Sent

(* A line of another type than CharLoad. *)
LEMMA PutOther ==
  ASSUME NEW q \in [Servers -> Seq(Reply)], NEW s, NEW k, NEW S, NEW m \in Reply,
         \A t \in S : t = s \/ t \in registered, m.type # "CharLoad"
  PROVE  Sent(q, Put(q, S, m), s, k)
<1>1. \A t \in S \cap Servers : ~Brings(conn[t], m, k)
  BY DEF Brings
<1> QED BY <1>1, PutSent

(* The kicks, and the question of checkGSUCheck. *)
LEMMA PutKick ==
  ASSUME NEW q \in [Servers -> Seq(Reply)], NEW s, NEW k, NEW l \in Cdkeys, NEW S,
         \A t \in S : t = s \/ t \in registered
  PROVE  /\ Sent(q, Put(q, S, Kick(l)), s, k)
         /\ Sent(q, Put(q, S, [type |-> "UCheck", cdkey |-> l]), s, k)
<1> DEFINE m == [type |-> "UCheck", cdkey |-> l]
<1>1. Kick(l) \in Reply /\ Kick(l).type # "CharLoad"
  BY KickLine
<1>2. m \in Reply /\ m.type # "CharLoad"
  BY UCheckLine
<1> HIDE DEF m
<1>3. Sent(q, Put(q, S, Kick(l)), s, k)
  BY <1>1, PutOther
<1>4. Sent(q, Put(q, S, m), s, k)
  BY <1>2, PutOther
<1> QED BY <1>3, <1>4 DEF m

(* saac takes a request of a server that is not about the server itself. *)
LEMMA SaacKick ==
  ASSUME KickInv, Inv', NEW s \in Servers, NEW type, type \notin {"ServerLogin", "Eof"},
         Handle(s, type), UNCHANGED <<registered, gsVars>>,
         \A t \in Servers \ {s} : t \notin registered => toGs'[t] = toGs[t],
         OneDoomed'
  PROVE  KickInv'
<1>0. Inv
  BY DEF KickInv
<1>1. /\ toSaac[s] # <<>> /\ toSaac[s] \in Seq(Request) /\ Head(toSaac[s]).type = type
      /\ toSaac'[s] = Tail(toSaac[s]) /\ \A t \in Servers \ {s} : toSaac'[t] = toSaac[t]
  BY <1>0, HandleFacts
<1>2. UNCHANGED <<up, conn, registered>>
  BY DEF gsVars
<1>3. \A t \in Servers : KickOK(up[t], t \in registered, conn[t], toSaac[t], toGs[t])
  BY DEF KickInv
<1>4. KickOK(up[s], s \in registered, conn[s], Tail(toSaac[s]), toGs'[s])
  <2>1. up[s] => s \in registered
    BY <1>1, <1>3 DEF KickOK, Listed, Fresh
  <2>2. \A i \in DOMAIN Tail(toSaac[s]) :
          i + 1 \in DOMAIN toSaac[s] /\ Tail(toSaac[s])[i] = toSaac[s][i + 1]
    BY <1>1, TailFacts
  <2> DEFINE r == Tail(toSaac[s])
  <2> HIDE DEF r
  <2>3. Listed(up[s], s \in registered, conn[s], r, toGs'[s])
    BY <1>3, <2>1, <2>2 DEF KickOK, Listed, r
  <2>4. Named(conn[s], r)
    BY <1>3, <2>2 DEF KickOK, Named, r
  <2> QED BY <2>3, <2>4 DEF KickOK, r
<1>5. ASSUME NEW t \in Servers, t # s
      PROVE  KickOK(up[t], t \in registered, conn[t], toSaac[t], toGs'[t])
  <2>1. KickOK(up[t], t \in registered, conn[t], toSaac[t], toGs[t])
    BY <1>3
  <2>2. CASE t \in registered
    BY <2>1, <2>2 DEF KickOK, Listed
  <2>3. CASE t \notin registered
    BY <1>5, <2>1, <2>3
  <2> QED BY <2>2, <2>3
<1>6. \A t \in Servers : KickOK(up'[t], t \in registered', conn'[t], toSaac'[t], toGs'[t])
  BY <1>1, <1>2, <1>4, <1>5
<1> QED BY <1>6 DEF KickInv

(* saac answers with lines that let nobody in. *)
LEMMA SentKick ==
  ASSUME KickInv, Inv', NEW s \in Servers, NEW type, type \notin {"ServerLogin", "Eof"},
         Handle(s, type), UNCHANGED <<registered, gsVars>>,
         \A k : Sent(toGs, toGs', s, k)
  PROVE  KickInv'
<1>1. conn' = conn
  BY DEF gsVars
<1>2. OneDoomed'
  BY <1>1 DEF KickInv, OneDoomed, Sent
<1>3. \A t \in Servers \ {s} : t \notin registered => toGs'[t] = toGs[t]
  BY DEF Sent
<1> QED BY <1>2, <1>3, SaacKick

(* ServerLogin: the server is known from now on. *)
LEMMA ServerLoginKick ==
  ASSUME KickInv, Inv', NEW s \in Servers, ServerLogin(s)
  PROVE  KickInv'
<1>0. Inv
  BY DEF KickInv
<1>1. /\ Handle(s, "ServerLogin") /\ UNCHANGED <<up, conn, toGs>>
      /\ registered' = registered \union {s}
  BY DEF ServerLogin, gsVars
<1>2. /\ toSaac[s] # <<>> /\ toSaac[s] \in Seq(Request)
      /\ toSaac'[s] = Tail(toSaac[s]) /\ \A t \in Servers \ {s} : toSaac'[t] = toSaac[t]
  BY <1>0, <1>1, HandleFacts
<1>3. \A t \in Servers : KickOK(up[t], t \in registered, conn[t], toSaac[t], toGs[t])
  BY DEF KickInv
<1>4. KickOK(up[s], TRUE, conn[s], Tail(toSaac[s]), toGs[s])
  <2>1. \A i \in DOMAIN Tail(toSaac[s]) :
          i + 1 \in DOMAIN toSaac[s] /\ Tail(toSaac[s])[i] = toSaac[s][i + 1]
    BY <1>2, TailFacts
  <2> QED BY <1>3, <2>1 DEF KickOK, Listed, Named
<1>5. ASSUME NEW t \in Servers, t # s
      PROVE  KickOK(up[t], t \in registered', conn[t], toSaac[t], toGs[t])
  <2>1. KickOK(up[t], t \in registered, conn[t], toSaac[t], toGs[t])
    BY <1>3
  <2>2. t \in registered' <=> t \in registered
    BY <1>1, <1>5
  <2> QED BY <2>1, <2>2 DEF KickOK, Listed
<1>6. s \in registered'
  BY <1>1
<1>7. KickOK(up[s], s \in registered', conn[s], Tail(toSaac[s]), toGs[s])
  BY <1>4, <1>6 DEF KickOK, Listed
<1>8. \A t \in Servers : KickOK(up'[t], t \in registered', conn'[t], toSaac'[t], toGs'[t])
  BY <1>1, <1>2, <1>5, <1>7
<1>9. OneDoomed'
  BY <1>1 DEF KickInv, OneDoomed
<1> QED BY <1>8, <1>9 DEF KickInv

(* ServerLogout: the server is down. *)
LEMMA ServerLogoutKick ==
  ASSUME KickInv, Inv', NEW s \in Servers, ServerLogout(s)
  PROVE  KickInv'
<1>0. Inv
  BY DEF KickInv
<1>1. /\ Handle(s, "Eof") /\ UNCHANGED <<up, conn, toGs>>
      /\ registered' = registered \ {s}
  BY DEF ServerLogout, gsVars
<1>2. /\ toSaac[s] # <<>> /\ toSaac[s] \in Seq(Request) /\ Head(toSaac[s]).type = "Eof"
      /\ toSaac'[s] = Tail(toSaac[s]) /\ \A t \in Servers \ {s} : toSaac'[t] = toSaac[t]
  BY <1>0, <1>1, HandleFacts
<1>3. \A t \in Servers : KickOK(up[t], t \in registered, conn[t], toSaac[t], toGs[t])
  BY DEF KickInv
<1>4. KickOK(up[s], s \in registered', conn[s], Tail(toSaac[s]), toGs[s])
  <2>1. toSaac[s][1] = Head(toSaac[s]) /\ 1 \in DOMAIN toSaac[s]
    BY <1>2, TailFacts
  <2>2. ~up[s]
    BY <1>2, <1>3, <2>1 DEF KickOK, Listed
  <2>3. \A i \in DOMAIN Tail(toSaac[s]) :
          i + 1 \in DOMAIN toSaac[s] /\ Tail(toSaac[s])[i] = toSaac[s][i + 1]
    BY <1>2, TailFacts
  <2> QED BY <1>3, <2>2, <2>3 DEF KickOK, Listed, Named
<1>5. ASSUME NEW t \in Servers, t # s
      PROVE  KickOK(up[t], t \in registered', conn[t], toSaac[t], toGs[t])
  <2>1. KickOK(up[t], t \in registered, conn[t], toSaac[t], toGs[t])
    BY <1>3
  <2>2. t \in registered' <=> t \in registered
    BY <1>1, <1>5
  <2> QED BY <2>1, <2>2 DEF KickOK, Listed
<1>6. \A t \in Servers : KickOK(up'[t], t \in registered', conn'[t], toSaac'[t], toGs'[t])
  BY <1>1, <1>2, <1>4, <1>5
<1>7. OneDoomed'
  BY <1>1 DEF KickInv, OneDoomed
<1> QED BY <1>6, <1>7 DEF KickInv

(* The server whose request is handled may be sent an answer. *)
LEMMA AnswerSent ==
  ASSUME Inv, NEW s \in Servers, NEW type \in {"CharLogin", "CharList", "Lock"},
         Handle(s, type), NEW ok \in BOOLEAN, NEW k
  PROVE  /\ Sent(toGs, Put(toGs, {s}, Answer(Req(s), ok)), s, k)
         /\ Put(toGs, {s}, Answer(Req(s), ok)) \in [Servers -> Seq(Reply)]
<1> DEFINE m == Answer(Req(s), ok)
<1>1. /\ m \in Reply /\ m.type # "CharLoad" /\ toGs \in [Servers -> Seq(Reply)]
  BY HandleFacts, AnswerLine, SMTT(30)
<1> HIDE DEF m
<1>2. Sent(toGs, Put(toGs, {s}, m), s, k)
  BY <1>1, PutOther
<1>3. Put(toGs, {s}, m) \in [Servers -> Seq(Reply)]
  BY <1>2 DEF Sent
<1> QED BY <1>2, <1>3 DEF m

(* SaacServer_ACCharLogin_recv. *)
LEMMA CharLoginRecvKick ==
  ASSUME KickInv, Inv', NEW s \in Servers, SaacServer_ACCharLogin_recv(s)
  PROVE  KickInv'
<1>1. PICK ok \in BOOLEAN :
        /\ Handle(s, "CharLogin") /\ UNCHANGED <<registered, gsVars>>
        /\ toGs' = Put(toGs, {s}, Answer(Req(s), ok))
  BY DEF SaacServer_ACCharLogin_recv, saacVars
<1>2. \A k : Sent(toGs, toGs', s, k)
  BY <1>1, AnswerSent DEF KickInv
<1> QED BY <1>1, <1>2, SentKick

(* SaacServer_ACLock_recv. *)
LEMMA LockRecvKick ==
  ASSUME KickInv, Inv', NEW s \in Servers, SaacServer_ACLock_recv(s)
  PROVE  KickInv'
<1> DEFINE ok == isLocked(Req(s).cdkey)
<1>1. /\ Handle(s, "Lock") /\ UNCHANGED <<registered, gsVars>>
      /\ toGs' = Put(toGs, {s}, Answer(Req(s), ok))
  BY DEF SaacServer_ACLock_recv
<1>2. ok \in BOOLEAN
  BY DEF isLocked
<1> HIDE DEF ok
<1>3. \A k : Sent(toGs, toGs', s, k)
  BY <1>1, <1>2, AnswerSent DEF KickInv
<1> QED BY <1>1, <1>3, SentKick

(* SaacServer_ACCharSave_recv. *)
LEMMA CharSaveRecvKick ==
  ASSUME KickInv, Inv', NEW s \in Servers, SaacServer_ACCharSave_recv(s)
  PROVE  KickInv'
<1>1. Handle(s, "CharSave") /\ UNCHANGED <<registered, gsVars>> /\ toGs' = toGs
  BY DEF SaacServer_ACCharSave_recv
<1>2. \A k : Sent(toGs, toGs', s, k)
  BY <1>1, HandleFacts, SentSelf DEF KickInv
<1> QED BY <1>1, <1>2, SentKick

(* SaacServer_ACUCheck_recv. *)
LEMMA UCheckRecvKick ==
  ASSUME KickInv, Inv', NEW s \in Servers, SaacServer_ACUCheck_recv(s)
  PROVE  KickInv'
<1> DEFINE l == Req(s).cdkey
<1>1. /\ Handle(s, "UCheck") /\ UNCHANGED <<registered, gsVars>>
      /\ toGs' = toGs \/ toGs' = Put(toGs, registered, Kick(l))
  BY DEF SaacServer_ACUCheck_recv
<1>2. l \in Cdkeys /\ toGs \in [Servers -> Seq(Reply)]
  BY <1>1, HandleFacts, RequestFields DEF KickInv
<1> HIDE DEF l
<1>3. ASSUME NEW k PROVE Sent(toGs, toGs', s, k)
  <2>1. Sent(toGs, Put(toGs, registered, Kick(l)), s, k)
    BY <1>2, PutKick
  <2> QED BY <1>1, <1>2, <2>1, SentSelf
<1> QED BY <1>1, <1>3, SentKick

(* SaacServer_ACCharList_recv: the question goes to a server that is known. *)
LEMMA CharListRecvKick ==
  ASSUME KickInv, Inv', NEW s \in Servers, SaacServer_ACCharList_recv(s)
  PROVE  KickInv'
<1> DEFINE l == Req(s).cdkey
           none == Put(toGs, {s}, Answer(Req(s), FALSE))
           refused == Put(none, registered, Kick(l))
           given == Put(toGs, {s}, Answer(Req(s), TRUE))
           asked == Put(refused, {lock[l]}, [type |-> "UCheck", cdkey |-> l])
<1>0. Inv
  BY DEF KickInv
<1>1. /\ Handle(s, "CharList") /\ UNCHANGED <<registered, gsVars>>
      /\ \/ toGs' \in {none, refused, given}
         \/ lock[l] \in registered /\ toGs' = asked
  BY DEF SaacServer_ACCharList_recv
<1>2. l \in Cdkeys
  <2>1. Req(s) \in Request /\ Req(s).type = "CharList"
    BY <1>0, <1>1, HandleFacts
  <2> QED BY <2>1, RequestFields DEF LineTypes
<1>3. ASSUME NEW k PROVE Sent(toGs, toGs', s, k)
  <2>1. /\ Sent(toGs, none, s, k) /\ none \in [Servers -> Seq(Reply)]
        /\ Sent(toGs, given, s, k)
    BY <1>0, <1>1, AnswerSent
  <2> HIDE DEF none, given, l
  <2>2. Sent(none, refused, s, k)
    BY <1>2, <2>1, PutKick
  <2>3. refused \in [Servers -> Seq(Reply)] /\ Sent(toGs, refused, s, k)
    BY <2>1, <2>2, SentTrans DEF Sent
  <2> HIDE DEF refused
  <2>4. CASE toGs' \in {none, refused, given}
    BY <2>1, <2>3, <2>4
  <2>5. CASE lock[l] \in registered /\ toGs' = asked
    <3>1. \A t \in {lock[l]} : t = s \/ t \in registered
      BY <2>5
    <3>2. Sent(refused, asked, s, k)
      BY <1>2, <2>3, <3>1, PutKick
    <3> HIDE DEF asked
    <3> QED BY <2>3, <2>5, <3>2, SentTrans
  <2> QED BY <1>1, <2>4, <2>5
<1> HIDE DEF none, refused, given, asked
<1> QED BY <1>1, <1>3, SentKick

(* The answer to a load: it lets at most the account in that was asked for. *)
LEMMA LoadedSent ==
  ASSUME KickInv, NEW s \in Servers, Handle(s, "CharLoad"), NEW ok \in BOOLEAN, NEW k,
         ok => k # Req(s).cdkey
  PROVE  Sent(toGs, Put(toGs, {s}, Loaded(Req(s), ok)), s, k)
<1> DEFINE m == Loaded(Req(s), ok)
<1>0. Inv
  BY DEF KickInv
<1>1. /\ toSaac[s] # <<>> /\ toSaac[s] \in Seq(Request) /\ Req(s) \in Request
      /\ Req(s) = Head(toSaac[s]) /\ Req(s).type = "CharLoad"
      /\ toGs \in [Servers -> Seq(Reply)]
  BY <1>0, HandleFacts
<1>2. m \in Reply /\ m.ok = ok
  BY <1>0, <1>1, LoadedLine DEF Inv, TypeOK
<1>3. m.fdid = Req(s).fdid
  BY DEF Loaded
<1> HIDE DEF m
<1>4. ~Brings(conn[s], m, k)
  <2>1. ASSUME NEW f \in Fds, conn[s][f].use, conn[s][f].fdid = m.fdid
        PROVE  conn[s][f].cdkey = Req(s).cdkey
    <3>1. toSaac[s][1] = Req(s) /\ 1 \in DOMAIN toSaac[s]
      BY <1>1, TailFacts
    <3>2. Named(conn[s], toSaac[s])
      BY DEF KickInv, KickOK
    <3> QED BY <1>1, <1>3, <2>1, <3>1, <3>2 DEF Named
  <2> QED BY <1>2, <2>1 DEF Brings
<1>5. Sent(toGs, Put(toGs, {s}, m), s, k)
  BY <1>1, <1>2, <1>4, PutSent
<1> QED BY <1>5 DEF m

(* SaacServer_ACCharLoad_recv: a load that succeeds kicks the account from every
   server but that of the load. *)
LEMMA CharLoadRecvKick ==
  ASSUME KickInv, Inv', NEW s \in Servers, SaacServer_ACCharLoad_recv(s)
  PROVE  KickInv'
<1> DEFINE l == Req(s).cdkey
           line(ok) == Put(toGs, {s}, Loaded(Req(s), ok))
<1>0. Inv
  BY DEF KickInv
<1>1. /\ Handle(s, "CharLoad") /\ UNCHANGED <<registered, gsVars>>
      /\ \/ toGs' = line(FALSE)
         \/ toGs' = Put(line(FALSE), registered, Kick(l))
         \/ \E ok \in BOOLEAN : toGs' = Put(line(ok), registered \ {s}, Kick(l))
  BY DEF SaacServer_ACCharLoad_recv
<1>2. l \in Cdkeys /\ toGs \in [Servers -> Seq(Reply)]
  <2>1. Req(s) \in Request /\ Req(s).type = "CharLoad"
    BY <1>0, <1>1, HandleFacts
  <2> QED BY <1>0, <1>1, <2>1, HandleFacts, RequestFields DEF LineTypes
<1>3. ASSUME NEW ok \in BOOLEAN, NEW k, ok => k # l, NEW S \in SUBSET registered
      PROVE  /\ Sent(toGs, line(ok), s, k)
             /\ Sent(toGs, Put(line(ok), S, Kick(l)), s, k)
  <2>1. Sent(toGs, line(ok), s, k)
    BY <1>1, <1>3, LoadedSent
  <2>2. line(ok) \in [Servers -> Seq(Reply)]
    BY <2>1 DEF Sent
  <2> HIDE DEF line, l
  <2>3. Sent(line(ok), Put(line(ok), S, Kick(l)), s, k)
    BY <1>2, <2>2, PutKick
  <2> QED BY <2>1, <2>3, SentTrans
<1> HIDE DEF line, l
<1>4. CASE toGs' = line(FALSE) \/ \E S \in SUBSET registered : toGs' = Put(line(FALSE), S, Kick(l))
  <2>1. \A k : Sent(toGs, toGs', s, k)
    BY <1>3, <1>4
  <2> QED BY <1>1, <2>1, SentKick
<1>5. CASE toGs' = Put(line(TRUE), registered \ {s}, Kick(l))
  <2>1. ASSUME NEW k, k # l PROVE Sent(toGs, toGs', s, k)
    BY <1>3, <1>5, <2>1
  <2>2. line(TRUE) \in [Servers -> Seq(Reply)]
    <3>1. NoKey # l
      BY <1>2, LoginAssumption
    <3> QED BY <1>3, <3>1 DEF Sent
  <2>3. \A t \in Servers \ {s} : line(TRUE)[t] = toGs[t]
    BY DEF line, Put
  <2>4. \A t \in Servers \ {s} :
          toGs'[t] = IF t \in registered /\ up[t] THEN Append(toGs[t], Kick(l)) ELSE toGs[t]
    BY <1>5, <2>3 DEF Put
  <2>5. ASSUME NEW t \in Servers \ {s} PROVE Doom(conn[t], toGs'[t], l)
    <3>1. CASE t \in registered /\ up[t]
      <4>1. toGs[t] \in Seq(Reply)
        BY <1>2
      <4> QED BY <1>2, <2>4, <3>1, <4>1, DoomKick
    <3>2. CASE ~(t \in registered /\ up[t])
      <4>1. toGs[t] = <<>> /\ \A f \in Fds : ~(conn[t][f].use /\ conn[t][f].state = "LOGIN")
        <5>1. CASE up[t]
          BY <3>2, <5>1 DEF KickInv, KickOK, Listed, Fresh
        <5>2. CASE ~up[t]
          BY <1>0, <5>2 DEF Inv, ServerOK
        <5> QED BY <5>1, <5>2
      <4> QED BY <2>4, <3>2, <4>1, DoomNobody
    <3> QED BY <3>1, <3>2
  <2>6. conn' = conn
    BY <1>1 DEF gsVars
  <2>7. OneDoomed'
    <3> SUFFICES ASSUME NEW k \in Cdkeys, NEW t \in Servers, NEW u \in Servers, t # u
                 PROVE  Doom(conn[t], toGs'[t], k) \/ Doom(conn[u], toGs'[u], k)
      BY <2>6 DEF OneDoomed
    <3>1. CASE k = l
      BY <2>5, <3>1
    <3>2. CASE k # l
      BY <2>1, <3>2 DEF Sent, KickInv, OneDoomed
    <3> QED BY <3>1, <3>2
  <2>8. \A t \in Servers \ {s} : t \notin registered => toGs'[t] = toGs[t]
    BY <2>4
  <2> QED BY <1>1, <2>7, <2>8, SaacKick
<1> QED BY <1>1, <1>4, <1>5

-----------------------------------------------------------------------------
(* Crash: the server that is down has nobody. *)
LEMMA CrashKick ==
  ASSUME KickInv, Inv', NEW s \in Servers, Crash(s)
  PROVE  KickInv'
<1> DEFINE cs == [f \in Fds |-> NoConn]
<1>0. TypeOK
  BY DEF KickInv, Inv
<1>1. /\ up' = [up EXCEPT ![s] = FALSE] /\ toGs' = [toGs EXCEPT ![s] = <<>>]
      /\ conn' = [conn EXCEPT ![s] = cs] /\ registered' = registered
  BY DEF Crash, Lost, saacVars
<1>2. \A t \in Servers \ {s} : toSaac'[t] = toSaac[t]
  BY <1>0 DEF Crash, TypeOK
<1>3. \A f \in Fds : ~cs[f].use
  BY NoConnType
<1> HIDE DEF cs
<1>4. /\ up'[s] = FALSE /\ toGs'[s] = <<>> /\ conn'[s] = cs
      /\ \A t \in Servers \ {s} : up'[t] = up[t] /\ toGs'[t] = toGs[t] /\ conn'[t] = conn[t]
  BY <1>0, <1>1 DEF TypeOK
<1>5. KickOK(up'[s], s \in registered, conn'[s], toSaac'[s], toGs'[s])
  BY <1>3, <1>4 DEF KickOK, Listed, Named
<1>6. \A t \in Servers : KickOK(up'[t], t \in registered', conn'[t], toSaac'[t], toGs'[t])
  BY <1>1, <1>2, <1>4, <1>5 DEF KickInv
<1>7. \A k : Doom(conn'[s], toGs'[s], k)
  BY <1>3, <1>4, DoomNobody
<1>8. OneDoomed'
  BY <1>4, <1>7 DEF KickInv, OneDoomed
<1> QED BY <1>6, <1>8 DEF KickInv

(* SaacCrash: nobody is left anywhere. *)
LEMMA SaacCrashKick ==
  ASSUME KickInv, Inv', SaacCrash
  PROVE  KickInv'
<1>1. \A t \in Servers : /\ ~up'[t] /\ toGs'[t] = <<>> /\ toSaac'[t] = <<>>
                        /\ \A f \in Fds : ~conn'[t][f].use
  BY NoConnType DEF SaacCrash
<1>2. \A t \in Servers : KickOK(up'[t], t \in registered', conn'[t], toSaac'[t], toGs'[t])
  BY <1>1 DEF KickOK, Listed, Named
<1>3. \A t \in Servers, k \in Cdkeys : Doom(conn'[t], toGs'[t], k)
  BY <1>1, DoomNobody
<1>4. OneDoomed'
  BY <1>3 DEF OneDoomed
<1> QED BY <1>2, <1>4 DEF KickInv

(* Restart: the first line of the new process is its login. *)
LEMMA RestartKick ==
  ASSUME KickInv, Inv', NEW s \in Servers, Restart(s)
  PROVE  KickInv'
<1> DEFINE m == [type |-> "ServerLogin"]
<1>0. TypeOK
  BY DEF KickInv, Inv
<1>1. /\ ~up[s] /\ up' = [up EXCEPT ![s] = TRUE] /\ toSaac' = [toSaac EXCEPT ![s] = <<m>>]
      /\ UNCHANGED <<registered, conn, toGs>>
  BY DEF Restart, saacVars
<1>2. m.type = "ServerLogin"
  OBVIOUS
<1> HIDE DEF m
<1>3. /\ up'[s] = TRUE /\ toSaac'[s] = <<m>>
      /\ \A t \in Servers \ {s} : up'[t] = up[t] /\ toSaac'[t] = toSaac[t]
  BY <1>0, <1>1 DEF TypeOK
<1>4. toGs[s] = <<>> /\ \A f \in Fds : ~conn[s][f].use
  BY <1>1 DEF KickInv, Inv, ServerOK
<1>5. <<m>> # <<>> /\ Head(<<m>>) = m /\ \A i \in DOMAIN <<m>> : <<m>>[i] = m
  OBVIOUS
<1>6. KickOK(up'[s], s \in registered, conn[s], toSaac'[s], toGs[s])
  BY <1>2, <1>3, <1>4, <1>5 DEF KickOK, Listed, Fresh, Named
<1>7. \A t \in Servers : KickOK(up'[t], t \in registered', conn'[t], toSaac'[t], toGs'[t])
  BY <1>1, <1>3, <1>6 DEF KickInv
<1>8. OneDoomed'
  BY <1>1 DEF KickInv, OneDoomed
<1> QED BY <1>7, <1>8 DEF KickInv

(* The initial states. *)
LEMMA InitKick == Init => KickInv
<1> SUFFICES ASSUME Init PROVE KickInv
  OBVIOUS
<1>1. \A t \in Servers : /\ toGs[t] = <<>> /\ toSaac[t] = <<>> /\ t \in registered
                        /\ \A f \in Fds : ~conn[t][f].use
  BY NoConnType DEF Init
<1>2. \A t \in Servers : KickOK(up[t], t \in registered, conn[t], toSaac[t], toGs[t])
  BY <1>1 DEF KickOK, Listed, Named
<1>3. OneDoomed
  BY <1>1, DoomNobody DEF OneDoomed
<1> QED BY <1>2, <1>3, InitInv DEF KickInv

(* The invariant holds in every reachable state, for every number of servers,
   connections, accounts, lines, edits and crashes. *)
THEOREM LoginKickInv == Spec => []KickInv
<1>1. KickInv /\ Inv' /\ [Next]_vars => KickInv'
  <2> SUFFICES ASSUME KickInv, Inv', [Next]_vars PROVE KickInv'
    OBVIOUS
  <2>1. ASSUME NEW s \in Servers, NEW f \in Fds, ClientStep(s, f) PROVE KickInv'
    BY <2>1, ConnectKick, ClientLoginKick, CharListKick, CharLoginKick, EditKick,
       SameConnKick, EndOneKick DEF ClientStep
  <2>2. ASSUME NEW s \in Servers, GsHandle(s) PROVE KickInv'
    BY <2>2, ACStateKick, ACCharLoadKick, ACLockKick, ACUCheckKick, ACKickKick DEF GsHandle
  <2>3. ASSUME NEW s \in Servers, SaacHandle(s) PROVE KickInv'
    BY <2>3, ServerLoginKick, ServerLogoutKick, CharLoginRecvKick, CharListRecvKick,
       CharLoadRecvKick, CharSaveRecvKick, LockRecvKick, UCheckRecvKick DEF SaacHandle
  <2>4. CASE UNCHANGED vars
    <3>1. UNCHANGED <<registered, up, conn, toSaac, toGs>>
      BY <2>4 DEF vars, saacVars, gsVars, netVars
    <3> QED BY <3>1 DEF KickInv, OneDoomed
  <2> QED BY <2>1, <2>2, <2>3, <2>4, CrashKick, RestartKick, SaacCrashKick DEF Next
<1> QED BY InitKick, LoginInv, <1>1, PTL DEF Spec

(* An account that is, or is about to be, in play on two servers is on its way out of
   at least one of them: a load that succeeds kicks every other server behind whatever
   was sent to it before (charLoadCallback in saac/char.c), and a server that saac does
   not know yet has nobody.  Neither the lock, which any server's save may have given
   away, nor the clients' manners play a role in this. *)
THEOREM LoginDuplicateIsKicked == Spec => []DuplicateIsKicked
<1>1. KickInv => DuplicateIsKicked
  <2> SUFFICES ASSUME KickInv, NEW k \in Cdkeys, NEW s \in Servers, NEW t \in Servers, s # t
               PROVE  Doomed(s, k) \/ Doomed(t, k)
    BY DEF DuplicateIsKicked
  <2>1. ASSUME NEW u \in Servers, Doom(conn[u], toGs[u], k) PROVE Doomed(u, k)
    BY <2>1 DEF Doom, Doomed, Playing, Coming, Plays, Brings, Kicks, KickedAfter, LoggedIn, Owner
  <2> QED BY <2>1 DEF KickInv, OneDoomed
<1> QED BY LoginKickInv, <1>1, PTL
-----------------------------------------------------------------------------
(* Connection c is one of account k.                                       *)
Of(c, k) == c.use /\ c.cdkey = k

(* It has asked for the character, plays it, or gives its lock back.       *)
Engaged(c, k) == Of(c, k) /\ c.state \in {"WHILELOGIN", "WHILECANNOTLOGIN", "LOGIN"}

(* Line m, of this type, is a request or an answer of connection c.        *)
IsFor(m, type, c) == m.type = type /\ m.fdid = c.fdid

(* Request m writes the file of k; request m may take the lock of k away.  *)
Saves(m, k) == m.type = "CharSave" /\ m.cdkey = k
Frees(m, k) ==
  \/ Saves(m, k) /\ m.unlock
  \/ m.type \in {"CharLoad", "Lock"} /\ m.cdkey = k
  \/ m.type = "UCheck" /\ m.cdkey = k /\ m.status = 0
  \/ m.type = "ServerLogin"

Idle(m, k) == ~Saves(m, k) /\ ~Frees(m, k)

(* The parts of the invariant, for account k on server s with connections cs, clients
   cl, requests qa under way, answers qg under way, lock lk and file fk.

   One device: of two connections one is given up, at most one is engaged, and none
   but itself is while a client may still load the character. *)
OneAtATime(cs, cl, k) ==
  /\ \A e, f \in Fds : Of(cs[e], k) /\ Of(cs[f], k) /\ e # f =>
       /\ cl[e] = "gone" \/ cl[f] = "gone"
       /\ ~(Engaged(cs[e], k) /\ Engaged(cs[f], k))
       /\ cl[e] = "listed" => ~Engaged(cs[f], k)
  /\ \A f \in Fds :
       cs[f].use /\ cl[f] = "listed" => cs[f].state \notin {"NULLCONNECT", "WHILEAUTH"}

(* Requests name the account of their connection.                          *)
Signed(cs, qa, k) ==
  \A f \in Fds, i \in DOMAIN qa :
    Of(cs[f], k) /\ qa[i].type \in {"CharList", "CharLoad", "Lock"} /\ qa[i].fdid = cs[f].fdid
      => qa[i].cdkey = k

(* A character in play has the lock, nothing under way takes it away, and it holds
   every change that is on disk or on its way there. *)
InPlay(cs, qa, lk, fk, s, k) ==
  \A f \in Fds : Of(cs[f], k) /\ cs[f].state = "LOGIN" =>
    /\ lk = s /\ fk \subseteq cs[f].char
    /\ \A i \in DOMAIN qa : /\ ~Frees(qa[i], k)
                            /\ Saves(qa[i], k) => qa[i].data \subseteq cs[f].char

(* Nothing about the account is under way behind a request to load.        *)
LastWord(cs, qa, k) ==
  \A f \in Fds, i, j \in DOMAIN qa :
    Of(cs[f], k) /\ IsFor(qa[i], "CharLoad", cs[f]) /\ j > i => Idle(qa[j], k)

(* A character on its way into play is the one on disk, and locked.        *)
Arriving(cs, qa, qg, lk, fk, s, k) ==
  \A f \in Fds, i \in DOMAIN qg :
    Of(cs[f], k) /\ IsFor(qg[i], "CharLoad", cs[f]) /\ qg[i].ok =>
      /\ lk = s /\ fk \subseteq qg[i].data
      /\ \A j \in DOMAIN qa : Idle(qa[j], k)

(* A connection that gives the lock back finds it there.                   *)
GivingBack(cs, qa, qg, lk, s, k) ==
  \A f \in Fds : Of(cs[f], k) =>
    /\ \A i \in DOMAIN qa : IsFor(qa[i], "Lock", cs[f]) =>
         lk = s /\ \A j \in DOMAIN qa : j # i => ~Frees(qa[j], k)
    /\ \A i \in DOMAIN qg : IsFor(qg[i], "Lock", cs[f]) => qg[i].ok

(* The list is asked for behind every request to load of given up connections. *)
ListLast(cs, cl, qa, k) ==
  \A e, f \in Fds, i, j \in DOMAIN qa :
    /\ Of(cs[e], k) /\ Of(cs[f], k) /\ e # f /\ cl[f] # "gone"
    /\ IsFor(qa[i], "CharList", cs[f]) /\ IsFor(qa[j], "CharLoad", cs[e])
    => j < i

(* A list that was given out: no other connection will enter the game before or
   after the list arrives, and whatever it still waits for arrives first. *)
Granted(cs, cl, qa, qg, k) ==
  \A e, f \in Fds, i \in DOMAIN qg :
    /\ Of(cs[e], k) /\ Of(cs[f], k) /\ e # f /\ cl[f] # "gone"
    /\ IsFor(qg[i], "CharList", cs[f]) /\ qg[i].ok
    => /\ cs[e].state # "LOGIN"
       /\ \A j \in DOMAIN qa : ~IsFor(qa[j], "CharLoad", cs[e]) /\ ~IsFor(qa[j], "Lock", cs[e])
       /\ \A j \in DOMAIN qg :
            /\ IsFor(qg[j], "CharLoad", cs[e]) => j < i /\ ~qg[j].ok
            /\ IsFor(qg[j], "Lock", cs[e]) => j < i

(* The saves under way hold what the file holds, and each what those before it do. *)
Growing(qa, fk, k) ==
  \A i \in DOMAIN qa : Saves(qa[i], k) =>
    /\ fk \subseteq qa[i].data
    /\ \A j \in DOMAIN qa : j > i /\ Saves(qa[j], k) => qa[i].data \subseteq qa[j].data

(* All of it.                                                              *)
Held(cs, cl, qa, qg, lk, fk, s, k) ==
  /\ OneAtATime(cs, cl, k)
  /\ Signed(cs, qa, k)
  /\ InPlay(cs, qa, lk, fk, s, k)
  /\ LastWord(cs, qa, k)
  /\ Arriving(cs, qa, qg, lk, fk, s, k)
  /\ GivingBack(cs, qa, qg, lk, s, k)
  /\ ListLast(cs, cl, qa, k)
  /\ Granted(cs, cl, qa, qg, k)
  /\ Growing(qa, fk, k)

HeldInv ==
  \A s \in Servers, k \in Cdkeys :
    Held(conn[s], client[s], toSaac[s], toGs[s], lock[k], file[k], s, k)

-----------------------------------------------------------------------------
(* Connections may leave the account or go back a step; one becomes listed only while
   no other is engaged. *)
Back(cs, cl, cs2, cl2, k) ==
  /\ \A f \in Fds : Of(cs2[f], k) =>
       /\ Of(cs[f], k) /\ cs2[f].fdid = cs[f].fdid
       /\ Engaged(cs2[f], k) => Engaged(cs[f], k)
       /\ cs2[f].state = "LOGIN" => cs[f].state = "LOGIN" /\ cs[f].char \subseteq cs2[f].char
       /\ cl2[f] # "gone" => cl[f] # "gone"
       /\ cl2[f] = "listed" =>
            cl[f] = "listed" \/ \A e \in Fds \ {f} : ~Engaged(cs[e], k)
  /\ \A f \in Fds :
       cs2[f].use /\ cl2[f] = "listed" => cs2[f].state \notin {"NULLCONNECT", "WHILEAUTH"}

(* The account is no worse off. *)
LEMMA HeldBack ==
  ASSUME NEW cs, NEW cl, NEW cs2, NEW cl2, NEW qa, NEW qg, NEW lk, NEW fk, NEW s, NEW k,
         Held(cs, cl, qa, qg, lk, fk, s, k), Back(cs, cl, cs2, cl2, k)
  PROVE  Held(cs2, cl2, qa, qg, lk, fk, s, k)
<1>1. OneAtATime(cs2, cl2, k)
  BY DEF Held, OneAtATime, Back
<1>2. Signed(cs2, qa, k)
  BY DEF Held, Signed, Back
<1>3. InPlay(cs2, qa, lk, fk, s, k)
  BY DEF Held, InPlay, Back
<1>4. LastWord(cs2, qa, k)
  BY DEF Held, LastWord, Back, IsFor
<1>5. Arriving(cs2, qa, qg, lk, fk, s, k)
  BY DEF Held, Arriving, Back, IsFor
<1>6. GivingBack(cs2, qa, qg, lk, s, k)
  BY DEF Held, GivingBack, Back, IsFor
<1>7. ListLast(cs2, cl2, qa, k)
  BY DEF Held, ListLast, Back, IsFor
<1>8. Granted(cs2, cl2, qa, qg, k)
  BY DEF Held, Granted, Back, IsFor
<1> QED BY <1>1, <1>2, <1>3, <1>4, <1>5, <1>6, <1>7, <1>8 DEF Held

(* Request m is about account k, or about a connection of it that matters. *)
Asks(m, cs, k) ==
  \/ ~Idle(m, k)
  \/ /\ m.type \in {"CharList", "CharLoad", "Lock"}
     /\ \E f \in Fds : Of(cs[f], k) /\ m.fdid = cs[f].fdid

(* So is answer m. *)
Tells(m, cs, k) ==
  /\ m.type \in {"CharLoad", "Lock"} \/ (m.type = "CharList" /\ m.ok)
  /\ \E f \in Fds : Of(cs[f], k) /\ m.fdid = cs[f].fdid

(* Lines that matter are only taken away, from the front or the back of a queue. *)
LessAsked(cs, qa, qa2, k) ==
  \E n \in Nat : \A i \in DOMAIN qa2 :
    i \in Nat /\ (Asks(qa2[i], cs, k) => i + n \in DOMAIN qa /\ qa2[i] = qa[i + n])

LessTold(cs, qg, qg2, k) ==
  \E n \in Nat : \A i \in DOMAIN qg2 :
    i \in Nat /\ (Tells(qg2[i], cs, k) => i + n \in DOMAIN qg /\ qg2[i] = qg[i + n])

(* Fewer requests. *)
LEMMA HeldLessAsked ==
  ASSUME NEW cs, NEW cl, NEW qa, NEW qa2, NEW qg, NEW lk, NEW fk, NEW s, NEW k,
         Held(cs, cl, qa, qg, lk, fk, s, k), LessAsked(cs, qa, qa2, k)
  PROVE  Held(cs, cl, qa2, qg, lk, fk, s, k)
<1>1. PICK n \in Nat : \A i \in DOMAIN qa2 :
        i \in Nat /\ (Asks(qa2[i], cs, k) => i + n \in DOMAIN qa /\ qa2[i] = qa[i + n])
  BY DEF LessAsked
<1>2. \A i \in DOMAIN qa2 : Saves(qa2[i], k) \/ Frees(qa2[i], k) =>
        i + n \in DOMAIN qa /\ qa2[i] = qa[i + n]
  BY <1>1 DEF Asks, Idle
<1>3. \A i \in DOMAIN qa2, f \in Fds :
        /\ Of(cs[f], k) /\ qa2[i].type \in {"CharList", "CharLoad", "Lock"}
        /\ qa2[i].fdid = cs[f].fdid
        => i + n \in DOMAIN qa /\ qa2[i] = qa[i + n]
  BY <1>1 DEF Asks
<1>4. Signed(cs, qa2, k)
  BY <1>3 DEF Held, Signed
<1>5. InPlay(cs, qa2, lk, fk, s, k)
  BY <1>2 DEF Held, InPlay
<1>6. LastWord(cs, qa2, k)
  <2> SUFFICES ASSUME NEW f \in Fds, NEW i \in DOMAIN qa2, NEW j \in DOMAIN qa2, Of(cs[f], k),
                      IsFor(qa2[i], "CharLoad", cs[f]), j > i, ~Idle(qa2[j], k)
               PROVE  FALSE
    BY DEF LastWord
  <2>1. i + n \in DOMAIN qa /\ qa2[i] = qa[i + n]
    BY <1>3 DEF IsFor
  <2>2. j + n \in DOMAIN qa /\ qa2[j] = qa[j + n]
    BY <1>2 DEF Idle
  <2>3. j + n > i + n
    BY <1>1
  <2> QED BY <2>1, <2>2, <2>3 DEF Held, LastWord
<1>7. Arriving(cs, qa2, qg, lk, fk, s, k)
  BY <1>2 DEF Held, Arriving, Idle
<1>8. GivingBack(cs, qa2, qg, lk, s, k)
  <2>1. ASSUME NEW f \in Fds, NEW i \in DOMAIN qa2, Of(cs[f], k), IsFor(qa2[i], "Lock", cs[f])
        PROVE  lk = s /\ \A j \in DOMAIN qa2 : j # i => ~Frees(qa2[j], k)
    <3>1. i + n \in DOMAIN qa /\ qa2[i] = qa[i + n]
      BY <1>3, <2>1 DEF IsFor
    <3>2. lk = s /\ \A j \in DOMAIN qa : j # i + n => ~Frees(qa[j], k)
      BY <2>1, <3>1 DEF Held, GivingBack
    <3>3. \A j \in DOMAIN qa2 : j # i => j + n # i + n
      BY <1>1
    <3> QED BY <1>2, <3>2, <3>3
  <2> QED BY <2>1 DEF Held, GivingBack
<1>9. ListLast(cs, cl, qa2, k)
  <2> SUFFICES ASSUME NEW e \in Fds, NEW f \in Fds, NEW i \in DOMAIN qa2, NEW j \in DOMAIN qa2,
                      Of(cs[e], k), Of(cs[f], k), e # f, cl[f] # "gone",
                      IsFor(qa2[i], "CharList", cs[f]), IsFor(qa2[j], "CharLoad", cs[e])
               PROVE  j < i
    BY DEF ListLast
  <2>1. i + n \in DOMAIN qa /\ qa2[i] = qa[i + n] /\ j + n \in DOMAIN qa /\ qa2[j] = qa[j + n]
    BY <1>3 DEF IsFor
  <2>2. j + n < i + n
    BY <2>1 DEF Held, ListLast
  <2> QED BY <1>1, <2>2
<1>10. Granted(cs, cl, qa2, qg, k)
  <2>1. \A e \in Fds, j \in DOMAIN qa2 : Of(cs[e], k) =>
          /\ IsFor(qa2[j], "CharLoad", cs[e]) => \E m \in DOMAIN qa : IsFor(qa[m], "CharLoad", cs[e])
          /\ IsFor(qa2[j], "Lock", cs[e]) => \E m \in DOMAIN qa : IsFor(qa[m], "Lock", cs[e])
    BY <1>3 DEF IsFor
  <2> QED BY <2>1 DEF Held, Granted
<1>11. Growing(qa2, fk, k)
  <2>1. \A i, j \in DOMAIN qa2 : j > i => j + n > i + n
    BY <1>1
  <2> QED BY <1>2, <2>1 DEF Held, Growing
<1> QED BY <1>4, <1>5, <1>6, <1>7, <1>8, <1>9, <1>10, <1>11 DEF Held

(* Fewer answers. *)
LEMMA HeldLessTold ==
  ASSUME NEW cs, NEW cl, NEW qa, NEW qg, NEW qg2, NEW lk, NEW fk, NEW s, NEW k,
         Held(cs, cl, qa, qg, lk, fk, s, k), LessTold(cs, qg, qg2, k)
  PROVE  Held(cs, cl, qa, qg2, lk, fk, s, k)
<1>1. PICK n \in Nat : \A i \in DOMAIN qg2 :
        i \in Nat /\ (Tells(qg2[i], cs, k) => i + n \in DOMAIN qg /\ qg2[i] = qg[i + n])
  BY DEF LessTold
<1>2. \A i \in DOMAIN qg2, f \in Fds :
        /\ Of(cs[f], k) /\ qg2[i].fdid = cs[f].fdid
        /\ qg2[i].type \in {"CharLoad", "Lock"} \/ (qg2[i].type = "CharList" /\ qg2[i].ok)
        => i + n \in DOMAIN qg /\ qg2[i] = qg[i + n]
  BY <1>1 DEF Tells
<1>3. Arriving(cs, qa, qg2, lk, fk, s, k)
  BY <1>2 DEF Held, Arriving, IsFor
<1>4. GivingBack(cs, qa, qg2, lk, s, k)
  BY <1>2 DEF Held, GivingBack, IsFor
<1>5. Granted(cs, cl, qa, qg2, k)
  <2> SUFFICES ASSUME NEW e \in Fds, NEW f \in Fds, NEW i \in DOMAIN qg2,
                      Of(cs[e], k), Of(cs[f], k), e # f, cl[f] # "gone",
                      IsFor(qg2[i], "CharList", cs[f]), qg2[i].ok
               PROVE  /\ cs[e].state # "LOGIN"
                      /\ \A j \in DOMAIN qa : /\ ~IsFor(qa[j], "CharLoad", cs[e])
                                              /\ ~IsFor(qa[j], "Lock", cs[e])
                      /\ \A j \in DOMAIN qg2 :
                           /\ IsFor(qg2[j], "CharLoad", cs[e]) => j < i /\ ~qg2[j].ok
                           /\ IsFor(qg2[j], "Lock", cs[e]) => j < i
    BY DEF Granted
  <2>1. i + n \in DOMAIN qg /\ qg2[i] = qg[i + n]
    BY <1>2 DEF IsFor
  <2>2. /\ cs[e].state # "LOGIN"
        /\ \A j \in DOMAIN qa : /\ ~IsFor(qa[j], "CharLoad", cs[e])
                                /\ ~IsFor(qa[j], "Lock", cs[e])
        /\ \A j \in DOMAIN qg :
             /\ IsFor(qg[j], "CharLoad", cs[e]) => j < i + n /\ ~qg[j].ok
             /\ IsFor(qg[j], "Lock", cs[e]) => j < i + n
    BY <2>1 DEF Held, Granted
  <2>3. ASSUME NEW j \in DOMAIN qg2,
               IsFor(qg2[j], "CharLoad", cs[e]) \/ IsFor(qg2[j], "Lock", cs[e])
        PROVE  j + n \in DOMAIN qg /\ qg2[j] = qg[j + n]
    BY <1>2, <2>3 DEF IsFor
  <2>4. \A j \in DOMAIN qg2 : j + n < i + n => j < i
    BY <1>1
  <2> QED BY <2>2, <2>3, <2>4
<1> QED BY <1>3, <1>4, <1>5 DEF Held

-----------------------------------------------------------------------------
(* What a step of a queue does to an account that is held.                 *)

(* Positions of a queue and of one with a line behind it. *)
LEMMA AppendAt ==
  ASSUME NEW S, NEW q \in Seq(S), NEW m \in S
  PROVE  /\ Len(q) \in Nat
         /\ \A i \in DOMAIN q : i \in Nat /\ i <= Len(q) /\ i \in DOMAIN Append(q, m)
         /\ \A i \in DOMAIN Append(q, m) :
              /\ i \in Nat
              /\ \/ i \in DOMAIN q /\ Append(q, m)[i] = q[i] /\ i <= Len(q)
                 \/ i = Len(q) + 1 /\ Append(q, m)[i] = m
  OBVIOUS

(* A request that does not matter is sent. *)
LEMMA HeldSent ==
  ASSUME NEW cs, NEW cl, NEW qa \in Seq(Request), NEW m \in Request, NEW qg, NEW lk, NEW fk,
         NEW s, NEW k, Held(cs, cl, qa, qg, lk, fk, s, k), ~Asks(m, cs, k)
  PROVE  Held(cs, cl, Append(qa, m), qg, lk, fk, s, k)
<1> DEFINE r == Append(qa, m)
<1>1. /\ Len(qa) \in Nat
      /\ \A i \in DOMAIN r : /\ i \in Nat
                             /\ \/ i \in DOMAIN qa /\ r[i] = qa[i] /\ i <= Len(qa)
                                \/ i = Len(qa) + 1 /\ r[i] = m
  BY AppendAt
<1> HIDE DEF r
<1>2. LessAsked(cs, qa, r, k)
  <2>1. \A i \in DOMAIN r : i \in Nat /\ (Asks(r[i], cs, k) => i + 0 \in DOMAIN qa /\ r[i] = qa[i + 0])
    BY <1>1
  <2> QED BY <2>1 DEF LessAsked
<1> QED BY <1>2, HeldLessAsked DEF r

(* The first request is taken. *)
LEMMA HeldTaken ==
  ASSUME NEW cs, NEW cl, NEW qa \in Seq(Request), qa # <<>>, NEW qg, NEW lk, NEW fk,
         NEW s, NEW k, Held(cs, cl, qa, qg, lk, fk, s, k)
  PROVE  Held(cs, cl, Tail(qa), qg, lk, fk, s, k)
<1>1. \A i \in DOMAIN Tail(qa) : i \in Nat /\ i + 1 \in DOMAIN qa /\ Tail(qa)[i] = qa[i + 1]
  BY TailFacts
<1>2. LessAsked(cs, qa, Tail(qa), k)
  BY <1>1 DEF LessAsked
<1> QED BY <1>2, HeldLessAsked

(* An answer that does not matter is sent. *)
LEMMA HeldAnswered ==
  ASSUME NEW cs, NEW cl, NEW qa, NEW qg \in Seq(Reply), NEW m \in Reply, NEW lk, NEW fk,
         NEW s, NEW k, Held(cs, cl, qa, qg, lk, fk, s, k), ~Tells(m, cs, k)
  PROVE  Held(cs, cl, qa, Append(qg, m), lk, fk, s, k)
<1> DEFINE r == Append(qg, m)
<1>1. /\ Len(qg) \in Nat
      /\ \A i \in DOMAIN r : /\ i \in Nat
                             /\ \/ i \in DOMAIN qg /\ r[i] = qg[i] /\ i <= Len(qg)
                                \/ i = Len(qg) + 1 /\ r[i] = m
  BY AppendAt
<1> HIDE DEF r
<1>2. LessTold(cs, qg, r, k)
  <2>1. \A i \in DOMAIN r : i \in Nat /\ (Tells(r[i], cs, k) => i + 0 \in DOMAIN qg /\ r[i] = qg[i + 0])
    BY <1>1
  <2> QED BY <2>1 DEF LessTold
<1> QED BY <1>2, HeldLessTold DEF r

(* The first answer is taken. *)
LEMMA HeldReceived ==
  ASSUME NEW cs, NEW cl, NEW qa, NEW qg \in Seq(Reply), qg # <<>>, NEW lk, NEW fk,
         NEW s, NEW k, Held(cs, cl, qa, qg, lk, fk, s, k)
  PROVE  Held(cs, cl, qa, Tail(qg), lk, fk, s, k)
<1>1. \A i \in DOMAIN Tail(qg) : i \in Nat /\ i + 1 \in DOMAIN qg /\ Tail(qg)[i] = qg[i + 1]
  BY TailFacts
<1>2. LessTold(cs, qg, Tail(qg), k)
  BY <1>1 DEF LessTold
<1> QED BY <1>2, HeldLessTold

(* A save, or the answer to checkGSUCheck, is sent: nobody waits for the character, a
   save that is not the last keeps the lock, and it holds what those before it did. *)
LEMMA HeldSaveSent ==
  ASSUME NEW cs, NEW cl, NEW qa \in Seq(Request), NEW m \in Request, NEW qg, NEW lk, NEW fk,
         NEW s, NEW k, Held(cs, cl, qa, qg, lk, fk, s, k), m.type \in {"CharSave", "UCheck"},
         \A e \in Fds : Of(cs[e], k) =>
           /\ \A i \in DOMAIN qa : ~IsFor(qa[i], "CharLoad", cs[e])
           /\ \A i \in DOMAIN qg : ~IsFor(qg[i], "CharLoad", cs[e])
           /\ cs[e].state = "LOGIN" => ~Frees(m, k) /\ (Saves(m, k) => m.data \subseteq cs[e].char)
           /\ Frees(m, k) => \A i \in DOMAIN qa : ~IsFor(qa[i], "Lock", cs[e]),
         Saves(m, k) => /\ fk \subseteq m.data
                        /\ \A i \in DOMAIN qa : Saves(qa[i], k) => qa[i].data \subseteq m.data
  PROVE  Held(cs, cl, Append(qa, m), qg, lk, fk, s, k)
<1> DEFINE r == Append(qa, m)
<1>1. /\ Len(qa) \in Nat
      /\ \A i \in DOMAIN r : /\ i \in Nat
                             /\ \/ i \in DOMAIN qa /\ r[i] = qa[i] /\ i <= Len(qa)
                                \/ i = Len(qa) + 1 /\ r[i] = m
  BY AppendAt
<1> HIDE DEF r
<1>2. \A i \in DOMAIN r, e \in Fds :
        IsFor(r[i], "CharList", cs[e]) \/ IsFor(r[i], "CharLoad", cs[e]) \/ IsFor(r[i], "Lock", cs[e])
          => i \in DOMAIN qa /\ r[i] = qa[i]
  BY <1>1 DEF IsFor
<1>3. Signed(cs, r, k)
  BY <1>1 DEF Held, Signed
<1>4. InPlay(cs, r, lk, fk, s, k)
  BY <1>1 DEF Held, InPlay
<1>5. LastWord(cs, r, k)
  BY <1>2 DEF LastWord
<1>6. Arriving(cs, r, qg, lk, fk, s, k)
  BY DEF Arriving
<1>7. GivingBack(cs, r, qg, lk, s, k)
  <2>1. ASSUME NEW f \in Fds, NEW i \in DOMAIN r, Of(cs[f], k), IsFor(r[i], "Lock", cs[f])
        PROVE  lk = s /\ \A j \in DOMAIN r : j # i => ~Frees(r[j], k)
    BY <1>1, <1>2, <2>1 DEF Held, GivingBack
  <2> QED BY <2>1 DEF Held, GivingBack
<1>8. ListLast(cs, cl, r, k)
  BY <1>2 DEF Held, ListLast
<1>9. Granted(cs, cl, r, qg, k)
  BY <1>2 DEF Held, Granted
<1>10. Growing(r, fk, k)
  <2> SUFFICES ASSUME NEW i \in DOMAIN r, Saves(r[i], k)
               PROVE  /\ fk \subseteq r[i].data
                      /\ \A j \in DOMAIN r : j > i /\ Saves(r[j], k) => r[i].data \subseteq r[j].data
    BY DEF Growing
  <2>1. CASE i = Len(qa) + 1 /\ r[i] = m
    <3>1. \A j \in DOMAIN r : ~(j > i)
      BY <1>1, <2>1
    <3> QED BY <2>1, <3>1
  <2>2. CASE i \in DOMAIN qa /\ r[i] = qa[i] /\ i <= Len(qa)
    BY <1>1, <2>2 DEF Held, Growing
  <2> QED BY <1>1, <2>1, <2>2
<1> QED BY <1>3, <1>4, <1>5, <1>6, <1>7, <1>8, <1>9, <1>10 DEF Held, r

(* A request for the list is sent. *)
LEMMA HeldListSent ==
  ASSUME NEW cs, NEW cl, NEW qa \in Seq(Request), NEW m \in Request, NEW qg, NEW lk, NEW fk,
         NEW s, NEW k, Held(cs, cl, qa, qg, lk, fk, s, k), m.type = "CharList",
         \A e \in Fds : Of(cs[e], k) /\ cs[e].fdid = m.fdid => m.cdkey = k
  PROVE  Held(cs, cl, Append(qa, m), qg, lk, fk, s, k)
<1> DEFINE r == Append(qa, m)
<1>1. /\ Len(qa) \in Nat
      /\ \A i \in DOMAIN qa : i \in Nat /\ i <= Len(qa)
      /\ \A i \in DOMAIN r : /\ i \in Nat
                             /\ \/ i \in DOMAIN qa /\ r[i] = qa[i] /\ i <= Len(qa)
                                \/ i = Len(qa) + 1 /\ r[i] = m
  BY AppendAt
<1> HIDE DEF r
<1>2. /\ ~Saves(m, k) /\ ~Frees(m, k) /\ Idle(m, k)
      /\ \A c : ~IsFor(m, "CharLoad", c) /\ ~IsFor(m, "Lock", c)
  BY DEF Saves, Frees, Idle, IsFor
<1>3. Signed(cs, r, k)
  BY <1>1 DEF Held, Signed
<1>4. InPlay(cs, r, lk, fk, s, k)
  BY <1>1, <1>2 DEF Held, InPlay
<1>5. LastWord(cs, r, k)
  BY <1>1, <1>2 DEF Held, LastWord
<1>6. Arriving(cs, r, qg, lk, fk, s, k)
  BY <1>1, <1>2 DEF Held, Arriving
<1>7. GivingBack(cs, r, qg, lk, s, k)
  BY <1>1, <1>2 DEF Held, GivingBack
<1>8. ListLast(cs, cl, r, k)
  <2> SUFFICES ASSUME NEW e \in Fds, NEW f \in Fds, NEW i \in DOMAIN r, NEW j \in DOMAIN r,
                      Of(cs[e], k), Of(cs[f], k), e # f, cl[f] # "gone",
                      IsFor(r[i], "CharList", cs[f]), IsFor(r[j], "CharLoad", cs[e])
               PROVE  j < i
    BY DEF ListLast
  <2>1. j \in DOMAIN qa /\ r[j] = qa[j] /\ j <= Len(qa)
    BY <1>1, <1>2
  <2>2. CASE i = Len(qa) + 1
    BY <1>1, <2>1, <2>2
  <2>3. CASE i \in DOMAIN qa /\ r[i] = qa[i]
    BY <2>1, <2>3 DEF Held, ListLast
  <2> QED BY <1>1, <2>2, <2>3
<1>9. Granted(cs, cl, r, qg, k)
  BY <1>1, <1>2 DEF Held, Granted
<1>10. Growing(r, fk, k)
  BY <1>1, <1>2 DEF Held, Growing
<1> QED BY <1>3, <1>4, <1>5, <1>6, <1>7, <1>8, <1>9, <1>10 DEF Held, r

(* The account is not in play and none of its connections waits for the character or
   for its lock to go. *)
Unengaged(cs, qa, qg, k) ==
  \A e \in Fds : Of(cs[e], k) =>
    /\ cs[e].state # "LOGIN"
    /\ \A i \in DOMAIN qa : ~IsFor(qa[i], "CharLoad", cs[e]) /\ ~IsFor(qa[i], "Lock", cs[e])
    /\ \A i \in DOMAIN qg : ~IsFor(qg[i], "CharLoad", cs[e]) /\ ~IsFor(qg[i], "Lock", cs[e])

(* A request to load is sent. *)
LEMMA HeldLoadSent ==
  ASSUME NEW cs, NEW cl, NEW qa \in Seq(Request), NEW m \in Request, NEW qg, NEW lk, NEW fk,
         NEW s, NEW k, Held(cs, cl, qa, qg, lk, fk, s, k), NEW f \in Fds,
         IsFor(m, "CharLoad", cs[f]), m.cdkey = k, cl[f] # "gone",
         \A e \in Fds : Of(cs[e], k) /\ cs[e].fdid = cs[f].fdid => e = f,
         Unengaged(cs, qa, qg, k)
  PROVE  Held(cs, cl, Append(qa, m), qg, lk, fk, s, k)
<1> DEFINE r == Append(qa, m)
<1>1. /\ Len(qa) \in Nat
      /\ \A i \in DOMAIN qa : i \in Nat /\ i <= Len(qa)
      /\ \A i \in DOMAIN r : /\ i \in Nat
                             /\ \/ i \in DOMAIN qa /\ r[i] = qa[i] /\ i <= Len(qa)
                                \/ i = Len(qa) + 1 /\ r[i] = m
  BY AppendAt
<1> HIDE DEF r
<1>2. /\ ~Saves(m, k) /\ \A c : ~IsFor(m, "CharList", c) /\ ~IsFor(m, "Lock", c)
      /\ \A e \in Fds : Of(cs[e], k) /\ IsFor(m, "CharLoad", cs[e]) => e = f
  BY DEF Saves, IsFor
<1>3. Signed(cs, r, k)
  BY <1>1 DEF Held, Signed
<1>4. InPlay(cs, r, lk, fk, s, k)
  BY DEF InPlay, Unengaged
<1>5. LastWord(cs, r, k)
  <2> SUFFICES ASSUME NEW e \in Fds, NEW i \in DOMAIN r, NEW j \in DOMAIN r, Of(cs[e], k),
                      IsFor(r[i], "CharLoad", cs[e]), j > i
               PROVE  FALSE
    BY DEF LastWord
  <2>1. i = Len(qa) + 1
    BY <1>1 DEF Unengaged
  <2> QED BY <1>1, <2>1
<1>6. Arriving(cs, r, qg, lk, fk, s, k)
  BY DEF Arriving, Unengaged
<1>7. GivingBack(cs, r, qg, lk, s, k)
  BY <1>1, <1>2 DEF Held, GivingBack, Unengaged
<1>8. ListLast(cs, cl, r, k)
  <2> SUFFICES ASSUME NEW e \in Fds, NEW g \in Fds, NEW i \in DOMAIN r, NEW j \in DOMAIN r,
                      Of(cs[e], k), Of(cs[g], k), e # g, cl[g] # "gone",
                      IsFor(r[i], "CharList", cs[g]), IsFor(r[j], "CharLoad", cs[e])
               PROVE  FALSE
    BY DEF ListLast
  <2>1. e = f
    BY <1>1, <1>2 DEF Unengaged
  <2> QED BY <2>1 DEF Held, OneAtATime
<1>9. Granted(cs, cl, r, qg, k)
  <2> SUFFICES ASSUME NEW e \in Fds, NEW g \in Fds, NEW i \in DOMAIN qg,
                      Of(cs[e], k), Of(cs[g], k), e # g, cl[g] # "gone",
                      IsFor(qg[i], "CharList", cs[g]), qg[i].ok
               PROVE  \A j \in DOMAIN r : ~IsFor(r[j], "CharLoad", cs[e]) /\ ~IsFor(r[j], "Lock", cs[e])
    BY DEF Granted, Unengaged
  <2>1. e # f
    BY DEF Held, OneAtATime
  <2> QED BY <1>1, <1>2, <2>1 DEF Unengaged
<1>10. Growing(r, fk, k)
  BY <1>1, <1>2 DEF Held, Growing
<1> QED BY <1>3, <1>4, <1>5, <1>6, <1>7, <1>8, <1>9, <1>10 DEF Held, r

(* No list is on its way to another connection of the account than f. *)
NoOtherList(cs, cl, qg, f, k) ==
  \A g \in Fds \ {f}, i \in DOMAIN qg :
    ~(Of(cs[g], k) /\ cl[g] # "gone" /\ IsFor(qg[i], "CharList", cs[g]) /\ qg[i].ok)

(* The lock is given back (MAKECHARDATAERROR). *)
LEMMA HeldLockSent ==
  ASSUME NEW cs, NEW cl, NEW qa \in Seq(Request), NEW m \in Request, NEW qg, NEW lk, NEW fk,
         NEW s, NEW k, Held(cs, cl, qa, qg, lk, fk, s, k), NEW f \in Fds,
         IsFor(m, "Lock", cs[f]), m.cdkey = k,
         \A e \in Fds : Of(cs[e], k) /\ cs[e].fdid = cs[f].fdid => e = f,
         Unengaged(cs, qa, qg, k), NoOtherList(cs, cl, qg, f, k),
         lk = s, \A i \in DOMAIN qa : Idle(qa[i], k)
  PROVE  Held(cs, cl, Append(qa, m), qg, lk, fk, s, k)
<1> DEFINE r == Append(qa, m)
<1>1. /\ Len(qa) \in Nat
      /\ \A i \in DOMAIN qa : i \in Nat /\ i <= Len(qa)
      /\ \A i \in DOMAIN r : /\ i \in Nat
                             /\ \/ i \in DOMAIN qa /\ r[i] = qa[i] /\ i <= Len(qa)
                                \/ i = Len(qa) + 1 /\ r[i] = m
  BY AppendAt
<1> HIDE DEF r
<1>2. /\ ~Saves(m, k) /\ \A c : ~IsFor(m, "CharList", c) /\ ~IsFor(m, "CharLoad", c)
      /\ \A e \in Fds : Of(cs[e], k) /\ IsFor(m, "Lock", cs[e]) => e = f
  BY DEF Saves, IsFor
<1>3. Signed(cs, r, k)
  BY <1>1 DEF Held, Signed
<1>4. InPlay(cs, r, lk, fk, s, k)
  BY DEF InPlay, Unengaged
<1>5. LastWord(cs, r, k)
  BY <1>1, <1>2 DEF LastWord, Unengaged
<1>6. Arriving(cs, r, qg, lk, fk, s, k)
  BY DEF Arriving, Unengaged
<1>7. GivingBack(cs, r, qg, lk, s, k)
  <2>1. ASSUME NEW e \in Fds, NEW i \in DOMAIN r, Of(cs[e], k), IsFor(r[i], "Lock", cs[e])
        PROVE  \A j \in DOMAIN r : j # i => ~Frees(r[j], k)
    <3>1. i = Len(qa) + 1
      BY <1>1, <2>1 DEF Unengaged
    <3> QED BY <1>1, <3>1 DEF Idle
  <2> QED BY <2>1 DEF Held, GivingBack
<1>8. ListLast(cs, cl, r, k)
  BY <1>1, <1>2 DEF ListLast, Unengaged
<1>9. Granted(cs, cl, r, qg, k)
  <2> SUFFICES ASSUME NEW e \in Fds, NEW g \in Fds, NEW i \in DOMAIN qg,
                      Of(cs[e], k), Of(cs[g], k), e # g, cl[g] # "gone",
                      IsFor(qg[i], "CharList", cs[g]), qg[i].ok
               PROVE  \A j \in DOMAIN r : ~IsFor(r[j], "CharLoad", cs[e]) /\ ~IsFor(r[j], "Lock", cs[e])
    BY DEF Granted, Unengaged
  <2>1. e # f
    BY DEF NoOtherList
  <2> QED BY <1>1, <1>2, <2>1 DEF Unengaged
<1>10. Growing(r, fk, k)
  BY <1>1, <1>2 DEF Held, Growing
<1> QED BY <1>3, <1>4, <1>5, <1>6, <1>7, <1>8, <1>9, <1>10 DEF Held, r

(* A character enters the game (CHAR_login). *)
LEMMA HeldEnter ==
  ASSUME NEW cs, NEW cl, NEW cs2, NEW qa, NEW qg, NEW lk, NEW fk, NEW s, NEW k,
         Held(cs, cl, qa, qg, lk, fk, s, k), NEW f \in Fds, Engaged(cs[f], k),
         Of(cs2[f], k), cs2[f].fdid = cs[f].fdid, cs2[f].state = "LOGIN",
         \A e \in Fds : e # f => cs2[e] = cs[e],
         lk = s, fk \subseteq cs2[f].char, \A i \in DOMAIN qa : Idle(qa[i], k),
         NoOtherList(cs, cl, qg, f, k)
  PROVE  Held(cs2, cl, qa, qg, lk, fk, s, k)
<1>1. /\ \A e \in Fds : cs2[e].fdid = cs[e].fdid /\ (Of(cs2[e], k) <=> Of(cs[e], k))
      /\ \A e \in Fds : Engaged(cs2[e], k) => Engaged(cs[e], k)
      /\ \A m, type : \A e \in Fds : IsFor(m, type, cs2[e]) <=> IsFor(m, type, cs[e])
  BY DEF Engaged, IsFor, Of
<1>2. OneAtATime(cs2, cl, k)
  BY <1>1 DEF Held, OneAtATime
<1>3. Signed(cs2, qa, k)
  BY <1>1 DEF Held, Signed
<1>4. InPlay(cs2, qa, lk, fk, s, k)
  <2> SUFFICES ASSUME NEW e \in Fds, Of(cs2[e], k), cs2[e].state = "LOGIN"
               PROVE  e = f
    BY DEF InPlay, Idle
  <2>1. Engaged(cs2[e], k)
    BY DEF Engaged
  <2> QED BY <1>1, <2>1 DEF Held, OneAtATime, Engaged
<1>5. LastWord(cs2, qa, k)
  BY <1>1 DEF Held, LastWord
<1>6. Arriving(cs2, qa, qg, lk, fk, s, k)
  BY <1>1 DEF Held, Arriving
<1>7. GivingBack(cs2, qa, qg, lk, s, k)
  BY <1>1 DEF Held, GivingBack
<1>8. ListLast(cs2, cl, qa, k)
  BY <1>1 DEF Held, ListLast
<1>9. Granted(cs2, cl, qa, qg, k)
  <2> SUFFICES ASSUME NEW e \in Fds, NEW g \in Fds, NEW i \in DOMAIN qg,
                      Of(cs2[e], k), Of(cs2[g], k), e # g, cl[g] # "gone",
                      IsFor(qg[i], "CharList", cs2[g]), qg[i].ok
               PROVE  /\ cs2[e].state # "LOGIN"
                      /\ \A j \in DOMAIN qa : /\ ~IsFor(qa[j], "CharLoad", cs2[e])
                                              /\ ~IsFor(qa[j], "Lock", cs2[e])
                      /\ \A j \in DOMAIN qg :
                           /\ IsFor(qg[j], "CharLoad", cs2[e]) => j < i /\ ~qg[j].ok
                           /\ IsFor(qg[j], "Lock", cs2[e]) => j < i
    BY DEF Granted
  <2>1. e # f
    BY <1>1 DEF NoOtherList
  <2> QED BY <1>1, <2>1 DEF Held, Granted
<1>10. Growing(qa, fk, k)
  BY DEF Held
<1> QED BY <1>2, <1>3, <1>4, <1>5, <1>6, <1>7, <1>8, <1>9, <1>10 DEF Held

-----------------------------------------------------------------------------
(* Saac handles a request that may take the lock away: nobody has it. *)
LEMMA HeldFreed ==
  ASSUME NEW cs, NEW cl, NEW qa \in Seq(Request), qa # <<>>, NEW qg, NEW lk, NEW lk2, NEW fk,
         NEW s, NEW k, Held(cs, cl, qa, qg, lk, fk, s, k), Frees(Head(qa), k)
  PROVE  Held(cs, cl, Tail(qa), qg, lk2, fk, s, k)
<1> DEFINE r == Tail(qa)
<1>1. /\ qa[1] = Head(qa) /\ 1 \in DOMAIN qa
      /\ \A i \in DOMAIN r : i \in Nat /\ i + 1 \in DOMAIN qa /\ r[i] = qa[i + 1] /\ i + 1 # 1
  BY TailFacts
<1>2. Held(cs, cl, r, qg, lk, fk, s, k)
  BY HeldTaken
<1> HIDE DEF r
<1>3. InPlay(cs, r, lk2, fk, s, k)
  BY <1>1 DEF Held, InPlay
<1>4. Arriving(cs, r, qg, lk2, fk, s, k)
  BY <1>1 DEF Held, Arriving, Idle
<1>5. GivingBack(cs, r, qg, lk2, s, k)
  <2>1. ASSUME NEW f \in Fds, NEW i \in DOMAIN r, Of(cs[f], k), IsFor(r[i], "Lock", cs[f])
        PROVE  FALSE
    <3>1. i + 1 \in DOMAIN qa /\ IsFor(qa[i + 1], "Lock", cs[f]) /\ i + 1 # 1
      BY <1>1, <2>1
    <3> QED BY <1>1, <2>1, <3>1 DEF Held, GivingBack
  <2> QED BY <2>1, <1>2 DEF Held, GivingBack
<1> QED BY <1>2, <1>3, <1>4, <1>5 DEF Held, r

(* Saac writes the file, and may take the lock away. *)
LEMMA HeldSaved ==
  ASSUME NEW cs, NEW cl, NEW qa \in Seq(Request), qa # <<>>, NEW qg, NEW lk, NEW lk2, NEW fk,
         NEW s, NEW k, Held(cs, cl, qa, qg, lk, fk, s, k), Saves(Head(qa), k),
         lk2 = lk \/ Head(qa).unlock
  PROVE  /\ fk \subseteq Head(qa).data
         /\ Held(cs, cl, Tail(qa), qg, lk2, Head(qa).data, s, k)
<1> DEFINE r == Tail(qa)
           d == Head(qa).data
<1>1. /\ qa[1] = Head(qa) /\ 1 \in DOMAIN qa
      /\ \A i \in DOMAIN r : i \in Nat /\ i + 1 \in DOMAIN qa /\ r[i] = qa[i + 1] /\ i + 1 > 1
  BY TailFacts
<1>2. Held(cs, cl, r, qg, lk2, fk, s, k)
  BY HeldTaken, HeldFreed DEF Frees
<1> HIDE DEF r
<1>3. fk \subseteq d
  BY <1>1 DEF Held, Growing
<1>4. InPlay(cs, r, lk2, d, s, k)
  BY <1>1, <1>2 DEF Held, InPlay
<1>5. Arriving(cs, r, qg, lk2, d, s, k)
  BY <1>1 DEF Held, Arriving, Idle
<1>6. Growing(r, d, k)
  BY <1>1, <1>2 DEF Held, Growing
<1> QED BY <1>2, <1>3, <1>4, <1>5, <1>6 DEF Held, r

(* The answer to a load or to a lock given back; a load that succeeded leaves the
   account locked, with nothing about it under way to saac. *)
LEMMA HeldLoaded ==
  ASSUME NEW cs, NEW cl, NEW qa, NEW qg \in Seq(Reply), NEW m \in Reply, NEW lk, NEW fk,
         NEW s, NEW k, Held(cs, cl, qa, qg, lk, fk, s, k),
         \/ m.type = "Lock" /\ m.ok
         \/ /\ m.type = "CharLoad"
            /\ m.ok => lk = s /\ fk \subseteq m.data /\ \A i \in DOMAIN qa : Idle(qa[i], k),
         \A e \in Fds : Of(cs[e], k) /\ cs[e].fdid = m.fdid => NoOtherList(cs, cl, qg, e, k)
  PROVE  Held(cs, cl, qa, Append(qg, m), lk, fk, s, k)
<1> DEFINE r == Append(qg, m)
<1>1. /\ Len(qg) \in Nat
      /\ \A i \in DOMAIN qg : i \in Nat /\ i <= Len(qg)
      /\ \A i \in DOMAIN r : /\ i \in Nat
                             /\ \/ i \in DOMAIN qg /\ r[i] = qg[i] /\ i <= Len(qg)
                                \/ i = Len(qg) + 1 /\ r[i] = m
  BY AppendAt
<1> HIDE DEF r
<1>2. Arriving(cs, qa, r, lk, fk, s, k)
  BY <1>1 DEF Held, Arriving, IsFor
<1>3. GivingBack(cs, qa, r, lk, s, k)
  BY <1>1 DEF Held, GivingBack, IsFor
<1>4. Granted(cs, cl, qa, r, k)
  <2> SUFFICES ASSUME NEW e \in Fds, NEW g \in Fds, NEW i \in DOMAIN r,
                      Of(cs[e], k), Of(cs[g], k), e # g, cl[g] # "gone",
                      IsFor(r[i], "CharList", cs[g]), r[i].ok
               PROVE  /\ cs[e].state # "LOGIN"
                      /\ \A j \in DOMAIN qa : /\ ~IsFor(qa[j], "CharLoad", cs[e])
                                              /\ ~IsFor(qa[j], "Lock", cs[e])
                      /\ \A j \in DOMAIN r :
                           /\ IsFor(r[j], "CharLoad", cs[e]) => j < i /\ ~r[j].ok
                           /\ IsFor(r[j], "Lock", cs[e]) => j < i
    BY DEF Granted
  <2>1. i \in DOMAIN qg /\ r[i] = qg[i]
    BY <1>1 DEF IsFor
  <2>2. cs[e].fdid # m.fdid
    BY <2>1 DEF NoOtherList
  <2>3. \A j \in DOMAIN r : IsFor(r[j], "CharLoad", cs[e]) \/ IsFor(r[j], "Lock", cs[e])
                              => j \in DOMAIN qg /\ r[j] = qg[j]
    BY <1>1, <2>2 DEF IsFor
  <2> QED BY <2>1, <2>3 DEF Held, Granted
<1> QED BY <1>2, <1>3, <1>4 DEF Held, r

(* The list is given out. *)
LEMMA HeldListed ==
  ASSUME NEW cs, NEW cl, NEW qa, NEW qg \in Seq(Reply), NEW m \in Reply, NEW lk, NEW fk,
         NEW s, NEW k, Held(cs, cl, qa, qg, lk, fk, s, k), m.type = "CharList",
         \A e, f \in Fds :
           /\ Of(cs[e], k) /\ Of(cs[f], k) /\ e # f /\ cl[f] # "gone" /\ cs[f].fdid = m.fdid
           => /\ cs[e].state # "LOGIN"
              /\ \A j \in DOMAIN qa : /\ ~IsFor(qa[j], "CharLoad", cs[e])
                                      /\ ~IsFor(qa[j], "Lock", cs[e])
              /\ \A j \in DOMAIN qg : ~(IsFor(qg[j], "CharLoad", cs[e]) /\ qg[j].ok)
  PROVE  Held(cs, cl, qa, Append(qg, m), lk, fk, s, k)
<1> DEFINE r == Append(qg, m)
<1>1. /\ Len(qg) \in Nat
      /\ \A i \in DOMAIN qg : i \in Nat /\ i <= Len(qg)
      /\ \A i \in DOMAIN r : /\ i \in Nat
                             /\ \/ i \in DOMAIN qg /\ r[i] = qg[i] /\ i <= Len(qg)
                                \/ i = Len(qg) + 1 /\ r[i] = m
  BY AppendAt
<1> HIDE DEF r
<1>2. Arriving(cs, qa, r, lk, fk, s, k)
  BY <1>1 DEF Held, Arriving, IsFor
<1>3. GivingBack(cs, qa, r, lk, s, k)
  BY <1>1 DEF Held, GivingBack, IsFor
<1>4. Granted(cs, cl, qa, r, k)
  <2> SUFFICES ASSUME NEW e \in Fds, NEW g \in Fds, NEW i \in DOMAIN r,
                      Of(cs[e], k), Of(cs[g], k), e # g, cl[g] # "gone",
                      IsFor(r[i], "CharList", cs[g]), r[i].ok
               PROVE  /\ cs[e].state # "LOGIN"
                      /\ \A j \in DOMAIN qa : /\ ~IsFor(qa[j], "CharLoad", cs[e])
                                              /\ ~IsFor(qa[j], "Lock", cs[e])
                      /\ \A j \in DOMAIN r :
                           /\ IsFor(r[j], "CharLoad", cs[e]) => j < i /\ ~r[j].ok
                           /\ IsFor(r[j], "Lock", cs[e]) => j < i
    BY DEF Granted
  <2>1. \A j \in DOMAIN r : IsFor(r[j], "CharLoad", cs[e]) \/ IsFor(r[j], "Lock", cs[e])
                              => j \in DOMAIN qg /\ r[j] = qg[j] /\ j <= Len(qg)
    BY <1>1 DEF IsFor
  <2>2. CASE i \in DOMAIN qg /\ r[i] = qg[i]
    BY <2>1, <2>2 DEF Held, Granted
  <2>3. CASE i = Len(qg) + 1 /\ r[i] = m
    <3>1. cs[g].fdid = m.fdid
      BY <2>3 DEF IsFor
    <3>2. \A j \in DOMAIN qg : j < i
      BY <1>1, <2>3
    <3> QED BY <2>1, <3>1, <3>2
  <2> QED BY <1>1, <2>2, <2>3
<1> QED BY <1>2, <1>3, <1>4 DEF Held, r

-----------------------------------------------------------------------------
(* The clients' requests that send no save.                                *)

(* What the protocol invariant says about the lines of a connection.       *)

(* A connection with a line under way is in the wait of that line. *)
LEMMA LineState ==
  ASSUME NEW u, NEW cs, NEW n, NEW qa, NEW qg, ServerOK(u, cs, n, qa, qg),
         NEW f \in Fds, cs[f].use, NEW type \in LineTypes, NEW q \in {qa, qg},
         NEW i \in DOMAIN q, IsFor(q[i], type, cs[f])
  PROVE  Waits(cs[f]) /\ Waiting[cs[f].state] = type
<1>1. Expected(cs[f], qa, qg)
  BY DEF ServerOK, ConnOK
<1>2. IsAbout(q[i], cs[f].fdid) /\ q[i].type = type
  BY DEF IsAbout, IsFor, LineTypes
<1>3. ~None(q, cs[f].fdid)
  BY <1>2 DEF None
<1>4. Waits(cs[f])
  BY <1>1, <1>3 DEF Expected, Quiet
<1>5. One(q, cs[f].fdid, Waiting[cs[f].state])
  BY <1>1, <1>3, <1>4 DEF Expected, Pending
<1> QED BY <1>2, <1>4, <1>5 DEF One

(* A connection that is not engaged neither waits for its character nor gives the
   lock back; one that is engaged and not in play has such a line. *)
LEMMA EngagedLines ==
  ASSUME NEW u, NEW cs, NEW n, NEW qa, NEW qg, ServerOK(u, cs, n, qa, qg),
         NEW e \in Fds, NEW k, Of(cs[e], k)
  PROVE  /\ ~Engaged(cs[e], k) \/ cs[e].state = "LOGIN" =>
              /\ \A i \in DOMAIN qa : ~IsFor(qa[i], "CharLoad", cs[e]) /\ ~IsFor(qa[i], "Lock", cs[e])
              /\ \A i \in DOMAIN qg : ~IsFor(qg[i], "CharLoad", cs[e]) /\ ~IsFor(qg[i], "Lock", cs[e])
         /\ Engaged(cs[e], k) /\ cs[e].state # "LOGIN" =>
              \/ \E i \in DOMAIN qa : IsFor(qa[i], "CharLoad", cs[e]) \/ IsFor(qa[i], "Lock", cs[e])
              \/ \E i \in DOMAIN qg : IsFor(qg[i], "CharLoad", cs[e]) \/ IsFor(qg[i], "Lock", cs[e])
<1>1. cs[e].use
  BY DEF Of
<1>2. ASSUME NEW q \in {qa, qg}, NEW i \in DOMAIN q,
             IsFor(q[i], "CharLoad", cs[e]) \/ IsFor(q[i], "Lock", cs[e])
      PROVE  Engaged(cs[e], k) /\ cs[e].state # "LOGIN"
  <2>1. PICK type \in {"CharLoad", "Lock"} : IsFor(q[i], type, cs[e])
    BY <1>2
  <2>2. Waits(cs[e]) /\ Waiting[cs[e].state] = type
    BY <1>1, <2>1, LineState DEF LineTypes
  <2> QED BY <2>2 DEF Waits, Waiting, Engaged
<1>3. ASSUME Engaged(cs[e], k), cs[e].state # "LOGIN"
      PROVE  \E q \in {qa, qg} : \E i \in DOMAIN q :
               IsFor(q[i], "CharLoad", cs[e]) \/ IsFor(q[i], "Lock", cs[e])
  <2>1. Waits(cs[e]) /\ Waiting[cs[e].state] \in {"CharLoad", "Lock"}
    BY <1>3 DEF Engaged, Waits, Waiting
  <2>2. Pending(qa, qg, cs[e].fdid, Waiting[cs[e].state])
    BY <1>1, <2>1 DEF ServerOK, ConnOK, Expected
  <2>3. PICK q \in {qa, qg} : One(q, cs[e].fdid, Waiting[cs[e].state])
    BY <2>2 DEF Pending
  <2>4. PICK i \in DOMAIN q : IsAbout(q[i], cs[e].fdid) /\ q[i].type = Waiting[cs[e].state]
    BY <2>3 DEF One
  <2> QED BY <2>1, <2>4 DEF IsAbout, IsFor
<1>4. ~Engaged(cs[e], k) \/ cs[e].state = "LOGIN" =>
        /\ \A i \in DOMAIN qa : ~IsFor(qa[i], "CharLoad", cs[e]) /\ ~IsFor(qa[i], "Lock", cs[e])
        /\ \A i \in DOMAIN qg : ~IsFor(qg[i], "CharLoad", cs[e]) /\ ~IsFor(qg[i], "Lock", cs[e])
  BY <1>2
<1> QED BY <1>3, <1>4

(* An account with no engaged connection. *)
LEMMA NobodyEngaged ==
  ASSUME NEW u, NEW cs, NEW n, NEW qa, NEW qg, ServerOK(u, cs, n, qa, qg), NEW k,
         \A e \in Fds : ~Engaged(cs[e], k)
  PROVE  Unengaged(cs, qa, qg, k)
  BY EngagedLines DEF Unengaged, Engaged

(* Nothing is under way about a connection behind its answer. *)
LEMMA AnswerLast ==
  ASSUME NEW u, NEW cs, NEW n, NEW qa, NEW qg \in Seq(Reply), ServerOK(u, cs, n, qa, qg),
         qg # <<>>, NEW f \in Fds, cs[f].use, IsAbout(Head(qg), cs[f].fdid)
  PROVE  Quiet(qa, Tail(qg), cs[f].fdid)
<1>1. ConnOK(cs[f], n, qa, qg)
  BY DEF ServerOK
<1>2. Waits(cs[f])
  BY AnswerFits
<1>3. None(qa, cs[f].fdid) /\ One(qg, cs[f].fdid, Waiting[cs[f].state])
  BY <1>1, <1>2, TailNone DEF ConnOK, Expected, Pending
<1> QED BY <1>3, TailOne DEF Quiet

-----------------------------------------------------------------------------
(* The steps.  There is one server, s. *)
Sole(s) == s \in Servers /\ \A t \in Servers : t = s

(* What the invariants say about s and account k. *)
LEMMA HeldFacts ==
  ASSUME KickInv, HeldInv, NEW s \in Servers, NEW k \in Cdkeys
  PROVE  /\ Held(conn[s], client[s], toSaac[s], toGs[s], lock[k], file[k], s, k)
         /\ toSaac[s] \in Seq(Request) /\ toGs[s] \in Seq(Reply)
         /\ ServerOK(up[s], conn[s], nextFdid[s], toSaac[s], toGs[s])
         /\ conn \in [Servers -> [Fds -> Connection]]
         /\ client \in [Servers -> [Fds -> {"open", "listed", "gone"}]]
         /\ toSaac \in [Servers -> Seq(Request)] /\ toGs \in [Servers -> Seq(Reply)]
  BY QueueTypes DEF HeldInv, KickInv, Inv, TypeOK

(* A step is judged by what it does to s. *)
LEMMA HeldStep ==
  ASSUME NEW s, Sole(s),
         \A k \in Cdkeys : Held(conn'[s], client'[s], toSaac'[s], toGs'[s], lock'[k], file'[k], s, k)
  PROVE  HeldInv'
  BY DEF HeldInv, Sole

(* A request about no account and no connection that matters. *)
LEMMA QuietRequest ==
  ASSUME NEW m, m.type \in {"CharLogin", "Eof"} \/ (m.type = "UCheck" /\ m.status = 1),
         NEW cs, NEW k
  PROVE  ~Asks(m, cs, k)
  BY DEF Asks, Idle, Saves, Frees

(* One connection changes. *)
LEMMA BackOne ==
  ASSUME NEW cs, NEW cl, NEW cs2, NEW cl2, NEW qa, NEW qg, NEW lk, NEW fk, NEW s, NEW k,
         Held(cs, cl, qa, qg, lk, fk, s, k), NEW f \in Fds,
         \A g \in Fds : g # f => cs2[g] = cs[g] /\ cl2[g] = cl[g],
         Of(cs2[f], k) =>
           /\ Of(cs[f], k) /\ cs2[f].fdid = cs[f].fdid
           /\ Engaged(cs2[f], k) => Engaged(cs[f], k)
           /\ cs2[f].state = "LOGIN" => cs[f].state = "LOGIN" /\ cs[f].char \subseteq cs2[f].char
           /\ cl2[f] # "gone" => cl[f] # "gone"
           /\ cl2[f] = "listed" => cl[f] = "listed",
         cs2[f].use /\ cl2[f] = "listed" => cs2[f].state \notin {"NULLCONNECT", "WHILEAUTH"}
  PROVE  Held(cs2, cl2, qa, qg, lk, fk, s, k)
<1>1. \A g \in Fds : cs[g].use /\ cl[g] = "listed" => cs[g].state \notin {"NULLCONNECT", "WHILEAUTH"}
  BY DEF Held, OneAtATime
<1>2. Back(cs, cl, cs2, cl2, k)
  BY <1>1 DEF Back
<1> QED BY <1>2, HeldBack

(* Connect: a connection without a name. *)
LEMMA ConnectHeld ==
  ASSUME KickInv, HeldInv, NEW s, Sole(s), NEW f \in Fds, Connect(s, f)
  PROVE  HeldInv'
<1> DEFINE c == [NoConn EXCEPT !.use = TRUE, !.fdid = nextFdid[s]]
<1>1. c.cdkey = NoKey
  BY DEF NoConn
<1>2. conn' = [conn EXCEPT ![s][f] = c] /\ client' = [client EXCEPT ![s][f] = "open"]
      /\ UNCHANGED <<toSaac, toGs, lock, file>>
  BY DEF Connect, saacVars, netVars
<1> HIDE DEF c
<1>3. ASSUME NEW k \in Cdkeys
      PROVE  Held(conn'[s], client'[s], toSaac'[s], toGs'[s], lock'[k], file'[k], s, k)
  <2>0. s \in Servers
    BY DEF Sole
  <2>1. /\ conn'[s][f] = c /\ client'[s][f] = "open"
        /\ \A g \in Fds : g # f => conn'[s][g] = conn[s][g] /\ client'[s][g] = client[s][g]
    BY <1>2, <2>0, HeldFacts
  <2>2. ~Of(c, k)
    BY <1>1, LoginAssumption DEF Of
  <2>3. Held(conn[s], client[s], toSaac[s], toGs[s], lock[k], file[k], s, k)
    BY <2>0, HeldFacts
  <2>4. Held(conn'[s], client'[s], toSaac[s], toGs[s], lock[k], file[k], s, k)
    BY <2>1, <2>2, <2>3, BackOne
  <2> QED BY <1>2, <2>4
<1> QED BY <1>3, HeldStep

(* Nothing is under way about a connection that waits for nothing. *)
LEMMA IdleConnection ==
  ASSUME Inv, NEW s \in Servers, NEW f \in Fds, conn[s][f].use, ~Waits(conn[s][f])
  PROVE  Quiet(toSaac[s], toGs[s], conn[s][f].fdid)
  BY DEF Inv, ServerOK, ConnOK, Expected

(* A connection about which nothing is under way takes the name of an account that is
   used nowhere else. *)
LEMMA HeldName ==
  ASSUME NEW cs, NEW cl, NEW cs2, NEW qa, NEW qg, NEW lk, NEW fk, NEW s, NEW k,
         Held(cs, cl, qa, qg, lk, fk, s, k), NEW f \in Fds,
         \A g \in Fds : g # f => cs2[g] = cs[g],
         cs2[f].fdid = cs[f].fdid, cs2[f].state = "WHILEAUTH", Quiet(qa, qg, cs[f].fdid),
         cl[f] # "listed", \A g \in Fds : g # f /\ Of(cs[g], k) => cl[g] = "gone"
  PROVE  Held(cs2, cl, qa, qg, lk, fk, s, k)
<1>1. \A i \in DOMAIN qa : /\ ~IsFor(qa[i], "CharList", cs2[f]) /\ ~IsFor(qa[i], "CharLoad", cs2[f])
                           /\ ~IsFor(qa[i], "Lock", cs2[f])
  BY DEF Quiet, None, IsAbout, IsFor
<1>2. \A i \in DOMAIN qg : /\ ~IsFor(qg[i], "CharList", cs2[f]) /\ ~IsFor(qg[i], "CharLoad", cs2[f])
                           /\ ~IsFor(qg[i], "Lock", cs2[f])
  BY DEF Quiet, None, IsAbout, IsFor
<1>3. ~Engaged(cs2[f], k)
  BY DEF Engaged
<1>4. OneAtATime(cs2, cl, k)
  BY <1>3 DEF Held, OneAtATime
<1>5. Signed(cs2, qa, k)
  <2> SUFFICES ASSUME NEW g \in Fds, NEW i \in DOMAIN qa, Of(cs2[g], k),
                      qa[i].type \in {"CharList", "CharLoad", "Lock"}, qa[i].fdid = cs2[g].fdid
               PROVE  qa[i].cdkey = k
    BY DEF Signed
  <2>1. g # f
    BY <1>1 DEF IsFor
  <2> QED BY <2>1 DEF Held, Signed
<1>6. InPlay(cs2, qa, lk, fk, s, k)
  BY DEF Held, InPlay
<1>7. LastWord(cs2, qa, k)
  BY <1>1 DEF Held, LastWord
<1>8. Arriving(cs2, qa, qg, lk, fk, s, k)
  BY <1>2 DEF Held, Arriving
<1>9. GivingBack(cs2, qa, qg, lk, s, k)
  BY <1>1, <1>2 DEF Held, GivingBack
<1>10. ListLast(cs2, cl, qa, k)
  BY <1>1 DEF Held, ListLast
<1>11. Granted(cs2, cl, qa, qg, k)
  <2> SUFFICES ASSUME NEW e \in Fds, NEW g \in Fds, NEW i \in DOMAIN qg,
                      Of(cs2[e], k), Of(cs2[g], k), e # g, cl[g] # "gone",
                      IsFor(qg[i], "CharList", cs2[g]), qg[i].ok
               PROVE  FALSE
    BY DEF Granted
  <2>1. g # f
    BY <1>2
  <2> QED BY <2>1
<1> QED BY <1>4, <1>5, <1>6, <1>7, <1>8, <1>9, <1>10, <1>11 DEF Held

(* ClientLogin_recv. *)
LEMMA ClientLoginHeld ==
  ASSUME KickInv, HeldInv, NEW s, Sole(s), Polite, NEW f \in Fds, NEW l \in Cdkeys,
         ClientLogin_recv(s, f, l)
  PROVE  HeldInv'
<1> DEFINE c == [conn[s][f] EXCEPT !.state = "WHILEAUTH", !.cdkey = l]
           m == [type |-> "CharLogin", cdkey |-> l, fdid |-> conn[s][f].fdid]
<1>0. s \in Servers
  BY DEF Sole
<1>1. /\ conn[s][f].use /\ conn[s][f].state = "NULLCONNECT" /\ client[s][f] # "gone"
      /\ OneDevice(l, s, f)
  BY DEF ClientLogin_recv
<1>2. conn[s][f] \in Connection /\ conn[s][f].fdid \in Fdid
  BY <1>0, <1>1, UsedFacts DEF KickInv
<1>3. c.state = "WHILEAUTH" /\ c.fdid = conn[s][f].fdid /\ c.cdkey = l
  BY <1>2 DEF Connection
<1>4. m \in Request /\ m.type = "CharLogin"
  BY <1>2 DEF Request
<1>5. /\ conn \in [Servers -> [Fds -> Connection]]
      /\ toSaac \in [Servers -> Seq(Request)]
  BY DEF KickInv, Inv, TypeOK
<1>6. /\ conn' = [conn EXCEPT ![s][f] = c] /\ toSaac' = [toSaac EXCEPT ![s] = Append(toSaac[s], m)]
      /\ UNCHANGED <<client, toGs, lock, file>>
  <2>1. conn' = [conn EXCEPT ![s][f] = c] /\ toSaac' = [toSaac EXCEPT ![s] = Append(toSaac[s], m)]
    BY <1>0, <1>5 DEF ClientLogin_recv
  <2>2. UNCHANGED <<client, toGs, lock, file>>
    BY DEF ClientLogin_recv, saacVars
  <2> QED BY <2>1, <2>2
<1> HIDE DEF c, m
<1>7. ASSUME NEW k \in Cdkeys
      PROVE  Held(conn'[s], client'[s], toSaac'[s], toGs'[s], lock'[k], file'[k], s, k)
  <2>1. /\ conn'[s][f] = c /\ \A g \in Fds : g # f => conn'[s][g] = conn[s][g]
        /\ toSaac'[s] = Append(toSaac[s], m)
    BY <1>0, <1>5, <1>6
  <2>2. /\ Held(conn[s], client[s], toSaac[s], toGs[s], lock[k], file[k], s, k)
        /\ toSaac[s] \in Seq(Request)
    BY <1>0, HeldFacts
  <2>3. client[s][f] # "listed"
    BY <1>1, <2>2 DEF Held, OneAtATime
  <2>4. CASE k = l
    <3>1. \A g \in Fds : g # f /\ Of(conn[s][g], k) => client[s][g] = "gone"
      BY <1>0, <1>1, <2>4 DEF OneDevice, Of
    <3>2. Quiet(toSaac[s], toGs[s], conn[s][f].fdid)
      BY <1>0, <1>1, IdleConnection DEF KickInv, Waits, Waiting
    <3>3. Held(conn'[s], client[s], toSaac[s], toGs[s], lock[k], file[k], s, k)
      BY <1>3, <2>1, <2>2, <2>3, <3>1, <3>2, HeldName
    <3> QED BY <1>4, <1>6, <2>1, <2>2, <3>3, QuietRequest, HeldSent
  <2>5. CASE k # l
    <3>1. ~Of(c, k)
      BY <1>3, <2>5 DEF Of
    <3>2. Held(conn'[s], client[s], toSaac[s], toGs[s], lock[k], file[k], s, k)
      BY <2>1, <2>2, <2>3, <3>1, BackOne
    <3> QED BY <1>4, <1>6, <2>1, <2>2, <3>2, QuietRequest, HeldSent
  <2> QED BY <2>4, <2>5
<1> QED BY <1>7, HeldStep

(* ClientLeaves and Edit. *)
LEMMA OwnHeld ==
  ASSUME KickInv, HeldInv, NEW s, Sole(s), NEW f \in Fds, ClientLeaves(s, f) \/ Edit(s, f)
  PROVE  HeldInv'
<1>0. s \in Servers
  BY DEF Sole
<1>1. UNCHANGED <<toSaac, toGs, lock, file>>
  BY DEF ClientLeaves, Edit, saacVars, netVars
<1>2. ASSUME NEW k \in Cdkeys
      PROVE  Held(conn'[s], client'[s], toSaac[s], toGs[s], lock[k], file[k], s, k)
  <2>1. /\ Held(conn[s], client[s], toSaac[s], toGs[s], lock[k], file[k], s, k)
        /\ client \in [Servers -> [Fds -> {"open", "listed", "gone"}]]
        /\ conn \in [Servers -> [Fds -> Connection]]
    BY <1>0, HeldFacts
  <2>2. CASE ClientLeaves(s, f)
    <3>1. conn' = conn /\ client' = [client EXCEPT ![s][f] = "gone"]
      BY <2>2 DEF ClientLeaves, gsVars
    <3>2. client'[s][f] = "gone" /\ \A g \in Fds : g # f => client'[s][g] = client[s][g]
      BY <1>0, <2>1, <3>1
    <3> QED BY <2>1, <3>1, <3>2, BackOne
  <2>3. CASE Edit(s, f)
    <3> DEFINE c == [conn[s][f] EXCEPT !.char = @ \union {edits + 1}]
    <3>1. conn' = [conn EXCEPT ![s][f] = c] /\ client' = client
      BY <1>0, <2>1, <2>3 DEF Edit
    <3>2. conn[s][f] \in Connection
      BY <1>0, <2>1
    <3>3. /\ c.use = conn[s][f].use /\ c.state = conn[s][f].state /\ c.fdid = conn[s][f].fdid
          /\ c.cdkey = conn[s][f].cdkey /\ conn[s][f].char \subseteq c.char
      BY <3>2 DEF Connection
    <3> HIDE DEF c
    <3>4. /\ conn'[s][f] = c /\ \A g \in Fds : g # f => conn'[s][g] = conn[s][g]
      BY <1>0, <2>1, <3>1
    <3>5. c.use /\ client[s][f] = "listed" => c.state \notin {"NULLCONNECT", "WHILEAUTH"}
      BY <2>1, <3>3 DEF Held, OneAtATime
    <3> QED BY <2>1, <3>1, <3>3, <3>4, <3>5, BackOne DEF Of, Engaged
  <2> QED BY <2>2, <2>3
<1> QED BY <1>1, <1>2, HeldStep

-----------------------------------------------------------------------------
(* Saves, the end of a connection, and the requests for a list and a load. *)

(* What Save says. *)
LEMMA SaveFacts ==
  ASSUME NEW s, NEW f, NEW unlock, NEW k, NEW cs
  PROVE  /\ Save(s, f, unlock).type = "CharSave"
         /\ Save(s, f, unlock).data = conn[s][f].char
         /\ Saves(Save(s, f, unlock), k) <=> conn[s][f].cdkey = k
         /\ Frees(Save(s, f, unlock), k) <=> conn[s][f].cdkey = k /\ unlock
         /\ conn[s][f].cdkey # k => ~Asks(Save(s, f, unlock), cs, k)
<1>1. /\ Save(s, f, unlock).type = "CharSave" /\ Save(s, f, unlock).unlock = unlock
      /\ Save(s, f, unlock).data = conn[s][f].char
      /\ Save(s, f, unlock).cdkey = conn[s][f].cdkey
  BY DEF Save
<1> QED BY <1>1 DEF Saves, Frees, Asks, Idle

(* A connection ends: its character is saved, and the lock goes with it. *)
LEMMA EndedHeld ==
  ASSUME KickInv, HeldInv, NEW s \in Servers, NEW g \in Fds, conn[s][g].use, NEW k \in Cdkeys,
         NEW cs, NEW cl, cs[g] = NoConn, cl[g] = "gone",
         \A h \in Fds : h # g => cs[h] = conn[s][h] /\ cl[h] = client[s][h]
  PROVE  Held(cs, cl, toSaac[s] \o EndOneSends(s, g), toGs[s], lock[k], file[k], s, k)
<1>1. /\ Held(conn[s], client[s], toSaac[s], toGs[s], lock[k], file[k], s, k)
      /\ toSaac[s] \in Seq(Request)
      /\ ServerOK(up[s], conn[s], nextFdid[s], toSaac[s], toGs[s])
  BY HeldFacts
<1>2. Held(cs, cl, toSaac[s], toGs[s], lock[k], file[k], s, k)
  <2>1. ~cs[g].use
    BY NoConnType
  <2> QED BY <1>1, <2>1, BackOne DEF Of
<1>3. CASE ~LoggedIn(s, g)
  <2>1. toSaac[s] \o EndOneSends(s, g) = toSaac[s]
    BY <1>1, <1>3 DEF EndOneSends
  <2> QED BY <1>2, <2>1
<1>4. CASE LoggedIn(s, g)
  <2> DEFINE m == Save(s, g, TRUE)
  <2>1. m \in Request
    BY <1>4, UsedFacts, SaveLine DEF LoggedIn, KickInv
  <2>2. /\ m.type = "CharSave" /\ m.data = conn[s][g].char
        /\ Saves(m, k) <=> conn[s][g].cdkey = k
        /\ Frees(m, k) <=> conn[s][g].cdkey = k
        /\ conn[s][g].cdkey # k => ~Asks(m, cs, k)
    <3>1. m.type = "CharSave" /\ m.data = conn[s][g].char /\ m.unlock = TRUE
          /\ m.cdkey = conn[s][g].cdkey
      BY DEF Save
    <3> QED BY <3>1 DEF Saves, Frees, Asks, Idle
  <2>3. EndOneSends(s, g) = <<m>>
    BY <1>4 DEF EndOneSends
  <2> HIDE DEF m
  <2>4. toSaac[s] \o EndOneSends(s, g) = Append(toSaac[s], m)
    BY <1>1, <2>1, <2>3, ConcatOne
  <2>5. CASE conn[s][g].cdkey # k
    BY <1>1, <1>2, <2>1, <2>2, <2>4, <2>5, HeldSent
  <2>6. CASE conn[s][g].cdkey = k
    <3>1. Of(conn[s][g], k) /\ conn[s][g].state = "LOGIN" /\ Engaged(conn[s][g], k)
      BY <1>4, <2>6 DEF LoggedIn, Of, Engaged
    <3>2. /\ file[k] \subseteq m.data
          /\ \A i \in DOMAIN toSaac[s] : Saves(toSaac[s][i], k) => toSaac[s][i].data \subseteq m.data
      BY <1>1, <2>2, <3>1 DEF Held, InPlay
    <3>3. ASSUME NEW e \in Fds, Of(cs[e], k)
          PROVE  /\ \A i \in DOMAIN toSaac[s] : /\ ~IsFor(toSaac[s][i], "CharLoad", cs[e])
                                                /\ ~IsFor(toSaac[s][i], "Lock", cs[e])
                 /\ \A i \in DOMAIN toGs[s] : ~IsFor(toGs[s][i], "CharLoad", cs[e])
                 /\ cs[e].state # "LOGIN"
      <4>1. e # g
        BY <3>3, NoConnType DEF Of
      <4>2. cs[e] = conn[s][e]
        BY <4>1
      <4>3. ~Engaged(conn[s][e], k)
        BY <1>1, <3>1, <3>3, <4>1, <4>2 DEF Held, OneAtATime
      <4>4. conn[s][e].state # "LOGIN"
        BY <3>3, <4>2, <4>3 DEF Engaged
      <4>5. Of(conn[s][e], k)
        BY <3>3, <4>2
      <4>6. ~Engaged(conn[s][e], k) \/ conn[s][e].state = "LOGIN"
        BY <4>3
      <4>7. /\ \A i \in DOMAIN toSaac[s] : /\ ~IsFor(toSaac[s][i], "CharLoad", conn[s][e])
                                           /\ ~IsFor(toSaac[s][i], "Lock", conn[s][e])
            /\ \A i \in DOMAIN toGs[s] : ~IsFor(toGs[s][i], "CharLoad", conn[s][e])
        <5>1. ServerOK(up[s], conn[s], nextFdid[s], toSaac[s], toGs[s])
          BY <1>1
        <5> QED BY <4>5, <4>6, <5>1, EngagedLines, SMTT(30)
      <4> QED BY <4>2, <4>4, <4>7
    <3>4. Held(cs, cl, Append(toSaac[s], m), toGs[s], lock[k], file[k], s, k)
      BY <1>1, <1>2, <2>1, <2>2, <3>2, <3>3, HeldSaveSent
    <3> QED BY <2>4, <3>4
  <2> QED BY <2>5, <2>6
<1> QED BY <1>3, <1>4

(* EndOne. *)
LEMMA EndOneHeld ==
  ASSUME KickInv, HeldInv, NEW s, Sole(s), NEW f \in Fds, EndOne(s, f)
  PROVE  HeldInv'
<1>0. s \in Servers
  BY DEF Sole
<1>1. /\ conn[s][f].use /\ UNCHANGED <<toGs, lock, file>>
      /\ conn' = [conn EXCEPT ![s][f] = NoConn] /\ client' = [client EXCEPT ![s][f] = "gone"]
      /\ toSaac' = [toSaac EXCEPT ![s] = toSaac[s] \o EndOneSends(s, f)]
  BY <1>0 DEF EndOne, saacVars, KickInv, Inv, TypeOK
<1>2. ASSUME NEW k \in Cdkeys
      PROVE  Held(conn'[s], client'[s], toSaac'[s], toGs'[s], lock'[k], file'[k], s, k)
  <2>1. /\ conn \in [Servers -> [Fds -> Connection]]
        /\ client \in [Servers -> [Fds -> {"open", "listed", "gone"}]]
        /\ toSaac \in [Servers -> Seq(Request)]
    BY <1>0, HeldFacts
  <2>2. /\ conn'[s][f] = NoConn /\ client'[s][f] = "gone"
        /\ \A g \in Fds : g # f => conn'[s][g] = conn[s][g] /\ client'[s][g] = client[s][g]
        /\ toSaac'[s] = toSaac[s] \o EndOneSends(s, f)
    BY <1>0, <1>1, <2>1
  <2>3. Held(conn'[s], client'[s], toSaac[s] \o EndOneSends(s, f), toGs[s], lock[k], file[k], s, k)
    BY <1>0, <1>1, <2>2, EndedHeld
  <2> QED BY <1>1, <2>2, <2>3
<1> QED BY <1>2, HeldStep

(* PeriodicSave: the save keeps the lock. *)
LEMMA PeriodicSaveHeld ==
  ASSUME KickInv, HeldInv, NEW s, Sole(s), NEW f \in Fds, PeriodicSave(s, f)
  PROVE  HeldInv'
<1> DEFINE m == Save(s, f, FALSE)
<1>0. s \in Servers
  BY DEF Sole
<1>1. m \in Request
  BY <1>0, UsedFacts, SaveLine DEF PeriodicSave, LoggedIn, KickInv
<1>2. /\ LoggedIn(s, f) /\ UNCHANGED <<conn, client, toGs, lock, file>>
      /\ toSaac' = [toSaac EXCEPT ![s] = Append(toSaac[s], m)]
  BY <1>0 DEF PeriodicSave, saacVars, gsVars, KickInv, Inv, TypeOK
<1>3. ASSUME NEW k \in Cdkeys
      PROVE  Held(conn[s], client[s], toSaac'[s], toGs[s], lock[k], file[k], s, k)
  <2>1. /\ Held(conn[s], client[s], toSaac[s], toGs[s], lock[k], file[k], s, k)
        /\ toSaac[s] \in Seq(Request) /\ toSaac \in [Servers -> Seq(Request)]
        /\ ServerOK(up[s], conn[s], nextFdid[s], toSaac[s], toGs[s])
    BY <1>0, HeldFacts
  <2>2. /\ m.type = "CharSave" /\ m.data = conn[s][f].char
        /\ Saves(m, k) <=> conn[s][f].cdkey = k
        /\ ~Frees(m, k)
        /\ conn[s][f].cdkey # k => ~Asks(m, conn[s], k)
    <3>1. m.type = "CharSave" /\ m.data = conn[s][f].char
      BY DEF Save
    <3>2. m.cdkey = conn[s][f].cdkey /\ ~m.unlock
      BY DEF Save
    <3> HIDE DEF m
    <3> QED BY <3>1, <3>2 DEF Saves, Frees, Asks, Idle
  <2> HIDE DEF m
  <2>3. toSaac'[s] = Append(toSaac[s], m)
    BY <1>0, <1>2, <2>1
  <2>4. CASE conn[s][f].cdkey # k
    BY <1>1, <2>1, <2>2, <2>3, <2>4, HeldSent
  <2>5. CASE conn[s][f].cdkey = k
    <3>1. Of(conn[s][f], k) /\ conn[s][f].state = "LOGIN" /\ Engaged(conn[s][f], k)
      BY <1>2, <2>5 DEF LoggedIn, Of, Engaged
    <3>2. /\ file[k] \subseteq m.data
          /\ \A i \in DOMAIN toSaac[s] : Saves(toSaac[s][i], k) => toSaac[s][i].data \subseteq m.data
      BY <2>1, <2>2, <3>1 DEF Held, InPlay
    <3>3. ASSUME NEW e \in Fds, Of(conn[s][e], k)
          PROVE  /\ \A i \in DOMAIN toSaac[s] : ~IsFor(toSaac[s][i], "CharLoad", conn[s][e])
                 /\ \A i \in DOMAIN toGs[s] : ~IsFor(toGs[s][i], "CharLoad", conn[s][e])
                 /\ conn[s][e].state = "LOGIN" => m.data \subseteq conn[s][e].char
      <4>1. e = f \/ ~Engaged(conn[s][e], k)
        BY <2>1, <3>1, <3>3 DEF Held, OneAtATime
      <4>2. conn[s][e].state = "LOGIN" => e = f
        BY <3>3, <4>1 DEF Engaged
      <4>3. ~Engaged(conn[s][e], k) \/ conn[s][e].state = "LOGIN"
        BY <3>1, <4>1
      <4>4. /\ \A i \in DOMAIN toSaac[s] : ~IsFor(toSaac[s][i], "CharLoad", conn[s][e])
            /\ \A i \in DOMAIN toGs[s] : ~IsFor(toGs[s][i], "CharLoad", conn[s][e])
        BY <2>1, <3>3, <4>3, EngagedLines
      <4> QED BY <2>2, <4>2, <4>4
    <3>4. Held(conn[s], client[s], Append(toSaac[s], m), toGs[s], lock[k], file[k], s, k)
      BY <1>1, <2>1, <2>2, <3>2, <3>3, HeldSaveSent
    <3> QED BY <2>3, <3>4
  <2> QED BY <2>4, <2>5
<1> QED BY <1>2, <1>3, HeldStep

(* Requests of connections are signed: of one server, only connection f has its fdid. *)
LEMMA OwnFdid ==
  ASSUME Inv, NEW s \in Servers, NEW f \in Fds, conn[s][f].use, NEW k
  PROVE  \A e \in Fds : Of(conn[s][e], k) /\ conn[s][e].fdid = conn[s][f].fdid => e = f
  BY DEF Inv, ServerOK, Of

(* CharList_recv: perhaps another character of the account ends first. *)
LEMMA CharListHeld ==
  ASSUME KickInv, HeldInv, NEW s, Sole(s), NEW f \in Fds, CharList_recv(s, f)
  PROVE  HeldInv'
<1> DEFINE c == [conn[s][f] EXCEPT !.state = "WHILEDOWNLOADCHARLIST"]
           m == Ask("CharList", s, f)
<1>0. s \in Servers
  BY DEF Sole
<1>1. conn[s][f].use /\ conn[s][f].state = "NOTLOGIN" /\ UNCHANGED <<toGs, lock, file>>
  BY DEF CharList_recv, Forward, saacVars
<1>2. conn[s][f] \in Connection /\ conn[s][f].fdid \in Fdid /\ conn[s][f].cdkey \in Cdkeys
  BY <1>0, <1>1, UsedFacts DEF KickInv
<1>3. /\ c.use = conn[s][f].use /\ c.state = "WHILEDOWNLOADCHARLIST"
      /\ c.fdid = conn[s][f].fdid /\ c.cdkey = conn[s][f].cdkey
  BY <1>2, SetState DEF State, Waiting, Connection
<1>4. /\ m \in Request /\ m.type = "CharList" /\ m.fdid = conn[s][f].fdid
      /\ m.cdkey = conn[s][f].cdkey
  BY <1>0, <1>2, AskLine DEF LineTypes, Ask
<1>5. /\ conn \in [Servers -> [Fds -> Connection]] /\ toSaac \in [Servers -> Seq(Request)]
      /\ client \in [Servers -> [Fds -> {"open", "listed", "gone"}]]
  BY DEF KickInv, Inv, TypeOK
<1>6. CASE Forward(s, f, "NOTLOGIN", "WHILEDOWNLOADCHARLIST", "CharList") /\ client' = client
  <2>1. conn' = [conn EXCEPT ![s][f] = c] /\ toSaac' = [toSaac EXCEPT ![s] = Append(toSaac[s], m)]
    BY <1>0, <1>5, <1>6 DEF Forward
  <2> HIDE DEF c, m
  <2>2. /\ conn'[s][f] = c /\ \A g \in Fds : g # f => conn'[s][g] = conn[s][g]
        /\ toSaac'[s] = Append(toSaac[s], m)
    BY <1>0, <1>5, <2>1
  <2>3. ASSUME NEW k \in Cdkeys
        PROVE  Held(conn'[s], client'[s], toSaac'[s], toGs'[s], lock'[k], file'[k], s, k)
    <3>1. /\ Held(conn[s], client[s], toSaac[s], toGs[s], lock[k], file[k], s, k)
          /\ toSaac[s] \in Seq(Request)
      BY <1>0, HeldFacts
    <3>2. Held(conn'[s], client[s], toSaac[s], toGs[s], lock[k], file[k], s, k)
      BY <1>3, <2>2, <3>1, BackOne DEF Of, Engaged
    <3>3. \A e \in Fds : Of(conn'[s][e], k) /\ conn'[s][e].fdid = m.fdid => m.cdkey = k
      BY <1>0, <1>1, <1>3, <1>4, <2>2, OwnFdid DEF Of, KickInv
    <3> QED BY <1>1, <1>4, <1>6, <2>2, <3>1, <3>2, <3>3, HeldListSent
  <2> QED BY <2>3, HeldStep
<1>7. ASSUME NEW g \in Fds, LoggedIn(s, g),
             conn' = [conn EXCEPT ![s][f].state = "WHILEDOWNLOADCHARLIST", ![s][g] = NoConn],
             client' = [client EXCEPT ![s][g] = "gone"],
             toSaac' = [toSaac EXCEPT ![s] =
                          @ \o EndOneSends(s, g) \o <<Ask("CharList", s, f)>>]
      PROVE  HeldInv'
  <2> DEFINE qa == toSaac[s] \o EndOneSends(s, g)
             cs == [conn[s] EXCEPT ![g] = NoConn]
  <2>1. qa \in Seq(Request)
    BY <1>0, <1>7, EndOneLines DEF LoggedIn, KickInv
  <2>2. f # g
    BY <1>1, <1>7 DEF LoggedIn
  <2>3. toSaac' = [toSaac EXCEPT ![s] = Append(qa, m)]
    BY <1>0, <1>4, <1>5, <1>7, <2>1, ConcatOne
  <2>4. conn' = [SetConn(s, f, c) EXCEPT ![s][g] = NoConn]
    BY <1>0, <1>5, <1>7 DEF SetConn
  <2>5. /\ cs[g] = NoConn /\ \A h \in Fds : h # g => cs[h] = conn[s][h]
    BY <1>0, <1>5
  <2> HIDE DEF c, m, qa, cs
  <2>6. /\ conn'[s][f] = c /\ conn'[s][g] = NoConn
        /\ \A h \in Fds : h # f /\ h # g => conn'[s][h] = conn[s][h]
        /\ client'[s][g] = "gone" /\ \A h \in Fds : h # g => client'[s][h] = client[s][h]
    BY <1>0, <1>5, <1>7, <2>2, <2>4 DEF SetConn
  <2>7. toSaac'[s] = Append(qa, m)
    BY <1>0, <1>5, <2>3
  <2>8. ASSUME NEW k \in Cdkeys
        PROVE  Held(conn'[s], client'[s], toSaac'[s], toGs'[s], lock'[k], file'[k], s, k)
    <3>1. Held(cs, client'[s], qa, toGs[s], lock[k], file[k], s, k)
      BY <1>0, <1>7, <2>5, <2>6, EndedHeld DEF LoggedIn, qa
    <3>2. Held(conn'[s], client'[s], qa, toGs[s], lock[k], file[k], s, k)
      BY <1>3, <2>2, <2>5, <2>6, <3>1, BackOne DEF Of, Engaged
    <3>3. \A e \in Fds : Of(conn'[s][e], k) /\ conn'[s][e].fdid = m.fdid => m.cdkey = k
      <4>1. ~Of(NoConn, k)
        BY NoConnType DEF Of
      <4> QED BY <1>0, <1>1, <1>3, <1>4, <2>6, <4>1, OwnFdid DEF Of, KickInv
    <3> QED BY <1>1, <1>4, <2>1, <2>7, <3>2, <3>3, HeldListSent
  <2> QED BY <2>8, HeldStep
<1> QED BY <1>6, <1>7 DEF CharList_recv

(* The connection that a client still uses becomes the only one that is engaged. *)
LEMMA HeldEngage ==
  ASSUME NEW cs, NEW cl, NEW cs2, NEW qa, NEW qg, NEW lk, NEW fk, NEW s, NEW k,
         Held(cs, cl, qa, qg, lk, fk, s, k), NEW f \in Fds, Of(cs[f], k), cl[f] # "gone",
         \A e \in Fds : Of(cs2[e], k) =>
           /\ Of(cs[e], k) /\ cs2[e].fdid = cs[e].fdid
           /\ Engaged(cs2[e], k) => e = f
           /\ cs2[e].state # "LOGIN",
         \A e \in Fds :
           cs2[e].use /\ cl[e] = "listed" => cs2[e].state \notin {"NULLCONNECT", "WHILEAUTH"}
  PROVE  Held(cs2, cl, qa, qg, lk, fk, s, k)
<1>1. OneAtATime(cs2, cl, k)
  BY DEF Held, OneAtATime
<1>2. Signed(cs2, qa, k)
  BY DEF Held, Signed
<1>3. InPlay(cs2, qa, lk, fk, s, k)
  BY DEF InPlay
<1>4. LastWord(cs2, qa, k)
  BY DEF Held, LastWord, IsFor
<1>5. Arriving(cs2, qa, qg, lk, fk, s, k)
  BY DEF Held, Arriving, IsFor
<1>6. GivingBack(cs2, qa, qg, lk, s, k)
  BY DEF Held, GivingBack, IsFor
<1>7. ListLast(cs2, cl, qa, k)
  BY DEF Held, ListLast, IsFor
<1>8. Granted(cs2, cl, qa, qg, k)
  BY DEF Held, Granted, IsFor
<1> QED BY <1>1, <1>2, <1>3, <1>4, <1>5, <1>6, <1>7, <1>8 DEF Held

(* CharLogin_recv: nobody else of the account is engaged. *)
LEMMA CharLoginHeld ==
  ASSUME KickInv, HeldInv, NEW s, Sole(s), Polite, NEW f \in Fds, CharLogin_recv(s, f)
  PROVE  HeldInv'
<1> DEFINE c == [conn[s][f] EXCEPT !.state = "WHILELOGIN"]
           m == Ask("CharLoad", s, f)
<1>0. s \in Servers
  BY DEF Sole
<1>1. /\ conn[s][f].use /\ conn[s][f].state = "NOTLOGIN" /\ client[s][f] = "listed"
      /\ UNCHANGED <<toGs, lock, file, client>>
  BY DEF CharLogin_recv, Forward, saacVars
<1>2. conn[s][f] \in Connection /\ conn[s][f].fdid \in Fdid /\ conn[s][f].cdkey \in Cdkeys
  BY <1>0, <1>1, UsedFacts DEF KickInv
<1>3. /\ c.use = conn[s][f].use /\ c.state = "WHILELOGIN"
      /\ c.fdid = conn[s][f].fdid /\ c.cdkey = conn[s][f].cdkey
  BY <1>2, SetState DEF State, Waiting, Connection
<1>4. /\ m \in Request /\ m.type = "CharLoad" /\ m.fdid = conn[s][f].fdid
      /\ m.cdkey = conn[s][f].cdkey
  BY <1>0, <1>2, AskLine DEF LineTypes, Ask
<1>5. /\ conn \in [Servers -> [Fds -> Connection]] /\ toSaac \in [Servers -> Seq(Request)]
  BY DEF KickInv, Inv, TypeOK
<1>6. conn' = [conn EXCEPT ![s][f] = c] /\ toSaac' = [toSaac EXCEPT ![s] = Append(toSaac[s], m)]
  BY <1>0, <1>5 DEF Forward, CharLogin_recv
<1> HIDE DEF c, m
<1>7. /\ conn'[s][f] = c /\ \A g \in Fds : g # f => conn'[s][g] = conn[s][g]
      /\ toSaac'[s] = Append(toSaac[s], m)
  BY <1>0, <1>5, <1>6
<1>8. ASSUME NEW k \in Cdkeys
      PROVE  Held(conn'[s], client'[s], toSaac'[s], toGs'[s], lock'[k], file'[k], s, k)
  <2>1. /\ Held(conn[s], client[s], toSaac[s], toGs[s], lock[k], file[k], s, k)
        /\ toSaac[s] \in Seq(Request)
        /\ ServerOK(up[s], conn[s], nextFdid[s], toSaac[s], toGs[s])
    BY <1>0, HeldFacts
  <2>2. \A e \in Fds : Of(conn[s][e], k) /\ conn[s][e].fdid = conn[s][f].fdid => e = f
    BY <1>0, <1>1, OwnFdid DEF KickInv
  <2>3. CASE conn[s][f].cdkey # k
    <3>1. Held(conn'[s], client[s], toSaac[s], toGs[s], lock[k], file[k], s, k)
      BY <1>3, <1>7, <2>1, <2>3, BackOne DEF Of
    <3>2. ~Asks(m, conn'[s], k)
      BY <1>3, <1>4, <1>7, <2>2, <2>3 DEF Asks, Idle, Saves, Frees, Of
    <3> QED BY <1>1, <1>4, <1>7, <2>1, <3>1, <3>2, HeldSent
  <2>4. CASE conn[s][f].cdkey = k
    <3>1. Of(conn[s][f], k) /\ ~Engaged(conn[s][f], k)
      BY <1>1, <2>4 DEF Of, Engaged
    <3>2. \A e \in Fds : ~Engaged(conn[s][e], k)
      BY <1>1, <2>1, <3>1 DEF Held, OneAtATime, Engaged
    <3>3. Unengaged(conn[s], toSaac[s], toGs[s], k)
      BY <2>1, <3>2, NobodyEngaged
    <3>4. Held(conn[s], client[s], Append(toSaac[s], m), toGs[s], lock[k], file[k], s, k)
      BY <1>1, <1>4, <2>1, <2>2, <2>4, <3>3, HeldLoadSent DEF IsFor
    <3>5. Held(conn'[s], client[s], Append(toSaac[s], m), toGs[s], lock[k], file[k], s, k)
      <4>1. /\ \A e \in Fds : Of(conn'[s][e], k) =>
                  /\ Of(conn[s][e], k) /\ conn'[s][e].fdid = conn[s][e].fdid
                  /\ Engaged(conn'[s][e], k) => e = f
                  /\ conn'[s][e].state # "LOGIN"
            /\ \A e \in Fds : conn'[s][e].use /\ client[s][e] = "listed" =>
                                conn'[s][e].state \notin {"NULLCONNECT", "WHILEAUTH"}
        BY <1>3, <1>7, <2>1, <3>1, <3>2 DEF Of, Engaged, Held, OneAtATime
      <4> QED BY <1>1, <3>1, <3>4, <4>1, HeldEngage
    <3> QED BY <1>1, <1>7, <3>5
  <2> QED BY <2>3, <2>4
<1> QED BY <1>8, HeldStep

-----------------------------------------------------------------------------
(* A game server takes answers to a login, a list, a kick and a lock check. *)

(* The answer that server s takes. *)
LEMMA TakenFacts ==
  ASSUME KickInv, HeldInv, NEW s \in Servers, NEW type, Receive(s, type)
  PROVE  /\ toGs[s] \in Seq(Reply) /\ toGs[s] # <<>> /\ toGs'[s] = Tail(toGs[s])
         /\ Line(s) = Head(toGs[s]) /\ Line(s) = toGs[s][1] /\ 1 \in DOMAIN toGs[s]
         /\ \A j \in DOMAIN toGs[s] : j \in Nat /\ ~(j < 1)
         /\ Line(s).type = type /\ Line(s) \in Reply
<1>1. /\ toGs[s] # <<>> /\ toGs' = [toGs EXCEPT ![s] = Tail(toGs[s])]
      /\ Line(s).type = type /\ Line(s) \in Reply
  BY ReceiveFacts DEF KickInv
<1>2. toGs[s] \in Seq(Reply) /\ toGs'[s] = Tail(toGs[s])
  BY <1>1 DEF KickInv, Inv, TypeOK
<1>3. Head(toGs[s]) = toGs[s][1] /\ 1 \in DOMAIN toGs[s]
  BY <1>1, <1>2
<1>4. \A j \in DOMAIN toGs[s] : j \in Nat /\ ~(j < 1)
  BY <1>2
<1> QED BY <1>1, <1>2, <1>3, <1>4 DEF Line

(* A connection in another state. *)
Moved(c, c2) ==
  c2.use = c.use /\ c2.fdid = c.fdid /\ c2.cdkey = c.cdkey /\ c2.char = c.char

(* Changing the state changes nothing else. *)
LEMMA MovedState ==
  ASSUME NEW c \in Connection, NEW st
  PROVE  Moved(c, [c EXCEPT !.state = st]) /\ [c EXCEPT !.state = st].state = st
  BY DEF Moved, Connection

(* SaacClient_ACCharLogin_recv. *)
LEMMA ACCharLoginHeld ==
  ASSUME KickInv, HeldInv, NEW s, Sole(s), SaacClient_ACCharLogin_recv(s)
  PROVE  HeldInv'
<1> DEFINE st == IF Line(s).ok THEN "NOTLOGIN" ELSE "NULLCONNECT"
           cs == [f \in Fds |-> IF f \in Owner(s, Line(s).fdid) /\ conn[s][f].state = "WHILEAUTH"
                                  THEN [conn[s][f] EXCEPT !.state = st] ELSE conn[s][f]]
<1>0. s \in Servers
  BY DEF Sole
<1>1. /\ Receive(s, "CharLogin") /\ conn' = [conn EXCEPT ![s] = cs]
      /\ UNCHANGED <<lock, file, client, toSaac>>
  BY DEF SaacClient_ACCharLogin_recv, saacVars
<1>2. st \in {"NOTLOGIN", "NULLCONNECT"}
  OBVIOUS
<1>3. \A f \in Fds : \/ cs[f] = conn[s][f]
                     \/ /\ conn[s][f].state = "WHILEAUTH"
                        /\ cs[f] = [conn[s][f] EXCEPT !.state = st]
  OBVIOUS
<1> HIDE DEF st, cs
<1>4. conn \in [Servers -> [Fds -> Connection]]
  BY DEF KickInv, Inv, TypeOK
<1>5. conn'[s] = cs
  BY <1>0, <1>1, <1>4
<1>6. ASSUME NEW f \in Fds
      PROVE  \/ cs[f] = conn[s][f]
             \/ /\ Moved(conn[s][f], cs[f]) /\ conn[s][f].state = "WHILEAUTH"
                /\ cs[f].state \in {"NOTLOGIN", "NULLCONNECT"}
  <2>1. conn[s][f] \in Connection
    BY <1>0, <1>4
  <2>2. CASE cs[f] = [conn[s][f] EXCEPT !.state = st]
    <3>1. Moved(conn[s][f], cs[f]) /\ cs[f].state = st
      BY <2>1, <2>2, MovedState
    <3> QED BY <1>2, <1>3, <3>1
  <2> QED BY <1>3, <2>2
<1>7. ASSUME NEW k \in Cdkeys
      PROVE  Held(conn'[s], client'[s], toSaac'[s], toGs'[s], lock'[k], file'[k], s, k)
  <2>1. /\ Held(conn[s], client[s], toSaac[s], toGs[s], lock[k], file[k], s, k)
        /\ toGs[s] \in Seq(Reply) /\ toGs[s] # <<>> /\ toGs'[s] = Tail(toGs[s])
    BY <1>0, <1>1, HeldFacts, TakenFacts
  <2>2. \A f \in Fds : conn[s][f].use /\ client[s][f] = "listed" =>
                         conn[s][f].state \notin {"NULLCONNECT", "WHILEAUTH"}
    BY <2>1 DEF Held, OneAtATime
  <2>3. Back(conn[s], client[s], cs, client[s], k)
    BY <1>6, <2>2 DEF Back, Moved, Of, Engaged
  <2>4. Held(cs, client[s], toSaac[s], toGs[s], lock[k], file[k], s, k)
    BY <2>1, <2>3, HeldBack
  <2> QED BY <1>1, <1>5, <2>1, <2>4, HeldReceived
<1> QED BY <1>7, HeldStep

(* Behind a list that was given out, nobody else of the account is engaged. *)
LEMMA GrantedFree ==
  ASSUME KickInv, HeldInv, NEW s \in Servers, NEW k \in Cdkeys, Receive(s, "CharList"),
         Line(s).ok, NEW f \in Fds, Of(conn[s][f], k), conn[s][f].fdid = Line(s).fdid,
         client[s][f] # "gone", NEW e \in Fds, e # f
  PROVE  ~Engaged(conn[s][e], k)
<1> SUFFICES ASSUME Engaged(conn[s][e], k)
             PROVE  FALSE
  OBVIOUS
<1>1. /\ Held(conn[s], client[s], toSaac[s], toGs[s], lock[k], file[k], s, k)
      /\ ServerOK(up[s], conn[s], nextFdid[s], toSaac[s], toGs[s])
  BY HeldFacts
<1>2. /\ 1 \in DOMAIN toGs[s] /\ IsFor(toGs[s][1], "CharList", conn[s][f]) /\ toGs[s][1].ok
      /\ \A j \in DOMAIN toGs[s] : ~(j < 1)
  BY TakenFacts DEF IsFor
<1>3. Of(conn[s][e], k)
  BY DEF Engaged
<1>4. /\ conn[s][e].state # "LOGIN"
      /\ \A j \in DOMAIN toSaac[s] : /\ ~IsFor(toSaac[s][j], "CharLoad", conn[s][e])
                                     /\ ~IsFor(toSaac[s][j], "Lock", conn[s][e])
      /\ \A j \in DOMAIN toGs[s] : /\ ~IsFor(toGs[s][j], "CharLoad", conn[s][e])
                                   /\ ~IsFor(toGs[s][j], "Lock", conn[s][e])
  BY <1>1, <1>2, <1>3 DEF Held, Granted
<1> QED BY <1>1, <1>3, <1>4, EngagedLines

(* SaacClient_ACCharList_recv. *)
LEMMA ACCharListHeld ==
  ASSUME KickInv, HeldInv, NEW s, Sole(s), SaacClient_ACCharList_recv(s)
  PROVE  HeldInv'
<1> DEFINE cs == [f \in Fds |-> IF f \in Owner(s, Line(s).fdid)
                                  THEN [conn[s][f] EXCEPT !.state = "NOTLOGIN"] ELSE conn[s][f]]
           cl == [f \in Fds |-> IF f \in Owner(s, Line(s).fdid) /\ client[s][f] # "gone"
                    THEN IF Line(s).ok /\ Polite THEN "listed" ELSE "open" ELSE client[s][f]]
<1>0. s \in Servers
  BY DEF Sole
<1>1. /\ Receive(s, "CharList")
      /\ conn' = [conn EXCEPT ![s] = cs] /\ client' = [client EXCEPT ![s] = cl]
      /\ UNCHANGED <<lock, file, toSaac>>
  BY DEF SaacClient_ACCharList_recv, saacVars
<1>2. \A f \in Fds : \/ cs[f] = conn[s][f] /\ cl[f] = client[s][f]
                     \/ /\ f \in Owner(s, Line(s).fdid)
                        /\ cs[f] = [conn[s][f] EXCEPT !.state = "NOTLOGIN"]
                        /\ cl[f] # "gone" => client[s][f] # "gone"
                        /\ cl[f] = "listed" => Line(s).ok /\ client[s][f] # "gone"
  BY <1>0 DEF KickInv, Inv, TypeOK
<1> HIDE DEF cs, cl
<1>3. /\ conn \in [Servers -> [Fds -> Connection]]
      /\ client \in [Servers -> [Fds -> {"open", "listed", "gone"}]]
  BY DEF KickInv, Inv, TypeOK
<1>4. conn'[s] = cs /\ client'[s] = cl
  BY <1>0, <1>1, <1>3
<1>5. ASSUME NEW f \in Fds
      PROVE  \/ cs[f] = conn[s][f] /\ cl[f] = client[s][f]
             \/ /\ Moved(conn[s][f], cs[f]) /\ cs[f].state = "NOTLOGIN"
                /\ conn[s][f].fdid = Line(s).fdid
                /\ cl[f] # "gone" => client[s][f] # "gone"
                /\ cl[f] = "listed" => Line(s).ok /\ client[s][f] # "gone"
  <2>1. conn[s][f] \in Connection
    BY <1>0, <1>3
  <2>2. CASE cs[f] = [conn[s][f] EXCEPT !.state = "NOTLOGIN"]
    <3>1. Moved(conn[s][f], cs[f]) /\ cs[f].state = "NOTLOGIN"
      BY <2>1, <2>2, MovedState
    <3> QED BY <1>2, <3>1 DEF Owner
  <2> QED BY <1>2, <2>2
<1>6. ASSUME NEW k \in Cdkeys
      PROVE  Held(conn'[s], client'[s], toSaac'[s], toGs'[s], lock'[k], file'[k], s, k)
  <2>1. /\ Held(conn[s], client[s], toSaac[s], toGs[s], lock[k], file[k], s, k)
        /\ toGs[s] \in Seq(Reply) /\ toGs[s] # <<>> /\ toGs'[s] = Tail(toGs[s])
    BY <1>0, <1>1, HeldFacts, TakenFacts
  <2>2. \A f \in Fds : conn[s][f].use /\ client[s][f] = "listed" =>
                         conn[s][f].state \notin {"NULLCONNECT", "WHILEAUTH"}
    BY <2>1 DEF Held, OneAtATime
  <2>3. ASSUME NEW f \in Fds, Of(cs[f], k), cl[f] = "listed", client[s][f] # "listed",
               NEW e \in Fds \ {f}
        PROVE  ~Engaged(conn[s][e], k)
    <3>1. /\ Of(conn[s][f], k) /\ conn[s][f].fdid = Line(s).fdid
          /\ Line(s).ok /\ client[s][f] # "gone"
      BY <1>5, <2>3 DEF Of, Moved
    <3> QED BY <1>0, <1>1, <2>3, <3>1, GrantedFree
  <2>4. ASSUME NEW f \in Fds
        PROVE  /\ Of(cs[f], k) =>
                    /\ Of(conn[s][f], k) /\ cs[f].fdid = conn[s][f].fdid
                    /\ Engaged(cs[f], k) => Engaged(conn[s][f], k)
                    /\ cs[f].state = "LOGIN" =>
                         conn[s][f].state = "LOGIN" /\ conn[s][f].char \subseteq cs[f].char
                    /\ cl[f] # "gone" => client[s][f] # "gone"
               /\ cs[f].use /\ cl[f] = "listed" => cs[f].state \notin {"NULLCONNECT", "WHILEAUTH"}
    BY <1>5, <2>2 DEF Moved, Of, Engaged
  <2>5. Back(conn[s], client[s], cs, cl, k)
    BY <2>3, <2>4 DEF Back
  <2>6. Held(cs, cl, toSaac[s], toGs[s], lock[k], file[k], s, k)
    BY <2>1, <2>5, HeldBack
  <2> QED BY <1>1, <1>4, <2>1, <2>6, HeldReceived
<1> QED BY <1>6, HeldStep

(* SaacClient_ACKick_recv. *)
LEMMA ACKickHeld ==
  ASSUME KickInv, HeldInv, NEW s, Sole(s), SaacClient_ACKick_recv(s)
  PROVE  HeldInv'
<1> DEFINE cs == [f \in Fds |-> IF LoggedIn(s, f) /\ conn[s][f].cdkey = Line(s).cdkey
                    THEN [conn[s][f] EXCEPT !.close_request = TRUE] ELSE conn[s][f]]
<1>0. s \in Servers
  BY DEF Sole
<1>1. /\ Receive(s, "Kick") /\ conn' = [conn EXCEPT ![s] = cs]
      /\ UNCHANGED <<lock, file, client, toSaac>>
  BY DEF SaacClient_ACKick_recv, saacVars
<1>2. conn \in [Servers -> [Fds -> Connection]]
  BY DEF KickInv, Inv, TypeOK
<1>3. ASSUME NEW f \in Fds
      PROVE  Moved(conn[s][f], cs[f]) /\ cs[f].state = conn[s][f].state
  <2>1. conn[s][f] \in Connection
    BY <1>0, <1>2
  <2> QED BY <2>1 DEF Connection, Moved
<1> HIDE DEF cs
<1>4. conn'[s] = cs
  BY <1>0, <1>1, <1>2
<1>5. ASSUME NEW k \in Cdkeys
      PROVE  Held(conn'[s], client'[s], toSaac'[s], toGs'[s], lock'[k], file'[k], s, k)
  <2>1. /\ Held(conn[s], client[s], toSaac[s], toGs[s], lock[k], file[k], s, k)
        /\ toGs[s] \in Seq(Reply) /\ toGs[s] # <<>> /\ toGs'[s] = Tail(toGs[s])
    BY <1>0, <1>1, HeldFacts, TakenFacts
  <2>2. \A f \in Fds : conn[s][f].use /\ client[s][f] = "listed" =>
                         conn[s][f].state \notin {"NULLCONNECT", "WHILEAUTH"}
    BY <2>1 DEF Held, OneAtATime
  <2>3. Back(conn[s], client[s], cs, client[s], k)
    BY <1>3, <2>2 DEF Back, Moved, Of, Engaged
  <2>4. Held(cs, client[s], toSaac[s], toGs[s], lock[k], file[k], s, k)
    BY <2>1, <2>3, HeldBack
  <2> QED BY <1>1, <1>4, <2>1, <2>4, HeldReceived
<1> QED BY <1>5, HeldStep

(* SaacClient_ACUCheck_recv: the answer that there is nobody is true of every
   connection of the account but those without a character. *)
LEMMA ACUCheckHeld ==
  ASSUME KickInv, HeldInv, NEW s, Sole(s), SaacClient_ACUCheck_recv(s)
  PROVE  HeldInv'
<1> DEFINE st == IF WithLogin(s, Line(s).cdkey) THEN 1 ELSE 0
           m == [type |-> "UCheck", cdkey |-> Line(s).cdkey, status |-> st]
<1>0. s \in Servers
  BY DEF Sole
<1>1. /\ Receive(s, "UCheck") /\ UNCHANGED <<lock, file, client, conn>>
      /\ toSaac' = [toSaac EXCEPT ![s] = Append(toSaac[s], m)]
  BY <1>0 DEF SaacClient_ACUCheck_recv, saacVars, gsVars, KickInv, Inv, TypeOK
<1>2. /\ m \in Request /\ m.type = "UCheck" /\ m.cdkey = Line(s).cdkey
      /\ m.status \in {0, 1} /\ (m.status = 0 => ~WithLogin(s, Line(s).cdkey))
  <2>1. Line(s).cdkey \in Cdkeys
    BY <1>0, <1>1, TakenFacts, ReplyFields
  <2>2. st \in {0, 1} /\ (st = 0 => ~WithLogin(s, Line(s).cdkey))
    OBVIOUS
  <2> HIDE DEF st
  <2> QED BY <2>1, <2>2, UCheckLine
<1> HIDE DEF m, st
<1>3. ASSUME NEW k \in Cdkeys
      PROVE  Held(conn'[s], client'[s], toSaac'[s], toGs'[s], lock'[k], file'[k], s, k)
  <2>1. /\ Held(conn[s], client[s], toSaac[s], toGs[s], lock[k], file[k], s, k)
        /\ toGs[s] \in Seq(Reply) /\ toGs[s] # <<>> /\ toGs'[s] = Tail(toGs[s])
        /\ toSaac \in [Servers -> Seq(Request)]
        /\ ServerOK(up[s], conn[s], nextFdid[s], toSaac[s], toGs[s])
    BY <1>0, <1>1, HeldFacts, TakenFacts
  <2>2. toSaac[s] \in Seq(Request) /\ toSaac'[s] = Append(toSaac[s], m)
    BY <1>0, <1>1, <2>1
  <2>3. Held(conn[s], client[s], Append(toSaac[s], m), toGs[s], lock[k], file[k], s, k)
    <3>1. CASE m.status = 1
      BY <1>2, <2>1, <2>2, <3>1, QuietRequest, HeldSent
    <3>2. CASE m.cdkey # k
      <4>1. ~Asks(m, conn[s], k)
        BY <1>2, <3>2 DEF Asks, Idle, Saves, Frees
      <4> QED BY <1>2, <2>1, <2>2, <4>1, HeldSent
    <3>3. CASE m.status = 0 /\ m.cdkey = k
      <4>1. \A e \in Fds : Of(conn[s][e], k) => conn[s][e].state = "NOTLOGIN"
        BY <1>2, <3>3 DEF WithLogin, Of
      <4>2. \A e \in Fds : ~Engaged(conn[s][e], k)
        BY <4>1 DEF Engaged
      <4>3. Unengaged(conn[s], toSaac[s], toGs[s], k)
        BY <2>1, <4>2, NobodyEngaged
      <4>4. ~Saves(m, k)
        BY <1>2 DEF Saves
      <4>5. ASSUME NEW e \in Fds, Of(conn[s][e], k)
            PROVE  /\ \A i \in DOMAIN toSaac[s] : /\ ~IsFor(toSaac[s][i], "CharLoad", conn[s][e])
                                                  /\ ~IsFor(toSaac[s][i], "Lock", conn[s][e])
                   /\ \A i \in DOMAIN toGs[s] : ~IsFor(toGs[s][i], "CharLoad", conn[s][e])
                   /\ conn[s][e].state # "LOGIN"
        BY <4>3, <4>5 DEF Unengaged
      <4> QED BY <1>2, <2>1, <2>2, <4>4, <4>5, HeldSaveSent
    <3> QED BY <1>2, <3>1, <3>2, <3>3
  <2> QED BY <1>1, <2>1, <2>2, <2>3, HeldReceived
<1> QED BY <1>3, HeldStep

-----------------------------------------------------------------------------
(* A game server takes the answers to a load and to giving a lock back.    *)

(* The owner of the answer to a load. *)
LEMMA LoaderFacts ==
  ASSUME KickInv, HeldInv, NEW s \in Servers, Receive(s, "CharLoad"),
         NEW f \in Owner(s, Line(s).fdid), NEW k \in Cdkeys
  PROVE  /\ f \in Fds /\ conn[s][f].use /\ conn[s][f] \in Connection
         /\ conn[s][f].fdid \in Fdid /\ conn[s][f].cdkey \in Cdkeys
         /\ conn[s][f].state = "WHILELOGIN"
         /\ IsFor(toGs[s][1], "CharLoad", conn[s][f])
         /\ conn[s][f].cdkey = k => Of(conn[s][f], k) /\ Engaged(conn[s][f], k)
         /\ \A e \in Fds : Of(conn[s][e], k) /\ conn[s][e].fdid = conn[s][f].fdid => e = f
<1>1. /\ f \in Fds /\ conn[s][f].use /\ conn[s][f] \in Connection
      /\ conn[s][f].fdid \in Fdid /\ conn[s][f].cdkey \in Cdkeys
      /\ Waits(conn[s][f]) /\ Waiting[conn[s][f].state] = "CharLoad"
  BY OwnerFacts DEF KickInv, LineTypes
<1>2. conn[s][f].state = "WHILELOGIN"
  BY <1>1 DEF Waits, Waiting
<1>3. IsFor(toGs[s][1], "CharLoad", conn[s][f])
  BY TakenFacts DEF IsFor, Owner
<1>4. \A e \in Fds : Of(conn[s][e], k) /\ conn[s][e].fdid = conn[s][f].fdid => e = f
  BY <1>1, OwnFdid DEF KickInv
<1> QED BY <1>1, <1>2, <1>3, <1>4 DEF Of, Engaged

(* What a load that succeeded finds. *)
LEMMA LoadedFacts ==
  ASSUME KickInv, HeldInv, NEW s \in Servers, Receive(s, "CharLoad"),
         NEW f \in Owner(s, Line(s).fdid), NEW k \in Cdkeys, conn[s][f].cdkey = k, Line(s).ok
  PROVE  /\ lock[k] = s /\ file[k] \subseteq Line(s).data
         /\ \A j \in DOMAIN toSaac[s] : Idle(toSaac[s][j], k)
         /\ NoOtherList(conn[s], client[s], toGs[s], f, k)
<1>1. /\ f \in Fds /\ Of(conn[s][f], k) /\ IsFor(toGs[s][1], "CharLoad", conn[s][f])
      /\ 1 \in DOMAIN toGs[s] /\ Line(s) = toGs[s][1]
  BY LoaderFacts, TakenFacts
<1>2. Held(conn[s], client[s], toSaac[s], toGs[s], lock[k], file[k], s, k)
  BY HeldFacts
<1>3. /\ lock[k] = s /\ file[k] \subseteq Line(s).data
      /\ \A j \in DOMAIN toSaac[s] : Idle(toSaac[s][j], k)
  BY <1>1, <1>2 DEF Held, Arriving
<1>4. NoOtherList(conn[s], client[s], toGs[s], f, k)
  BY <1>1, <1>2 DEF Held, Granted, NoOtherList
<1> QED BY <1>3, <1>4

(* The lock is given back: the answer to the load was all there was. *)
LEMMA GiveBackHeld ==
  ASSUME KickInv, HeldInv, NEW s \in Servers, Receive(s, "CharLoad"),
         NEW f \in Owner(s, Line(s).fdid), NEW k \in Cdkeys, conn[s][f].cdkey = k, Line(s).ok,
         NEW cs, Moved(conn[s][f], cs[f]), cs[f].state = "WHILECANNOTLOGIN",
         \A g \in Fds : g # f => cs[g] = conn[s][g],
         Held(cs, client[s], toSaac[s], Tail(toGs[s]), lock[k], file[k], s, k)
  PROVE  Held(cs, client[s], Append(toSaac[s], Ask("Lock", s, f)), Tail(toGs[s]),
              lock[k], file[k], s, k)
<1> DEFINE m == Ask("Lock", s, f)
           qg == Tail(toGs[s])
<1>1. /\ f \in Fds /\ Of(conn[s][f], k) /\ Engaged(conn[s][f], k)
      /\ conn[s][f].use /\ conn[s][f].fdid \in Fdid
      /\ IsFor(toGs[s][1], "CharLoad", conn[s][f])
      /\ \A e \in Fds : Of(conn[s][e], k) /\ conn[s][e].fdid = conn[s][f].fdid => e = f
  BY LoaderFacts
<1>2. m \in Request /\ IsFor(m, "Lock", cs[f]) /\ m.cdkey = k
  BY <1>1, AskLine DEF LineTypes, Ask, IsFor, Moved
<1> HIDE DEF m
<1>3. /\ lock[k] = s /\ \A j \in DOMAIN toSaac[s] : Idle(toSaac[s][j], k)
      /\ NoOtherList(conn[s], client[s], toGs[s], f, k)
  BY LoadedFacts
<1>4. /\ Held(conn[s], client[s], toSaac[s], toGs[s], lock[k], file[k], s, k)
      /\ toSaac[s] \in Seq(Request) /\ toGs[s] \in Seq(Reply)
      /\ ServerOK(up[s], conn[s], nextFdid[s], toSaac[s], toGs[s])
      /\ toGs[s] # <<>> /\ Head(toGs[s]) = toGs[s][1]
  BY HeldFacts, TakenFacts
<1>5. \A i \in DOMAIN qg : i + 1 \in DOMAIN toGs[s] /\ qg[i] = toGs[s][i + 1]
  BY <1>4, TailFacts
<1>6. Quiet(toSaac[s], qg, conn[s][f].fdid)
  <2>1. IsAbout(Head(toGs[s]), conn[s][f].fdid)
    BY <1>1, <1>4 DEF IsAbout, IsFor
  <2> QED BY <1>1, <1>4, <2>1, AnswerLast
<1> HIDE DEF qg
<1>7. NoOtherList(cs, client[s], qg, f, k)
  BY <1>3, <1>5 DEF NoOtherList
<1>8. \A e \in Fds : /\ Of(cs[e], k) <=> Of(conn[s][e], k)
                     /\ cs[e].fdid = conn[s][e].fdid
  BY DEF Of, Moved
<1>9. ASSUME NEW e \in Fds, Of(cs[e], k)
      PROVE  /\ cs[e].state # "LOGIN"
             /\ \A i \in DOMAIN toSaac[s] : /\ ~IsFor(toSaac[s][i], "CharLoad", cs[e])
                                            /\ ~IsFor(toSaac[s][i], "Lock", cs[e])
             /\ \A i \in DOMAIN qg : ~IsFor(qg[i], "CharLoad", cs[e]) /\ ~IsFor(qg[i], "Lock", cs[e])
  <2>1. CASE e = f
    BY <1>6, <1>8, <2>1 DEF Quiet, None, IsAbout, IsFor
  <2>2. CASE e # f
    <3>1. cs[e] = conn[s][e] /\ Of(conn[s][e], k)
      BY <1>9, <2>2
    <3>2. ~Engaged(conn[s][e], k)
      BY <1>1, <1>4, <2>2, <3>1 DEF Held, OneAtATime
    <3>3. conn[s][e].state # "LOGIN"
      BY <3>1, <3>2 DEF Engaged
    <3>4. /\ \A i \in DOMAIN toSaac[s] : /\ ~IsFor(toSaac[s][i], "CharLoad", conn[s][e])
                                         /\ ~IsFor(toSaac[s][i], "Lock", conn[s][e])
          /\ \A i \in DOMAIN toGs[s] : /\ ~IsFor(toGs[s][i], "CharLoad", conn[s][e])
                                       /\ ~IsFor(toGs[s][i], "Lock", conn[s][e])
      <4>1. ServerOK(up[s], conn[s], nextFdid[s], toSaac[s], toGs[s])
        BY <1>4
      <4>2. ~Engaged(conn[s][e], k) \/ conn[s][e].state = "LOGIN"
        BY <3>2
      <4> QED BY <3>1, <4>1, <4>2, EngagedLines, SMTT(30)
    <3> QED BY <1>5, <3>1, <3>3, <3>4
  <2> QED BY <2>1, <2>2
<1>10. Unengaged(cs, toSaac[s], qg, k)
  BY <1>9 DEF Unengaged
<1>11. Held(cs, client[s], toSaac[s], qg, lock[k], file[k], s, k)
  BY DEF qg
<1>12. \A e \in Fds : Of(cs[e], k) /\ cs[e].fdid = cs[f].fdid => e = f
  BY <1>1, <1>8
<1>13. Held(cs, client[s], Append(toSaac[s], m), qg, lock[k], file[k], s, k)
  BY <1>1, <1>2, <1>3, <1>4, <1>7, <1>10, <1>11, <1>12, HeldLockSent
<1> QED BY <1>13 DEF m, qg

(* SaacClient_ACCharLoad_recv. *)
LEMMA ACCharLoadHeld ==
  ASSUME KickInv, HeldInv, NEW s, Sole(s), SaacClient_ACCharLoad_recv(s)
  PROVE  HeldInv'
<1>0. s \in Servers
  BY DEF Sole
<1>1. /\ Receive(s, "CharLoad") /\ UNCHANGED <<lock, file, client>>
  BY DEF SaacClient_ACCharLoad_recv, saacVars
<1>2. /\ conn \in [Servers -> [Fds -> Connection]]
      /\ toSaac \in [Servers -> Seq(Request)]
      /\ toGs[s] \in Seq(Reply) /\ toGs[s] # <<>> /\ toGs'[s] = Tail(toGs[s])
  BY <1>0, <1>1, TakenFacts DEF KickInv, Inv, TypeOK
<1>3. \A k \in Cdkeys : Held(conn[s], client[s], toSaac[s], toGs[s], lock[k], file[k], s, k)
  BY <1>0, HeldFacts
<1>4. CASE UNCHANGED <<conn, toSaac>>
  <2>1. ASSUME NEW k \in Cdkeys
        PROVE  Held(conn'[s], client'[s], toSaac'[s], toGs'[s], lock'[k], file'[k], s, k)
    BY <1>1, <1>2, <1>3, <1>4, HeldReceived
  <2> QED BY <2>1, HeldStep
<1>5. ASSUME NEW f \in Owner(s, Line(s).fdid),
             conn' = [conn EXCEPT ![s][f].state = "NOTLOGIN"], UNCHANGED toSaac
      PROVE  HeldInv'
  <2> DEFINE c == [conn[s][f] EXCEPT !.state = "NOTLOGIN"]
  <2>1. f \in Fds /\ conn[s][f] \in Connection
    BY <1>0, <1>1, OwnerFacts DEF KickInv, LineTypes
  <2>2. Moved(conn[s][f], c) /\ c.state = "NOTLOGIN"
    BY <2>1, MovedState
  <2>3. conn' = [conn EXCEPT ![s][f] = c]
    BY <1>0, <1>2, <1>5
  <2> HIDE DEF c
  <2>4. conn'[s][f] = c /\ \A g \in Fds : g # f => conn'[s][g] = conn[s][g]
    BY <1>0, <1>2, <2>1, <2>3
  <2>5. ASSUME NEW k \in Cdkeys
        PROVE  Held(conn'[s], client'[s], toSaac'[s], toGs'[s], lock'[k], file'[k], s, k)
    <3>1. Held(conn'[s], client[s], toSaac[s], toGs[s], lock[k], file[k], s, k)
      BY <1>3, <2>1, <2>2, <2>4, BackOne DEF Moved, Of, Engaged
    <3> QED BY <1>1, <1>2, <1>5, <3>1, HeldReceived
  <2> QED BY <2>5, HeldStep
<1>6. ASSUME NEW f \in Owner(s, Line(s).fdid), Line(s).ok,
             conn' = [conn EXCEPT ![s][f].state = "LOGIN", ![s][f].char = Line(s).data],
             UNCHANGED toSaac
      PROVE  HeldInv'
  <2> DEFINE c == [conn[s][f] EXCEPT !.state = "LOGIN", !.char = Line(s).data]
  <2>1. f \in Fds /\ conn[s][f] \in Connection
    BY <1>0, <1>1, OwnerFacts DEF KickInv, LineTypes
  <2>2. /\ c.use = conn[s][f].use /\ c.fdid = conn[s][f].fdid /\ c.cdkey = conn[s][f].cdkey
        /\ c.state = "LOGIN" /\ c.char = Line(s).data
    BY <2>1 DEF Connection
  <2>3. conn' = [conn EXCEPT ![s][f] = c]
    BY <1>0, <1>2, <1>6, <2>1
  <2> HIDE DEF c
  <2>4. conn'[s][f] = c /\ \A g \in Fds : g # f => conn'[s][g] = conn[s][g]
    BY <1>0, <1>2, <2>1, <2>3
  <2>5. ASSUME NEW k \in Cdkeys
        PROVE  Held(conn'[s], client'[s], toSaac'[s], toGs'[s], lock'[k], file'[k], s, k)
    <3>1. CASE conn[s][f].cdkey # k
      <4>1. Held(conn'[s], client[s], toSaac[s], toGs[s], lock[k], file[k], s, k)
        BY <1>3, <2>1, <2>2, <2>4, <3>1, BackOne DEF Of
      <4> QED BY <1>1, <1>2, <1>6, <4>1, HeldReceived
    <3>2. CASE conn[s][f].cdkey = k
      <4>1. Of(conn[s][f], k) /\ Engaged(conn[s][f], k)
        BY <1>0, <1>1, <3>2, LoaderFacts
      <4>2. /\ lock[k] = s /\ file[k] \subseteq c.char
            /\ \A j \in DOMAIN toSaac[s] : Idle(toSaac[s][j], k)
            /\ NoOtherList(conn[s], client[s], toGs[s], f, k)
        BY <1>0, <1>1, <1>6, <2>2, <3>2, LoadedFacts
      <4>3. Of(c, k)
        BY <2>2, <4>1 DEF Of
      <4>4. Held(conn'[s], client[s], toSaac[s], toGs[s], lock[k], file[k], s, k)
        BY <1>3, <2>1, <2>2, <2>4, <4>1, <4>2, <4>3, HeldEnter
      <4> QED BY <1>1, <1>2, <1>6, <4>4, HeldReceived
    <3> QED BY <3>1, <3>2
  <2> QED BY <2>5, HeldStep
<1>7. ASSUME NEW f \in Owner(s, Line(s).fdid), Line(s).ok,
             conn' = [conn EXCEPT ![s][f].state = "WHILECANNOTLOGIN"],
             toSaac' = [toSaac EXCEPT ![s] = Append(@, Ask("Lock", s, f))]
      PROVE  HeldInv'
  <2> DEFINE c == [conn[s][f] EXCEPT !.state = "WHILECANNOTLOGIN"]
             m == Ask("Lock", s, f)
  <2>1. /\ f \in Fds /\ conn[s][f] \in Connection
        /\ conn[s][f].fdid \in Fdid /\ conn[s][f].cdkey \in Cdkeys
    BY <1>0, <1>1, OwnerFacts DEF KickInv, LineTypes
  <2>2. Moved(conn[s][f], c) /\ c.state = "WHILECANNOTLOGIN"
    BY <2>1, MovedState
  <2>3. conn' = [conn EXCEPT ![s][f] = c]
    BY <1>0, <1>2, <1>7
  <2>4. toSaac'[s] = Append(toSaac[s], m)
    BY <1>0, <1>2, <1>7
  <2>5. m \in Request /\ m.type = "Lock" /\ m.fdid = conn[s][f].fdid /\ m.cdkey = conn[s][f].cdkey
    BY <1>0, <2>1, AskLine DEF LineTypes, Ask
  <2> HIDE DEF c, m
  <2>6. conn'[s][f] = c /\ \A g \in Fds : g # f => conn'[s][g] = conn[s][g]
    BY <1>0, <1>2, <2>1, <2>3
  <2>7. ASSUME NEW k \in Cdkeys
        PROVE  Held(conn'[s], client'[s], toSaac'[s], toGs'[s], lock'[k], file'[k], s, k)
    <3>0. conn[s][f].state = "WHILELOGIN"
      BY <1>0, <1>1, LoaderFacts
    <3>1. Held(conn'[s], client[s], toSaac[s], Tail(toGs[s]), lock[k], file[k], s, k)
      <4>1. Held(conn'[s], client[s], toSaac[s], toGs[s], lock[k], file[k], s, k)
        BY <1>3, <2>1, <2>2, <2>6, <3>0, BackOne DEF Moved, Of, Engaged
      <4> QED BY <1>2, <4>1, HeldReceived
    <3>2. CASE conn[s][f].cdkey # k
      <4>1. \A e \in Fds : Of(conn[s][e], k) /\ conn[s][e].fdid = conn[s][f].fdid => e = f
        BY <1>0, <1>1, LoaderFacts
      <4>2. ~Asks(m, conn'[s], k)
        BY <2>2, <2>5, <2>6, <3>2, <4>1 DEF Asks, Idle, Saves, Frees, Of, Moved
      <4>3. toSaac[s] \in Seq(Request)
        BY <1>0, <1>2
      <4> QED BY <1>1, <1>2, <2>4, <2>5, <3>1, <4>2, <4>3, HeldSent
    <3>3. CASE conn[s][f].cdkey = k
      <4>1. Held(conn'[s], client[s], Append(toSaac[s], Ask("Lock", s, f)), Tail(toGs[s]),
                 lock[k], file[k], s, k)
        BY <1>0, <1>1, <1>7, <2>2, <2>6, <3>1, <3>3, GiveBackHeld
      <4> QED BY <1>1, <1>2, <2>4, <4>1 DEF m
    <3> QED BY <3>2, <3>3
  <2> QED BY <2>7, HeldStep
<1> QED BY <1>4, <1>5, <1>6, <1>7 DEF SaacClient_ACCharLoad_recv

(* SaacClient_ACLock_recv: a lock that was given back was there. *)
LEMMA ACLockHeld ==
  ASSUME KickInv, HeldInv, NEW s, Sole(s), SaacClient_ACLock_recv(s)
  PROVE  HeldInv'
<1>0. s \in Servers
  BY DEF Sole
<1>1. /\ Receive(s, "Lock") /\ UNCHANGED <<lock, file, client>>
  BY DEF SaacClient_ACLock_recv, saacVars
<1>2. /\ conn \in [Servers -> [Fds -> Connection]]
      /\ toGs[s] \in Seq(Reply) /\ toGs[s] # <<>> /\ toGs'[s] = Tail(toGs[s])
      /\ 1 \in DOMAIN toGs[s] /\ Line(s) = toGs[s][1] /\ Line(s).type = "Lock"
  BY <1>0, <1>1, TakenFacts DEF KickInv, Inv, TypeOK
<1>3. \A k \in Cdkeys : Held(conn[s], client[s], toSaac[s], toGs[s], lock[k], file[k], s, k)
  BY <1>0, HeldFacts
<1>4. CASE UNCHANGED <<conn, toSaac>>
  <2>1. ASSUME NEW k \in Cdkeys
        PROVE  Held(conn'[s], client'[s], toSaac'[s], toGs'[s], lock'[k], file'[k], s, k)
    BY <1>1, <1>2, <1>3, <1>4, HeldReceived
  <2> QED BY <2>1, HeldStep
<1>5. ASSUME NEW f \in Owner(s, Line(s).fdid),
             conn' = [conn EXCEPT ![s][f].state = "NOTLOGIN"], UNCHANGED toSaac
      PROVE  HeldInv'
  <2> DEFINE c == [conn[s][f] EXCEPT !.state = "NOTLOGIN"]
  <2>1. f \in Fds /\ conn[s][f] \in Connection
    BY <1>0, <1>1, OwnerFacts DEF KickInv, LineTypes
  <2>2. Moved(conn[s][f], c) /\ c.state = "NOTLOGIN"
    BY <2>1, MovedState
  <2>3. conn' = [conn EXCEPT ![s][f] = c]
    BY <1>0, <1>2, <1>5
  <2> HIDE DEF c
  <2>4. conn'[s][f] = c /\ \A g \in Fds : g # f => conn'[s][g] = conn[s][g]
    BY <1>0, <1>2, <2>1, <2>3
  <2>5. ASSUME NEW k \in Cdkeys
        PROVE  Held(conn'[s], client'[s], toSaac'[s], toGs'[s], lock'[k], file'[k], s, k)
    <3>1. Held(conn'[s], client[s], toSaac[s], toGs[s], lock[k], file[k], s, k)
      BY <1>3, <2>1, <2>2, <2>4, BackOne DEF Moved, Of, Engaged
    <3> QED BY <1>1, <1>2, <1>5, <3>1, HeldReceived
  <2> QED BY <2>5, HeldStep
<1>6. ASSUME NEW f \in Owner(s, Line(s).fdid), ~Line(s).ok
      PROVE  FALSE
  <2>1. /\ f \in Fds /\ conn[s][f].use /\ conn[s][f].cdkey \in Cdkeys
        /\ conn[s][f].fdid = Line(s).fdid
    BY <1>0, <1>1, OwnerFacts DEF KickInv, LineTypes, Owner
  <2>2. Of(conn[s][f], conn[s][f].cdkey) /\ IsFor(toGs[s][1], "Lock", conn[s][f])
    BY <1>2, <2>1 DEF Of, IsFor
  <2> QED BY <1>2, <1>3, <1>6, <2>1, <2>2 DEF Held, GivingBack
<1> QED BY <1>4, <1>5, <1>6 DEF SaacClient_ACLock_recv

-----------------------------------------------------------------------------
(* SAAC takes the login and the logout of a server, logins, checks and saves. *)

(* The request that saac takes. *)
LEMMA HandledFacts ==
  ASSUME KickInv, NEW s \in Servers, NEW type, Handle(s, type)
  PROVE  /\ toSaac[s] # <<>> /\ toSaac[s] \in Seq(Request) /\ toSaac'[s] = Tail(toSaac[s])
         /\ Req(s) = Head(toSaac[s]) /\ Req(s) = toSaac[s][1] /\ 1 \in DOMAIN toSaac[s]
         /\ Req(s).type = type /\ Req(s) \in Request
         /\ \A j \in DOMAIN Tail(toSaac[s]) :
              /\ j \in Nat /\ j + 1 \in DOMAIN toSaac[s] /\ Tail(toSaac[s])[j] = toSaac[s][j + 1]
              /\ j + 1 > 1 /\ ~(j + 1 < 1)
         /\ toGs \in [Servers -> Seq(Reply)] /\ toGs[s] \in Seq(Reply)
<1>1. /\ toSaac[s] # <<>> /\ toSaac[s] \in Seq(Request)
      /\ Req(s) \in Request /\ Req(s).type = type /\ Req(s) = Head(toSaac[s])
      /\ toSaac'[s] = Tail(toSaac[s]) /\ toGs \in [Servers -> Seq(Reply)]
  BY HandleFacts DEF KickInv
<1>2. /\ Head(toSaac[s]) = toSaac[s][1] /\ 1 \in DOMAIN toSaac[s]
      /\ \A j \in DOMAIN Tail(toSaac[s]) :
           /\ j \in Nat /\ j + 1 \in DOMAIN toSaac[s] /\ Tail(toSaac[s])[j] = toSaac[s][j + 1]
           /\ j + 1 > 1 /\ ~(j + 1 < 1)
  BY <1>1, TailFacts
<1> QED BY <1>1, <1>2

(* Put of an answer that does not matter. *)
LEMMA PutHeld ==
  ASSUME NEW s \in Servers, NEW q \in [Servers -> Seq(Reply)], NEW S, NEW m \in Reply,
         NEW cs, NEW cl, NEW qa, NEW lk, NEW fk, NEW k,
         Held(cs, cl, qa, q[s], lk, fk, s, k), ~Tells(m, cs, k)
  PROVE  Held(cs, cl, qa, Put(q, S, m)[s], lk, fk, s, k)
<1>1. Put(q, S, m)[s] = Append(q[s], m) \/ Put(q, S, m)[s] = q[s]
  BY DEF Put
<1>2. q[s] \in Seq(Reply)
  OBVIOUS
<1>3. CASE Put(q, S, m)[s] = Append(q[s], m)
  BY <1>2, <1>3, HeldAnswered
<1> QED BY <1>1, <1>3

(* Kicks and questions do not matter. *)
LEMMA PutKickHeld ==
  ASSUME NEW s \in Servers, NEW q \in [Servers -> Seq(Reply)], NEW S, NEW l \in Cdkeys,
         NEW m \in {Kick(l), [type |-> "UCheck", cdkey |-> l]},
         NEW cs, NEW cl, NEW qa, NEW lk, NEW fk, NEW k,
         Held(cs, cl, qa, q[s], lk, fk, s, k)
  PROVE  /\ Held(cs, cl, qa, Put(q, S, m)[s], lk, fk, s, k)
         /\ Put(q, S, m) \in [Servers -> Seq(Reply)]
<1>1. m \in Reply /\ m.type \in {"Kick", "UCheck"}
  <2>1. CASE m = Kick(l)
    BY <2>1, KickLine
  <2>2. CASE m = [type |-> "UCheck", cdkey |-> l]
    BY <2>2, UCheckLine
  <2> QED BY <2>1, <2>2
<1>2. ~Tells(m, cs, k)
  BY <1>1 DEF Tells
<1> QED BY <1>1, <1>2, PutHeld, PutQueues

(* An answer to another account does not matter. *)
LEMMA OtherAccount ==
  ASSUME KickInv, HeldInv, NEW s \in Servers, NEW type \in {"CharList", "CharLoad", "Lock"},
         Handle(s, type), NEW m, m.fdid = Req(s).fdid, NEW k \in Cdkeys, k # Req(s).cdkey
  PROVE  ~Tells(m, conn[s], k)
<1>1. /\ Req(s) = toSaac[s][1] /\ 1 \in DOMAIN toSaac[s] /\ Req(s).type = type
      /\ Held(conn[s], client[s], toSaac[s], toGs[s], lock[k], file[k], s, k)
  BY HandledFacts, HeldFacts
<1> QED BY <1>1 DEF Held, Signed, Tells

(* A step of saac that answers s. *)
LEMMA SaacHeld ==
  ASSUME KickInv, HeldInv, NEW s, Sole(s), NEW type, Handle(s, type), UNCHANGED <<gsVars, client>>,
         \A k \in Cdkeys :
           Held(conn[s], client[s], Tail(toSaac[s]), toGs'[s], lock'[k], file'[k], s, k)
  PROVE  HeldInv'
<1>1. s \in Servers
  BY DEF Sole
<1>2. toSaac'[s] = Tail(toSaac[s]) /\ conn' = conn /\ client' = client
  BY <1>1, HandledFacts DEF gsVars
<1> QED BY <1>2, HeldStep

(* ServerLogin: the locks of the server go, it has nobody in play. *)
LEMMA ServerLoginHeld ==
  ASSUME KickInv, HeldInv, NEW s, Sole(s), ServerLogin(s)
  PROVE  HeldInv'
<1>0. s \in Servers
  BY DEF Sole
<1>1. /\ Handle(s, "ServerLogin") /\ UNCHANGED <<gsVars, client>>
      /\ UNCHANGED <<toGs, file>>
  BY DEF ServerLogin
<1>2. ASSUME NEW k \in Cdkeys
      PROVE  Held(conn[s], client[s], Tail(toSaac[s]), toGs'[s], lock'[k], file'[k], s, k)
  <2>1. Frees(Head(toSaac[s]), k) /\ toSaac[s] \in Seq(Request) /\ toSaac[s] # <<>>
    BY <1>0, <1>1, HandledFacts DEF Frees
  <2>2. Held(conn[s], client[s], toSaac[s], toGs[s], lock[k], file[k], s, k)
    BY <1>0, HeldFacts
  <2> QED BY <1>1, <2>1, <2>2, HeldFreed
<1> QED BY <1>1, <1>2, SaacHeld

(* A request that changes nothing and an answer that does not matter. *)
LEMMA TakenHeld ==
  ASSUME KickInv, HeldInv, NEW s \in Servers, NEW type, Handle(s, type), NEW k \in Cdkeys
  PROVE  Held(conn[s], client[s], Tail(toSaac[s]), toGs[s], lock[k], file[k], s, k)
<1>1. /\ toSaac[s] \in Seq(Request) /\ toSaac[s] # <<>>
      /\ Held(conn[s], client[s], toSaac[s], toGs[s], lock[k], file[k], s, k)
  BY HandledFacts, HeldFacts
<1> QED BY <1>1, HeldTaken

(* A request that frees the account. *)
LEMMA FreedHeld ==
  ASSUME KickInv, HeldInv, NEW s \in Servers, NEW type, Handle(s, type), NEW k \in Cdkeys,
         Frees(Req(s), k), NEW lk
  PROVE  Held(conn[s], client[s], Tail(toSaac[s]), toGs[s], lk, file[k], s, k)
<1>1. /\ toSaac[s] \in Seq(Request) /\ toSaac[s] # <<>> /\ Req(s) = Head(toSaac[s])
      /\ Held(conn[s], client[s], toSaac[s], toGs[s], lock[k], file[k], s, k)
  BY HandledFacts, HeldFacts
<1> QED BY <1>1, HeldFreed

(* ServerLogout and SaacServer_ACCharLogin_recv. *)
LEMMA PlainHeld ==
  ASSUME KickInv, HeldInv, NEW s, Sole(s), ServerLogout(s) \/ SaacServer_ACCharLogin_recv(s)
  PROVE  HeldInv'
<1>0. s \in Servers
  BY DEF Sole
<1>1. CASE ServerLogout(s)
  <2>1. /\ Handle(s, "Eof") /\ UNCHANGED <<gsVars, client>>
        /\ UNCHANGED <<toGs, file, lock>>
    BY <1>1 DEF ServerLogout
  <2>2. \A k \in Cdkeys :
          Held(conn[s], client[s], Tail(toSaac[s]), toGs'[s], lock'[k], file'[k], s, k)
    BY <1>0, <2>1, TakenHeld
  <2> QED BY <2>1, <2>2, SaacHeld
<1>2. CASE SaacServer_ACCharLogin_recv(s)
  <2>1. /\ Handle(s, "CharLogin") /\ UNCHANGED <<gsVars, client>>
        /\ UNCHANGED <<file, lock>>
    BY <1>2 DEF SaacServer_ACCharLogin_recv, saacVars
  <2>2. PICK ok \in BOOLEAN : toGs' = Put(toGs, {s}, Answer(Req(s), ok))
    BY <1>2 DEF SaacServer_ACCharLogin_recv
  <2>3. Answer(Req(s), ok) \in Reply /\ Answer(Req(s), ok).type = "CharLogin"
    BY <1>0, <2>1, HandledFacts, AnswerLine
  <2>4. ASSUME NEW k \in Cdkeys
        PROVE  Held(conn[s], client[s], Tail(toSaac[s]), toGs'[s], lock'[k], file'[k], s, k)
    <3>1. ~Tells(Answer(Req(s), ok), conn[s], k)
      BY <2>3 DEF Tells
    <3>2. /\ Held(conn[s], client[s], Tail(toSaac[s]), toGs[s], lock[k], file[k], s, k)
          /\ toGs \in [Servers -> Seq(Reply)]
      BY <1>0, <2>1, TakenHeld, HandledFacts
    <3> QED BY <1>0, <2>1, <2>2, <2>3, <3>1, <3>2, PutHeld
  <2> QED BY <2>1, <2>4, SaacHeld
<1> QED BY <1>1, <1>2

(* SaacServer_ACUCheck_recv. *)
LEMMA UCheckRecvHeld ==
  ASSUME KickInv, HeldInv, NEW s, Sole(s), SaacServer_ACUCheck_recv(s)
  PROVE  HeldInv'
<1> DEFINE l == Req(s).cdkey
<1>0. s \in Servers
  BY DEF Sole
<1>1. Handle(s, "UCheck") /\ UNCHANGED <<gsVars, client>> /\ UNCHANGED file
  BY DEF SaacServer_ACUCheck_recv
<1>2. l \in Cdkeys /\ toGs \in [Servers -> Seq(Reply)] /\ Req(s).type = "UCheck"
  BY <1>0, <1>1, HandledFacts, RequestFields
<1>3. ASSUME NEW k \in Cdkeys
      PROVE  Held(conn[s], client[s], Tail(toSaac[s]), toGs'[s], lock'[k], file'[k], s, k)
  <2>1. Held(conn[s], client[s], Tail(toSaac[s]), toGs[s], lock[k], file[k], s, k)
    BY <1>0, <1>1, TakenHeld
  <2>2. CASE Req(s).status = 0 /\ Unlock(l) /\ UNCHANGED toGs
    <3>1. CASE k = l
      <4>1. Frees(Req(s), k)
        BY <1>2, <2>2, <3>1 DEF Frees
      <4> QED BY <1>0, <1>1, <2>2, <4>1, FreedHeld
    <3>2. CASE k # l
      <4>1. lock'[k] = lock[k]
        BY <2>2, <3>2 DEF Unlock, KickInv, Inv, TypeOK, LockTypeOK
      <4> QED BY <1>1, <2>1, <2>2, <4>1
    <3> QED BY <3>1, <3>2
  <2>3. CASE toGs' = Put(toGs, registered, Kick(l)) /\ UNCHANGED lock
    BY <1>0, <1>1, <1>2, <2>1, <2>3, PutKickHeld
  <2> QED BY <2>2, <2>3 DEF SaacServer_ACUCheck_recv
<1> QED BY <1>1, <1>3, SaacHeld

(* What a save does to the account. *)
LEMMA SavedHeld ==
  ASSUME KickInv, HeldInv, NEW s \in Servers, SaacServer_ACCharSave_recv(s), NEW k \in Cdkeys
  PROVE  /\ Held(conn[s], client[s], Tail(toSaac[s]), toGs[s], lock'[k], file'[k], s, k)
         /\ file[k] \subseteq file'[k]
<1> DEFINE l == Req(s).cdkey
<1>1. /\ Handle(s, "CharSave")
      /\ (Req(s).unlock /\ Unlock(l)) \/ (~Req(s).unlock /\ UNCHANGED lock)
      /\ file' = [file EXCEPT ![l] = Req(s).data] \/ UNCHANGED file
  BY DEF SaacServer_ACCharSave_recv
<1>2. /\ Held(conn[s], client[s], toSaac[s], toGs[s], lock[k], file[k], s, k)
      /\ toSaac[s] \in Seq(Request) /\ toSaac[s] # <<>> /\ Req(s) = Head(toSaac[s])
      /\ Req(s).type = "CharSave"
  BY <1>1, HeldFacts, HandledFacts
<1>3. Held(conn[s], client[s], Tail(toSaac[s]), toGs[s], lock[k], file[k], s, k)
  BY <1>1, TakenHeld
<1>4. lock \in [Cdkeys -> Servers \union {NoServer}] /\ file \in [Cdkeys -> Data]
  BY DEF KickInv, Inv, TypeOK, LockTypeOK
<1>5. CASE k # l
  <2>1. lock'[k] = lock[k] /\ file'[k] = file[k]
    BY <1>1, <1>4, <1>5 DEF Unlock
  <2> QED BY <1>3, <2>1
<1>6. CASE k = l
  <2>1. Saves(Req(s), k)
    BY <1>2, <1>6 DEF Saves
  <2>2. CASE file' = [file EXCEPT ![l] = Req(s).data]
    <3>1. file'[k] = Req(s).data
      BY <1>4, <1>6, <2>2
    <3>2. lock'[k] = lock[k] \/ Head(toSaac[s]).unlock
      BY <1>1, <1>2
    <3>3. Saves(Head(toSaac[s]), k)
      BY <1>2, <2>1
    <3>4. /\ file[k] \subseteq Head(toSaac[s]).data
          /\ Held(conn[s], client[s], Tail(toSaac[s]), toGs[s], lock'[k], Head(toSaac[s]).data, s, k)
      BY <1>2, <3>2, <3>3, HeldSaved
    <3> QED BY <1>2, <3>1, <3>4
  <2>3. CASE UNCHANGED file
    <3>1. CASE Req(s).unlock
      <4>1. Frees(Req(s), k)
        BY <2>1, <3>1 DEF Frees
      <4>2. Held(conn[s], client[s], Tail(toSaac[s]), toGs[s], lock'[k], file[k], s, k)
        BY <1>1, <4>1, FreedHeld
      <4> QED BY <2>3, <4>2
    <3>2. CASE ~Req(s).unlock
      BY <1>1, <1>3, <2>3, <3>2
    <3> QED BY <2>3, <3>1, <3>2
  <2> QED BY <1>1, <2>2, <2>3
<1> QED BY <1>5, <1>6

(* SaacServer_ACCharSave_recv. *)
LEMMA CharSaveRecvHeld ==
  ASSUME KickInv, HeldInv, NEW s, Sole(s), SaacServer_ACCharSave_recv(s)
  PROVE  HeldInv'
<1>1. Handle(s, "CharSave") /\ UNCHANGED <<gsVars, client>> /\ UNCHANGED toGs
  BY DEF SaacServer_ACCharSave_recv
<1>2. ASSUME NEW k \in Cdkeys
      PROVE  Held(conn[s], client[s], Tail(toSaac[s]), toGs'[s], lock'[k], file'[k], s, k)
  BY <1>1, SavedHeld DEF Sole
<1> QED BY <1>1, <1>2, SaacHeld

-----------------------------------------------------------------------------
(* SAAC takes the requests to give a lock back, for a list and for a load. *)

(* SaacServer_ACLock_recv: who gives a lock back finds it. *)
LEMMA LockRecvHeld ==
  ASSUME KickInv, HeldInv, NEW s, Sole(s), SaacServer_ACLock_recv(s)
  PROVE  HeldInv'
<1> DEFINE l == Req(s).cdkey
           m == Answer(Req(s), isLocked(l))
<1>0. s \in Servers
  BY DEF Sole
<1>1. /\ Handle(s, "Lock") /\ UNCHANGED <<gsVars, client>> /\ UNCHANGED file
      /\ toGs' = Put(toGs, {s}, m) /\ Unlock(l)
  BY DEF SaacServer_ACLock_recv
<1>2. /\ toGs \in [Servers -> Seq(Reply)] /\ Req(s).type = "Lock" /\ Req(s) \in Request
      /\ Req(s) = toSaac[s][1] /\ 1 \in DOMAIN toSaac[s] /\ toGs[s] \in Seq(Reply)
  BY <1>0, <1>1, HandledFacts
<1>3. m \in Reply /\ m.type = "Lock" /\ m.fdid = Req(s).fdid /\ (m.ok <=> isLocked(l))
  <2>1. isLocked(l) \in BOOLEAN
    BY DEF isLocked
  <2> QED BY <1>2, <2>1, AnswerLine DEF Answer
<1>4. l \in Cdkeys
  BY <1>2, RequestFields DEF LineTypes
<1> HIDE DEF m
<1>5. ASSUME NEW k \in Cdkeys
      PROVE  Held(conn[s], client[s], Tail(toSaac[s]), toGs'[s], lock'[k], file'[k], s, k)
  <2>1. CASE k # l
    <3>1. lock'[k] = lock[k]
      BY <1>1, <2>1 DEF Unlock, KickInv, Inv, TypeOK, LockTypeOK
    <3>2. ~Tells(m, conn[s], k)
      BY <1>0, <1>1, <1>3, <2>1, OtherAccount
    <3>3. Held(conn[s], client[s], Tail(toSaac[s]), toGs[s], lock[k], file[k], s, k)
      BY <1>0, <1>1, TakenHeld
    <3> QED BY <1>0, <1>1, <1>2, <1>3, <3>1, <3>2, <3>3, PutHeld
  <2>2. CASE k = l
    <3>1. Held(conn[s], client[s], Tail(toSaac[s]), toGs[s], lock'[k], file[k], s, k)
      <4>1. Frees(Req(s), k)
        BY <1>2, <2>2 DEF Frees
      <4> QED BY <1>0, <1>1, <4>1, FreedHeld
    <3>2. CASE ~Tells(m, conn[s], k)
      BY <1>0, <1>1, <1>2, <1>3, <3>1, <3>2, PutHeld
    <3>3. ASSUME NEW f \in Fds, Of(conn[s][f], k), conn[s][f].fdid = m.fdid
          PROVE  /\ lock[k] = s
                 /\ NoOtherList(conn[s], client[s], toGs[s], f, k)
      <4>1. IsFor(toSaac[s][1], "Lock", conn[s][f])
        BY <1>2, <1>3, <3>3 DEF IsFor
      <4>2. Held(conn[s], client[s], toSaac[s], toGs[s], lock[k], file[k], s, k)
        BY <1>0, HeldFacts
      <4>3. lock[k] = s
        BY <1>2, <3>3, <4>1, <4>2 DEF Held, GivingBack
      <4>4. NoOtherList(conn[s], client[s], toGs[s], f, k)
        BY <1>2, <3>3, <4>1, <4>2 DEF Held, Granted, NoOtherList
      <4> QED BY <4>3, <4>4
    <3>4. CASE Tells(m, conn[s], k)
      <4>1. lock[k] = s
        BY <3>3, <3>4 DEF Tells
      <4>2. m.ok
        BY <1>0, <1>3, <2>2, <4>1, NoServerAssumption DEF isLocked
      <4>3. Held(conn[s], client[s], Tail(toSaac[s]), Append(toGs[s], m), lock'[k], file[k], s, k)
        BY <1>2, <1>3, <3>1, <3>3, <4>2, HeldLoaded
      <4>4. toGs'[s] = Append(toGs[s], m) \/ toGs'[s] = toGs[s]
        BY <1>0, <1>1 DEF Put
      <4> QED BY <1>1, <3>1, <4>3, <4>4
    <3> QED BY <3>2, <3>4
  <2> QED BY <2>1, <2>2
<1> QED BY <1>1, <1>5, SaacHeld

(* The lock of an account with no connections at its server may be anybody's. *)
LEMMA HeldFree ==
  ASSUME NEW cs, NEW cl, NEW qa, NEW qg, NEW lk, NEW lk2, NEW fk, NEW s, NEW k,
         Held(cs, cl, qa, qg, lk, fk, s, k), \A f \in Fds : Of(cs[f], k) => lk # s
  PROVE  Held(cs, cl, qa, qg, lk2, fk, s, k)
<1>1. InPlay(cs, qa, lk2, fk, s, k)
  BY DEF Held, InPlay
<1>2. Arriving(cs, qa, qg, lk2, fk, s, k)
  BY DEF Held, Arriving
<1>3. GivingBack(cs, qa, qg, lk2, s, k)
  BY DEF Held, GivingBack
<1> QED BY <1>1, <1>2, <1>3 DEF Held

(* A server with connections is known to saac, once its login is handled. *)
LEMMA UsedKnown ==
  ASSUME KickInv, NEW s \in Servers, NEW type, type # "ServerLogin", Handle(s, type),
         NEW f \in Fds, conn[s][f].use
  PROVE  s \in registered
<1>1. up[s]
  BY UsedFacts DEF KickInv
<1>2. Req(s) = Head(toSaac[s]) /\ Req(s).type = type
  BY HandledFacts
<1> QED BY <1>1, <1>2 DEF KickInv, KickOK, Listed, Fresh

(* The list of an account that is not locked is given out. *)
LEMMA GivenHeld ==
  ASSUME KickInv, HeldInv, NEW s \in Servers, Handle(s, "CharList"), NEW k \in Cdkeys,
         k = Req(s).cdkey, ~isLocked(k), NEW m \in Reply, m.type = "CharList",
         m.fdid = Req(s).fdid
  PROVE  Held(conn[s], client[s], Tail(toSaac[s]), Append(toGs[s], m), lock[k], file[k], s, k)
<1>1. lock[k] # s
  BY NoServerAssumption DEF isLocked
<1>2. Held(conn[s], client[s], toSaac[s], toGs[s], lock[k], file[k], s, k)
  BY HeldFacts
<1>3. Held(conn[s], client[s], Tail(toSaac[s]), toGs[s], lock[k], file[k], s, k)
  BY TakenHeld
<1>4. /\ Req(s) = toSaac[s][1] /\ 1 \in DOMAIN toSaac[s] /\ Req(s).type = "CharList"
      /\ \A j \in DOMAIN Tail(toSaac[s]) :
           /\ j \in Nat /\ j + 1 \in DOMAIN toSaac[s] /\ Tail(toSaac[s])[j] = toSaac[s][j + 1]
           /\ ~(j + 1 < 1)
      /\ toGs[s] \in Seq(Reply)
  BY HandledFacts
<1>5. ASSUME NEW e \in Fds, NEW f \in Fds, Of(conn[s][e], k), Of(conn[s][f], k), e # f,
             client[s][f] # "gone", conn[s][f].fdid = m.fdid
      PROVE  /\ conn[s][e].state # "LOGIN"
             /\ \A j \in DOMAIN Tail(toSaac[s]) :
                  /\ ~IsFor(Tail(toSaac[s])[j], "CharLoad", conn[s][e])
                  /\ ~IsFor(Tail(toSaac[s])[j], "Lock", conn[s][e])
             /\ \A j \in DOMAIN toGs[s] : ~(IsFor(toGs[s][j], "CharLoad", conn[s][e]) /\ toGs[s][j].ok)
  <2>1. conn[s][e].state # "LOGIN"
    BY <1>1, <1>2, <1>5 DEF Held, InPlay
  <2>2. IsFor(toSaac[s][1], "CharList", conn[s][f])
    BY <1>4, <1>5 DEF IsFor
  <2>3. \A j \in DOMAIN Tail(toSaac[s]) : ~IsFor(Tail(toSaac[s])[j], "CharLoad", conn[s][e])
    BY <1>2, <1>4, <1>5, <2>2 DEF Held, ListLast
  <2>4. \A j \in DOMAIN Tail(toSaac[s]) : ~IsFor(Tail(toSaac[s])[j], "Lock", conn[s][e])
    BY <1>1, <1>3, <1>5 DEF Held, GivingBack
  <2>5. \A j \in DOMAIN toGs[s] : ~(IsFor(toGs[s][j], "CharLoad", conn[s][e]) /\ toGs[s][j].ok)
    BY <1>1, <1>2, <1>5 DEF Held, Arriving
  <2> QED BY <2>1, <2>3, <2>4, <2>5
<1> QED BY <1>3, <1>4, <1>5, HeldListed

(* The answers to a request for the list. *)
LEMMA ListedHeld ==
  ASSUME KickInv, HeldInv, NEW s \in Servers, Handle(s, "CharList"), NEW k \in Cdkeys,
         NEW ok \in BOOLEAN, ok => ~isLocked(Req(s).cdkey)
  PROVE  /\ Held(conn[s], client[s], Tail(toSaac[s]),
                 Put(toGs, {s}, Answer(Req(s), ok))[s], lock[k], file[k], s, k)
         /\ Put(toGs, {s}, Answer(Req(s), ok)) \in [Servers -> Seq(Reply)]
<1> DEFINE m == Answer(Req(s), ok)
<1>1. Req(s) \in Request /\ Req(s).type = "CharList" /\ toGs \in [Servers -> Seq(Reply)]
  BY HandledFacts
<1>2. m \in Reply /\ m.type = "CharList" /\ m.fdid = Req(s).fdid /\ m.ok = ok
  BY <1>1, AnswerLine DEF Answer
<1> HIDE DEF m
<1>3. Held(conn[s], client[s], Tail(toSaac[s]), toGs[s], lock[k], file[k], s, k)
  BY TakenHeld
<1>4. CASE ~ok \/ k # Req(s).cdkey
  <2>1. ~Tells(m, conn[s], k)
    <3>1. CASE ~ok
      BY <1>2, <3>1 DEF Tells
    <3>2. CASE k # Req(s).cdkey
      BY <1>2, <3>2, OtherAccount
    <3> QED BY <1>4, <3>1, <3>2
  <2>2. Held(conn[s], client[s], Tail(toSaac[s]), Put(toGs, {s}, m)[s], lock[k], file[k], s, k)
    BY <1>1, <1>2, <1>3, <2>1, PutHeld
  <2> QED BY <1>1, <1>2, <2>2, PutQueues DEF m
<1>5. CASE ok /\ k = Req(s).cdkey
  <2>1. Held(conn[s], client[s], Tail(toSaac[s]), Append(toGs[s], m), lock[k], file[k], s, k)
    BY <1>2, <1>5, GivenHeld
  <2>2. Put(toGs, {s}, m)[s] = Append(toGs[s], m) \/ Put(toGs, {s}, m)[s] = toGs[s]
    BY DEF Put
  <2>3. Held(conn[s], client[s], Tail(toSaac[s]), Put(toGs, {s}, m)[s], lock[k], file[k], s, k)
    BY <1>3, <2>1, <2>2
  <2> QED BY <1>1, <1>2, <2>3, PutQueues DEF m
<1> QED BY <1>4, <1>5

(* SaacServer_ACCharList_recv: a lock is only dropped when its server is gone. *)
LEMMA CharListRecvHeld ==
  ASSUME KickInv, HeldInv, NEW s, Sole(s), SaacServer_ACCharList_recv(s)
  PROVE  HeldInv'
<1> DEFINE l == Req(s).cdkey
           given == Put(toGs, {s}, Answer(Req(s), TRUE))
           none == Put(toGs, {s}, Answer(Req(s), FALSE))
           refused == Put(none, registered, Kick(l))
           asked == Put(refused, {lock[l]}, [type |-> "UCheck", cdkey |-> l])
<1>0. s \in Servers
  BY DEF Sole
<1>1. /\ Handle(s, "CharList") /\ UNCHANGED <<gsVars, client>> /\ UNCHANGED file
      /\ \/ toGs' = none /\ UNCHANGED lock
         \/ ~isLocked(l) /\ toGs' = given /\ UNCHANGED lock
         \/ toGs' = asked /\ UNCHANGED lock
         \/ lock[l] \notin registered /\ toGs' = refused /\ Unlock(l)
  BY DEF SaacServer_ACCharList_recv
<1>2. l \in Cdkeys
  BY <1>0, <1>1, HandledFacts, RequestFields DEF LineTypes
<1>3. ASSUME NEW k \in Cdkeys
      PROVE  Held(conn[s], client[s], Tail(toSaac[s]), toGs'[s], lock'[k], file'[k], s, k)
  <2>1. /\ none \in [Servers -> Seq(Reply)]
        /\ Held(conn[s], client[s], Tail(toSaac[s]), none[s], lock[k], file[k], s, k)
    BY <1>0, <1>1, ListedHeld
  <2>2. ~isLocked(l) =>
          Held(conn[s], client[s], Tail(toSaac[s]), given[s], lock[k], file[k], s, k)
    BY <1>0, <1>1, ListedHeld
  <2> HIDE DEF none, given
  <2>3. /\ refused \in [Servers -> Seq(Reply)]
        /\ Held(conn[s], client[s], Tail(toSaac[s]), refused[s], lock[k], file[k], s, k)
    BY <1>0, <1>2, <2>1, PutKickHeld
  <2> HIDE DEF refused
  <2>4. Held(conn[s], client[s], Tail(toSaac[s]), asked[s], lock[k], file[k], s, k)
    BY <1>0, <1>2, <2>3, PutKickHeld
  <2> HIDE DEF asked
  <2>5. CASE lock[l] \notin registered /\ toGs' = refused /\ Unlock(l)
    <3>1. CASE k = l
      <4>1. ASSUME NEW f \in Fds, Of(conn[s][f], k) PROVE lock[k] # s
        BY <1>0, <1>1, <2>5, <3>1, <4>1, UsedKnown DEF Of
      <4> QED BY <1>1, <2>3, <2>5, <4>1, HeldFree
    <3>2. CASE k # l
      <4>1. lock'[k] = lock[k]
        BY <2>5, <3>2 DEF Unlock, KickInv, Inv, TypeOK, LockTypeOK
      <4> QED BY <1>1, <2>3, <2>5, <4>1
    <3> QED BY <3>1, <3>2
  <2> QED BY <1>1, <2>1, <2>2, <2>4, <2>5
<1> HIDE DEF l
<1> QED BY <1>1, <1>3, SaacHeld

(* The answers to a request to load; one that succeeded leaves the account locked. *)
LEMMA LoadAnswered ==
  ASSUME KickInv, HeldInv, NEW s \in Servers, Handle(s, "CharLoad"), NEW k \in Cdkeys,
         NEW ok \in BOOLEAN, NEW lk, k # Req(s).cdkey => lk = lock[k],
         k = Req(s).cdkey /\ ok => lk = s
  PROVE  /\ Held(conn[s], client[s], Tail(toSaac[s]),
                 Put(toGs, {s}, Loaded(Req(s), ok))[s], lk, file[k], s, k)
         /\ Put(toGs, {s}, Loaded(Req(s), ok)) \in [Servers -> Seq(Reply)]
<1> DEFINE m == Loaded(Req(s), ok)
<1>1. /\ Req(s) \in Request /\ Req(s).type = "CharLoad" /\ toGs \in [Servers -> Seq(Reply)]
      /\ Req(s) = toSaac[s][1] /\ 1 \in DOMAIN toSaac[s] /\ toGs[s] \in Seq(Reply)
      /\ \A j \in DOMAIN Tail(toSaac[s]) :
           /\ j + 1 \in DOMAIN toSaac[s] /\ Tail(toSaac[s])[j] = toSaac[s][j + 1] /\ j + 1 > 1
  BY HandledFacts
<1>2. m \in Reply /\ m.type = "CharLoad" /\ m.ok = ok
  BY <1>1, LoadedLine DEF KickInv, Inv, TypeOK
<1>3. m.fdid = Req(s).fdid /\ (ok => m.data = file[Req(s).cdkey])
  BY DEF Loaded
<1> HIDE DEF m
<1>4. Put(toGs, {s}, m) \in [Servers -> Seq(Reply)]
  BY <1>1, <1>2, PutQueues
<1>5. CASE k # Req(s).cdkey
  <2>1. ~Tells(m, conn[s], k)
    BY <1>3, <1>5, OtherAccount
  <2>2. Held(conn[s], client[s], Tail(toSaac[s]), toGs[s], lk, file[k], s, k)
    BY <1>5, TakenHeld
  <2>3. Held(conn[s], client[s], Tail(toSaac[s]), Put(toGs, {s}, m)[s], lk, file[k], s, k)
    BY <1>1, <1>2, <2>1, <2>2, PutHeld
  <2> QED BY <1>4, <2>3 DEF m
<1>6. CASE k = Req(s).cdkey
  <2>1. Held(conn[s], client[s], Tail(toSaac[s]), toGs[s], lk, file[k], s, k)
    <3>1. Frees(Req(s), k)
      BY <1>1, <1>6 DEF Frees
    <3> QED BY <3>1, FreedHeld
  <2>2. ASSUME NEW f \in Fds, Of(conn[s][f], k), conn[s][f].fdid = m.fdid
        PROVE  /\ \A j \in DOMAIN Tail(toSaac[s]) : Idle(Tail(toSaac[s])[j], k)
               /\ NoOtherList(conn[s], client[s], toGs[s], f, k)
    <3>1. Held(conn[s], client[s], toSaac[s], toGs[s], lock[k], file[k], s, k)
      BY HeldFacts
    <3>2. IsFor(toSaac[s][1], "CharLoad", conn[s][f])
      BY <1>1, <1>3, <2>2 DEF IsFor
    <3>3. \A j \in DOMAIN Tail(toSaac[s]) : Idle(Tail(toSaac[s])[j], k)
      BY <1>1, <2>2, <3>1, <3>2 DEF Held, LastWord
    <3>4. NoOtherList(conn[s], client[s], toGs[s], f, k)
      BY <1>1, <2>2, <3>1, <3>2 DEF Held, Granted, NoOtherList
    <3> QED BY <3>3, <3>4
  <2>3. Held(conn[s], client[s], Tail(toSaac[s]), Put(toGs, {s}, m)[s], lk, file[k], s, k)
    <3>1. CASE ~Tells(m, conn[s], k)
      BY <1>1, <1>2, <2>1, <3>1, PutHeld
    <3>2. CASE Tells(m, conn[s], k)
      <4>1. \A j \in DOMAIN Tail(toSaac[s]) : Idle(Tail(toSaac[s])[j], k)
        BY <2>2, <3>2 DEF Tells
      <4>2. m.ok => lk = s /\ file[k] \subseteq m.data
        BY <1>2, <1>3, <1>6
      <4>3. Held(conn[s], client[s], Tail(toSaac[s]), Append(toGs[s], m), lk, file[k], s, k)
        BY <1>1, <1>2, <2>1, <2>2, <4>1, <4>2, HeldLoaded
      <4>4. Put(toGs, {s}, m)[s] = Append(toGs[s], m) \/ Put(toGs, {s}, m)[s] = toGs[s]
        BY DEF Put
      <4> QED BY <2>1, <4>3, <4>4
    <3> QED BY <3>1, <3>2
  <2> QED BY <1>4, <2>3 DEF m
<1> QED BY <1>5, <1>6

(* SaacServer_ACCharLoad_recv. *)
LEMMA CharLoadRecvHeld ==
  ASSUME KickInv, HeldInv, NEW s, Sole(s), SaacServer_ACCharLoad_recv(s)
  PROVE  HeldInv'
<1> DEFINE l == Req(s).cdkey
           line(ok) == Put(toGs, {s}, Loaded(Req(s), ok))
<1>0. s \in Servers
  BY DEF Sole
<1>1. PICK ok \in BOOLEAN, S \in {registered, registered \ {s}} :
        /\ Handle(s, "CharLoad") /\ UNCHANGED <<gsVars, client>> /\ UNCHANGED file
        /\ toGs' = line(ok) \/ toGs' = Put(line(ok), S, Kick(l))
        /\ \/ ~ok /\ (UNCHANGED lock \/ Unlock(l))
           \/ Lock(l, s)
  BY DEF SaacServer_ACCharLoad_recv
<1>2. l \in Cdkeys
  BY <1>0, <1>1, HandledFacts, RequestFields DEF LineTypes
<1>3. lock \in [Cdkeys -> Servers \union {NoServer}]
  BY DEF KickInv, Inv, TypeOK, LockTypeOK
<1>4. ASSUME NEW k \in Cdkeys
      PROVE  Held(conn[s], client[s], Tail(toSaac[s]), toGs'[s], lock'[k], file'[k], s, k)
  <2>1. (k # l => lock'[k] = lock[k]) /\ (k = l /\ ok => lock'[k] = s)
    BY <1>1, <1>2, <1>3 DEF Lock, Unlock
  <2>2. /\ Held(conn[s], client[s], Tail(toSaac[s]), line(ok)[s], lock'[k], file[k], s, k)
        /\ line(ok) \in [Servers -> Seq(Reply)]
    BY <1>0, <1>1, <2>1, LoadAnswered
  <2> HIDE DEF line
  <2>3. Held(conn[s], client[s], Tail(toSaac[s]), Put(line(ok), S, Kick(l))[s], lock'[k], file[k], s, k)
    BY <1>0, <1>2, <2>2, PutKickHeld
  <2> QED BY <1>1, <2>2, <2>3
<1> HIDE DEF l, line
<1> QED BY <1>1, <1>4, SaacHeld

-----------------------------------------------------------------------------
(* Crashes, restarts, and the theorems.                                    *)

(* An account without connections: only its saves matter. *)
LEMMA NobodyHeld ==
  ASSUME NEW cs, NEW cl, NEW qa, NEW qg, NEW lk, NEW fk, NEW s, NEW k,
         \A f \in Fds : ~cs[f].use, Growing(qa, fk, k)
  PROVE  Held(cs, cl, qa, qg, lk, fk, s, k)
<1>1. \A f \in Fds : ~Of(cs[f], k)
  BY DEF Of
<1>2. OneAtATime(cs, cl, k)
  BY <1>1 DEF OneAtATime
<1>3. Signed(cs, qa, k) /\ InPlay(cs, qa, lk, fk, s, k) /\ LastWord(cs, qa, k)
  BY <1>1 DEF Signed, InPlay, LastWord
<1>4. Arriving(cs, qa, qg, lk, fk, s, k) /\ GivingBack(cs, qa, qg, lk, s, k)
  BY <1>1 DEF Arriving, GivingBack
<1>5. ListLast(cs, cl, qa, k) /\ Granted(cs, cl, qa, qg, k)
  BY <1>1 DEF ListLast, Granted
<1> QED BY <1>2, <1>3, <1>4, <1>5 DEF Held

(* Crash: some of the saves under way are lost, the last ones. *)
LEMMA CrashHeld ==
  ASSUME KickInv, HeldInv, NEW s, Sole(s), Crash(s)
  PROVE  HeldInv'
<1>0. s \in Servers
  BY DEF Sole
<1>1. conn' = [conn EXCEPT ![s] = [f \in Fds |-> NoConn]] /\ UNCHANGED <<lock, file>>
  BY DEF Crash, Lost, saacVars
<1>2. \A f \in Fds : ~conn'[s][f].use
  BY <1>0, <1>1, NoConnType DEF KickInv, Inv, TypeOK
<1>3. PICK n \in 0 .. Len(toSaac[s]) :
        toSaac' = [toSaac EXCEPT ![s] = Append(SubSeq(toSaac[s], 1, n), [type |-> "Eof"])]
  BY DEF Crash, KickInv, Inv, TypeOK
<1> DEFINE m == [type |-> "Eof"]
           q == SubSeq(toSaac[s], 1, n)
<1>4. m \in Request /\ m.type = "Eof"
  BY DEF Request
<1>5. toSaac[s] \in Seq(Request) /\ toSaac \in [Servers -> Seq(Request)]
  BY <1>0, HeldFacts DEF KickInv, Inv, TypeOK
<1>6. q \in Seq(Request) /\ \A i \in DOMAIN q : i \in Nat /\ i \in DOMAIN toSaac[s] /\ q[i] = toSaac[s][i]
  BY <1>3, <1>5
<1>7. toSaac'[s] = Append(q, m)
  BY <1>0, <1>3, <1>5
<1> HIDE DEF m, q
<1>8. ASSUME NEW k \in Cdkeys
      PROVE  Held(conn'[s], client'[s], toSaac'[s], toGs'[s], lock'[k], file'[k], s, k)
  <2>1. Growing(toSaac[s], file[k], k)
    BY <1>0, HeldFacts DEF Held
  <2>2. Growing(q, file[k], k)
    BY <1>6, <2>1 DEF Growing
  <2>3. \A i \in DOMAIN Append(q, m) :
          /\ i \in Nat
          /\ (i \in DOMAIN q /\ Append(q, m)[i] = q[i]) \/ Append(q, m)[i] = m
    BY <1>4, <1>6, AppendAt
  <2>4. ~Saves(m, k)
    BY <1>4 DEF Saves
  <2>5. Growing(toSaac'[s], file[k], k)
    BY <1>7, <2>2, <2>3, <2>4 DEF Growing
  <2> QED BY <1>1, <1>2, <2>5, NobodyHeld
<1> QED BY <1>8, HeldStep

(* SaacCrash: nothing is left but the files. *)
LEMMA SaacCrashHeld ==
  ASSUME KickInv, HeldInv, NEW s, Sole(s), SaacCrash
  PROVE  HeldInv'
<1>1. (\A f \in Fds : ~conn'[s][f].use) /\ toSaac'[s] = <<>>
  BY NoConnType DEF SaacCrash, Sole
<1>2. \A k \in Cdkeys : Growing(toSaac'[s], file'[k], k)
  BY <1>1 DEF Growing
<1>3. \A k \in Cdkeys : Held(conn'[s], client'[s], toSaac'[s], toGs'[s], lock'[k], file'[k], s, k)
  BY <1>1, <1>2, NobodyHeld
<1> QED BY <1>3, HeldStep

(* Restart: the login is all there is. *)
LEMMA RestartHeld ==
  ASSUME KickInv, HeldInv, NEW s, Sole(s), Restart(s)
  PROVE  HeldInv'
<1>0. s \in Servers
  BY DEF Sole
<1>1. ~up[s] /\ conn' = conn /\ toSaac'[s] = <<[type |-> "ServerLogin"]>>
  BY <1>0 DEF Restart, KickInv, Inv, TypeOK
<1>2. \A f \in Fds : ~conn'[s][f].use
  BY <1>0, <1>1, UsedFacts DEF KickInv
<1>3. \A k \in Cdkeys : Growing(toSaac'[s], file'[k], k)
  BY <1>1 DEF Growing, Saves
<1>4. \A k \in Cdkeys : Held(conn'[s], client'[s], toSaac'[s], toGs'[s], lock'[k], file'[k], s, k)
  BY <1>2, <1>3, NobodyHeld
<1> QED BY <1>4, HeldStep

(* The initial states. *)
LEMMA InitHeld == Init => HeldInv
<1> SUFFICES ASSUME Init, NEW s \in Servers, NEW k \in Cdkeys
             PROVE  Held(conn[s], client[s], toSaac[s], toGs[s], lock[k], file[k], s, k)
  BY DEF HeldInv
<1>1. (\A f \in Fds : ~conn[s][f].use) /\ toSaac[s] = <<>>
  BY NoConnType DEF Init
<1>2. Growing(toSaac[s], file[k], k)
  BY <1>1 DEF Growing
<1> QED BY <1>1, <1>2, NobodyHeld

(* Every step of one game server with polite clients keeps HeldInv. *)
LEMMA NextHeld ==
  ASSUME KickInv, HeldInv, Polite, \A s, t \in Servers : s = t, [Next]_vars
  PROVE  HeldInv'
<1>1. \A s \in Servers : Sole(s)
  BY DEF Sole
<1>2. ASSUME NEW s \in Servers, NEW f \in Fds, ClientStep(s, f)
      PROVE  HeldInv'
  BY <1>1, <1>2, ConnectHeld, ClientLoginHeld, CharListHeld, CharLoginHeld, OwnHeld,
     PeriodicSaveHeld, EndOneHeld DEF ClientStep
<1>3. ASSUME NEW s \in Servers, GsHandle(s)
      PROVE  HeldInv'
  BY <1>1, <1>3, ACCharLoginHeld, ACCharListHeld, ACCharLoadHeld, ACLockHeld, ACUCheckHeld,
     ACKickHeld DEF GsHandle
<1>4. ASSUME NEW s \in Servers, SaacHandle(s)
      PROVE  HeldInv'
  BY <1>1, <1>4, ServerLoginHeld, PlainHeld, CharListRecvHeld, CharLoadRecvHeld,
     CharSaveRecvHeld, LockRecvHeld, UCheckRecvHeld DEF SaacHandle
<1>5. ASSUME NEW s \in Servers, Crash(s) \/ Restart(s)
      PROVE  HeldInv'
  BY <1>1, <1>5, CrashHeld, RestartHeld
<1>6. CASE SaacCrash
  <2>1. CASE Servers = {}
    BY <2>1 DEF HeldInv
  <2>2. CASE Servers # {}
    BY <1>1, <1>6, <2>2, SaacCrashHeld
  <2> QED BY <2>1, <2>2
<1>7. CASE UNCHANGED vars
  BY <1>7 DEF vars, saacVars, gsVars, netVars, HeldInv
<1> QED BY <1>2, <1>3, <1>4, <1>5, <1>6, <1>7 DEF Next

(* One game server, polite clients: the lock and the file follow the character. *)
THEOREM LoginHeldInv ==
  ASSUME Polite, \A s, t \in Servers : s = t
  PROVE  Spec => [](KickInv /\ HeldInv)
<1>1. Init => HeldInv
  BY InitHeld
<1>2. KickInv /\ HeldInv /\ [Next]_vars => HeldInv'
  BY NextHeld
<1> QED BY <1>1, <1>2, LoginKickInv, PTL DEF Spec

(* A character in play is covered by the lock of its account: the load that brought it
   locked the account (charLoadCallback in saac/char.c), and nothing that unlocks it, a
   save with the flag, an answered lock check, a second load or a login of the server,
   is under way while it plays.  For one game server and one device per account: with
   two, a save of the one unlocks the account the other plays. *)
THEOREM LoginLockCoversPlay ==
  ASSUME Polite, \A s, t \in Servers : s = t
  PROVE  Spec => []LockCoversPlay
<1>1. KickInv /\ HeldInv => LockCoversPlay
  <2> SUFFICES ASSUME KickInv, HeldInv, NEW s \in Servers, NEW f \in Fds, LoggedIn(s, f)
               PROVE  lock[conn[s][f].cdkey] = s
    BY DEF LockCoversPlay
  <2>1. conn[s][f].cdkey \in Cdkeys /\ Of(conn[s][f], conn[s][f].cdkey)
    BY UsedFacts DEF KickInv, LoggedIn, Of
  <2> QED BY <2>1 DEF HeldInv, Held, InPlay, LoggedIn
<1> QED BY <1>1, LoginHeldInv, PTL

(* No save throws away a change that is on disk: a character is loaded only when no
   save of its account is under way, and the saves of CHAR_charSaveFromConnect reach
   saac in the order in which they were sent, each with all that those before it had.
   For one game server and one device per account, as for the lock. *)
THEOREM LoginNoLostUpdate ==
  ASSUME Polite, \A s, t \in Servers : s = t
  PROVE  Spec => NoLostUpdate
<1> DEFINE Kept == \A k \in Cdkeys : file[k] \subseteq file'[k]
<1>1. KickInv /\ HeldInv /\ [Next]_vars => [Kept]_vars
  <2> SUFFICES ASSUME KickInv, HeldInv, Next
               PROVE  Kept
    BY DEF vars
  <2>1. ASSUME NEW s \in Servers, SaacServer_ACCharSave_recv(s)
        PROVE  Kept
    BY <2>1, SavedHeld
  <2>2. ASSUME UNCHANGED file
        PROVE  Kept
    BY <2>2
  <2>3. ASSUME NEW s \in Servers, NEW f \in Fds, ClientStep(s, f)
        PROVE  UNCHANGED file
    BY <2>3 DEF ClientStep, Connect, ClientLogin_recv, CharList_recv, CharLogin_recv, Edit,
                ClientLeaves, PeriodicSave, EndOne, saacVars
  <2>4. ASSUME NEW s \in Servers, GsHandle(s)
        PROVE  UNCHANGED file
    BY <2>4 DEF GsHandle, SaacClient_ACCharLogin_recv, SaacClient_ACCharList_recv,
                SaacClient_ACCharLoad_recv, SaacClient_ACLock_recv, SaacClient_ACUCheck_recv,
                SaacClient_ACKick_recv, saacVars
  <2>5. ASSUME NEW s \in Servers, SaacHandle(s), ~SaacServer_ACCharSave_recv(s)
        PROVE  UNCHANGED file
    BY <2>5 DEF SaacHandle, ServerLogin, ServerLogout, SaacServer_ACCharLogin_recv,
                SaacServer_ACCharList_recv, SaacServer_ACCharLoad_recv, SaacServer_ACLock_recv,
                SaacServer_ACUCheck_recv, saacVars
  <2>6. ASSUME NEW s \in Servers, Crash(s) \/ Restart(s)
        PROVE  UNCHANGED file
    BY <2>6 DEF Crash, Restart, saacVars
  <2>7. ASSUME SaacCrash
        PROVE  UNCHANGED file
    BY <2>7 DEF SaacCrash
  <2> HIDE DEF Kept
  <2> QED BY <2>1, <2>2, <2>3, <2>4, <2>5, <2>6, <2>7 DEF Next
<1> QED BY <1>1, LoginHeldInv, PTL DEF Spec, NoLostUpdate
=============================================================================
