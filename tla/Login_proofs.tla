---------------------------- MODULE Login_proofs ----------------------------
(***************************************************************************)
(* Theorems about Login.  Inv says, for every server, that the lines under *)
(* way about a connection are exactly those its state waits for; each step *)
(* lemma moves one line (AskStep, AnswerStep, ReceiveStep) or none         *)
(* (KeepServer), and there is one lemma for each action.                   *)
(***************************************************************************)
EXTENDS Login, SequenceTheorems, FiniteSetTheorems, TLAPS

(* No line of q is about fdid d. *)
None(q, d) == \A i \in DOMAIN q : ~IsAbout(q[i], d)

(* Exactly one line of q is about fdid d, and it is of this type. *)
One(q, d, type) ==
  \E i \in DOMAIN q :
    /\ IsAbout(q[i], d) /\ q[i].type = type
    /\ \A j \in DOMAIN q : IsAbout(q[j], d) => j = i

(* A line put behind a queue without lines about d. *)
LEMMA AppendNone ==
  ASSUME NEW S, NEW q \in Seq(S), NEW m \in S, NEW d, None(q, d)
  PROVE  /\ ~IsAbout(m, d) => None(Append(q, m), d)
         /\ IsAbout(m, d) => One(Append(q, m), d, m.type)
<1>1. /\ Append(q, m) \in Seq(S) /\ Len(Append(q, m)) = Len(q) + 1
      /\ \A i \in 1 .. Len(q) : Append(q, m)[i] = q[i]
      /\ Append(q, m)[Len(q) + 1] = m
      /\ DOMAIN q = 1 .. Len(q) /\ DOMAIN Append(q, m) = 1 .. Len(q) + 1
      /\ Len(q) \in Nat
  OBVIOUS
<1> DEFINE r == Append(q, m)
<1> HIDE DEF r
<1>2. \A i \in DOMAIN r : (i \in DOMAIN q /\ r[i] = q[i]) \/ (i = Len(q) + 1 /\ r[i] = m)
  BY <1>1 DEF r
<1>6. Len(q) + 1 \in DOMAIN r /\ r[Len(q) + 1] = m
  BY <1>1 DEF r
<1>3. \A i \in DOMAIN r : i # Len(q) + 1 => ~IsAbout(r[i], d)
  BY <1>2 DEF None
<1>4. ~IsAbout(m, d) => None(r, d)
  BY <1>2, <1>3 DEF None
<1>5. IsAbout(m, d) => One(r, d, m.type)
  BY <1>3, <1>6 DEF One
<1> QED BY <1>4, <1>5 DEF r

(* A line about something else leaves the one line about d. *)
LEMMA AppendOne ==
  ASSUME NEW S, NEW q \in Seq(S), NEW m \in S, NEW d, NEW type,
         One(q, d, type), ~IsAbout(m, d)
  PROVE  One(Append(q, m), d, type)
<1>1. PICK i \in DOMAIN q : /\ IsAbout(q[i], d) /\ q[i].type = type
                            /\ \A j \in DOMAIN q : IsAbout(q[j], d) => j = i
  BY DEF One
<1> DEFINE r == Append(q, m)
<1>2. /\ \A j \in DOMAIN r : (j \in DOMAIN q /\ r[j] = q[j]) \/ r[j] = m
      /\ i \in DOMAIN r /\ r[i] = q[i]
  OBVIOUS
<1> HIDE DEF r
<1>3. \A j \in DOMAIN r : IsAbout(r[j], d) => j = i
  BY <1>1, <1>2
<1> QED BY <1>1, <1>2, <1>3 DEF One, r

(* Taking a line from a queue without lines about d. *)
LEMMA TailNone ==
  ASSUME NEW S, NEW q \in Seq(S), q # <<>>, NEW d, None(q, d)
  PROVE  None(Tail(q), d) /\ ~IsAbout(Head(q), d)
<1>1. /\ Head(q) = q[1] /\ 1 \in DOMAIN q
      /\ \A i \in DOMAIN Tail(q) : i + 1 \in DOMAIN q /\ Tail(q)[i] = q[i + 1]
  OBVIOUS
<1> QED BY <1>1 DEF None

(* Taking a line from a queue with one line about d: it is that line, or the line stays. *)
LEMMA TailOne ==
  ASSUME NEW S, NEW q \in Seq(S), q # <<>>, NEW d, NEW type, One(q, d, type)
  PROVE  /\ ~IsAbout(Head(q), d) => One(Tail(q), d, type)
         /\ IsAbout(Head(q), d) => None(Tail(q), d) /\ Head(q).type = type
<1>1. PICK i \in DOMAIN q : /\ IsAbout(q[i], d) /\ q[i].type = type
                            /\ \A j \in DOMAIN q : IsAbout(q[j], d) => j = i
  BY DEF One
<1> DEFINE r == Tail(q)
<1>2. /\ Head(q) = q[1] /\ 1 \in DOMAIN q
      /\ \A j \in DOMAIN r : j \in Nat /\ j # 0 /\ j + 1 \in DOMAIN q /\ r[j] = q[j + 1]
      /\ i \in Nat /\ (i # 1 => i - 1 \in DOMAIN r /\ r[i - 1] = q[i])
  OBVIOUS
<1> HIDE DEF r
<1>3. CASE IsAbout(Head(q), d)
  <2>1. i = 1
    BY <1>1, <1>2, <1>3
  <2>2. \A j \in DOMAIN r : ~IsAbout(r[j], d)
    BY <1>1, <1>2, <2>1
  <2> QED BY <1>1, <1>2, <1>3, <2>1, <2>2 DEF None, r
<1>4. CASE ~IsAbout(Head(q), d)
  <2>1. i # 1
    BY <1>1, <1>2, <1>4
  <2>2. \A j \in DOMAIN r : IsAbout(r[j], d) => j = i - 1
    BY <1>1, <1>2
  <2>3. One(r, d, type)
    BY <1>1, <1>2, <2>1, <2>2 DEF One
  <2> QED BY <1>4, <2>3 DEF r
<1> QED BY <1>3, <1>4

(* An empty queue has no line about anything. *)
LEMMA NoneEmpty == \A d : None(<<>>, d)
  BY DEF None

(* The types of lines that carry an fdid. *)
LineTypes == {"CharLogin", "CharList", "CharLoad", "Lock"}

(* The fields of a request. *)
LEMMA RequestFields ==
  ASSUME NEW m \in Request
  PROVE  /\ m.type \in LineTypes => m.cdkey \in Cdkeys /\ m.fdid \in Fdid
         /\ m.type = "CharSave" => m.cdkey \in Cdkeys /\ m.data \in Data /\ m.unlock \in BOOLEAN
         /\ m.type = "UCheck" => m.cdkey \in Cdkeys /\ m.status \in {0, 1}
         /\ m.type \in LineTypes \union {"CharSave", "UCheck", "ServerLogin", "Eof"}
  BY DEF Request, LineTypes

(* The fields of a reply. *)
LEMMA ReplyFields ==
  ASSUME NEW m \in Reply
  PROVE  /\ m.type \in LineTypes => m.fdid \in Fdid /\ m.ok \in BOOLEAN
         /\ m.type = "CharLoad" => m.data \in Data
         /\ m.type \in {"UCheck", "Kick"} => m.cdkey \in Cdkeys
         /\ m.type \in LineTypes \union {"UCheck", "Kick"}
  BY DEF Reply, LineTypes

(* What Ask puts on the wire. *)
LEMMA AskLine ==
  ASSUME NEW s \in Servers, NEW f \in Fds, NEW type \in LineTypes,
         conn[s][f].cdkey \in Cdkeys, conn[s][f].fdid \in Fdid
  PROVE  /\ Ask(type, s, f) \in Request
         /\ Ask(type, s, f).type = type
         /\ \A d : IsAbout(Ask(type, s, f), d) <=> d = conn[s][f].fdid
  BY DEF Ask, Request, IsAbout, LineTypes

(* What Save puts on the wire. *)
LEMMA SaveLine ==
  ASSUME NEW s \in Servers, NEW f \in Fds, NEW unlock \in BOOLEAN,
         conn[s][f] \in Connection, conn[s][f].cdkey \in Cdkeys
  PROVE  /\ Save(s, f, unlock) \in Request
         /\ Save(s, f, unlock).type = "CharSave"
         /\ \A d : ~IsAbout(Save(s, f, unlock), d)
  BY DEF Save, Request, IsAbout, Connection

(* What Answer puts on the wire. *)
LEMMA AnswerLine ==
  ASSUME NEW m \in Request, NEW ok \in BOOLEAN,
         m.type \in {"CharLogin", "CharList", "Lock"}
  PROVE  /\ Answer(m, ok) \in Reply
         /\ Answer(m, ok).type = m.type
         /\ \A d : IsAbout(Answer(m, ok), d) <=> d = m.fdid
  BY RequestFields DEF Answer, Reply, IsAbout, LineTypes

(* What Loaded puts on the wire. *)
LEMMA LoadedLine ==
  ASSUME NEW m \in Request, NEW ok \in BOOLEAN, m.type = "CharLoad",
         file \in [Cdkeys -> Data]
  PROVE  /\ Loaded(m, ok) \in Reply
         /\ Loaded(m, ok).type = m.type
         /\ Loaded(m, ok).ok = ok
         /\ \A d : IsAbout(Loaded(m, ok), d) <=> d = m.fdid
<1>1. (IF ok THEN file[m.cdkey] ELSE {}) \in Data
  BY RequestFields DEF Data, LineTypes
<1> QED BY <1>1, RequestFields DEF Loaded, Reply, IsAbout, LineTypes

(* What Kick puts on the wire. *)
LEMMA KickLine ==
  ASSUME NEW k \in Cdkeys
  PROVE  /\ Kick(k) \in Reply
         /\ Kick(k).type = "Kick"
         /\ \A d : ~IsAbout(Kick(k), d)
  BY DEF Kick, Reply, IsAbout

(* The question of checkGSUCheck and its answer. *)
LEMMA UCheckLine ==
  ASSUME NEW k \in Cdkeys
  PROVE  /\ [type |-> "UCheck", cdkey |-> k] \in Reply
         /\ \A d : ~IsAbout([type |-> "UCheck", cdkey |-> k], d)
         /\ \A st \in {0, 1} :
              /\ [type |-> "UCheck", cdkey |-> k, status |-> st] \in Request
              /\ \A d : ~IsAbout([type |-> "UCheck", cdkey |-> k, status |-> st], d)
  BY DEF Reply, Request, IsAbout

(* One connection replaced. *)
SetConn(s, f, c) == [conn EXCEPT ![s][f] = c]

(* Replacing one connection. *)
LEMMA SetConnType ==
  ASSUME conn \in [Servers -> [Fds -> Connection]],
         NEW s \in Servers, NEW f \in Fds, NEW c \in Connection
  PROVE  /\ SetConn(s, f, c) \in [Servers -> [Fds -> Connection]]
         /\ \A t \in Servers, g \in Fds :
              SetConn(s, f, c)[t][g] = IF t = s /\ g = f THEN c ELSE conn[t][g]
  BY DEF SetConn

(* Moving a connection to another state. *)
LEMMA SetState ==
  ASSUME NEW c \in Connection, NEW st \in State
  PROVE  LET new == [c EXCEPT !.state = st]
         IN  /\ new \in Connection /\ new.state = st
             /\ new.use = c.use /\ new.cdkey = c.cdkey /\ new.fdid = c.fdid
             /\ new.close_request = c.close_request
  BY DEF Connection

(* A free slot. *)
LEMMA NoConnType == NoConn \in Connection /\ NoConn.use = FALSE
  BY LoginAssumption DEF NoConn, Connection, State, Data

(* Put appends at most one line to each queue.                             *)
LEMMA PutQueues ==
  ASSUME NEW Sm, NEW q \in [Servers -> Seq(Sm)], NEW S, NEW m \in Sm
  PROVE  /\ Put(q, S, m) \in [Servers -> Seq(Sm)]
         /\ \A s \in Servers : Put(q, S, m)[s] = IF s \in S /\ up[s] THEN Append(q[s], m) ELSE q[s]
  BY DEF Put

(* Nothing is under way about d. *)
Quiet(qa, qg, d) == None(qa, d) /\ None(qg, d)

(* One line is under way about d, of this type, in one of the queues. *)
Pending(qa, qg, d, type) ==
  \/ One(qa, d, type) /\ None(qg, d)
  \/ None(qa, d) /\ One(qg, d, type)

(* The connection waits for an answer. *)
Waits(c) == c.state \in DOMAIN Waiting

(* What is under way about a connection is what its state says. *)
Expected(c, qa, qg) ==
  IF Waits(c) THEN Pending(qa, qg, c.fdid, Waiting[c.state]) ELSE Quiet(qa, qg, c.fdid)

(* A connection in use: its fdid was given out, it has a name once it is past the
   first login, and it has the lines under way that its state names. *)
ConnOK(c, n, qa, qg) ==
  /\ c.fdid \in 1 .. n - 1
  /\ c.state # "NULLCONNECT" => c.cdkey # NoKey
  /\ Expected(c, qa, qg)

(* One server, with u = up, cs = its connections, n = nextFdid, qa = toSaac and
   qg = toGs: its connections are fine and have different fdids, nothing is under
   way about fdids not given out yet, and a server that is down has no connections. *)
ServerOK(u, cs, n, qa, qg) ==
  /\ \A f \in Fds : cs[f].use => u /\ ConnOK(cs[f], n, qa, qg)
  /\ \A f, g \in Fds : cs[f].use /\ cs[g].use /\ cs[f].fdid = cs[g].fdid => f = g
  /\ u => \A d \in Fdid : d >= n => Quiet(qa, qg, d)
  /\ ~u => qg = <<>> /\ n = 1

(* The inductive invariant. *)
Inv == TypeOK /\ \A s \in Servers : ServerOK(up[s], conn[s], nextFdid[s], toSaac[s], toGs[s])

(* r says about every connection what q says. *)
Keeps(q, r) ==
  \A d : /\ None(q, d) => None(r, d)
         /\ \A type : One(q, d, type) => One(r, d, type)

(* Keeps is reflexive. *)
LEMMA KeepsSelf == \A q : Keeps(q, q)
  BY DEF Keeps

(* Keeps is transitive. *)
LEMMA KeepsTrans ==
  ASSUME NEW p, NEW q, NEW r, Keeps(p, q), Keeps(q, r) PROVE Keeps(p, r)
  BY DEF Keeps

(* A line about no connection may be added. *)
LEMMA KeepsAppend ==
  ASSUME NEW S, NEW q \in Seq(S), NEW m \in S, \A d : ~IsAbout(m, d)
  PROVE  Keeps(q, Append(q, m))
  BY AppendNone, AppendOne DEF Keeps

(* A line about no connection may be taken. *)
LEMMA KeepsTail ==
  ASSUME NEW S, NEW q \in Seq(S), q # <<>>, \A d : ~IsAbout(Head(q), d)
  PROVE  Keeps(q, Tail(q))
  BY TailNone, TailOne DEF Keeps

(* cs2 is cs, but for connections that ended, and for the fields the protocol
   does not look at. *)
Follows(cs, cs2) ==
  \A f \in Fds : cs2[f].use =>
    /\ cs[f].use
    /\ cs2[f].state = cs[f].state /\ cs2[f].fdid = cs[f].fdid /\ cs2[f].cdkey = cs[f].cdkey

(* A step that adds or takes no line about a connection. *)
LEMMA KeepServer ==
  ASSUME NEW u, NEW cs, NEW cs2, NEW n, NEW qa, NEW qg, NEW qa2, NEW qg2,
         ServerOK(u, cs, n, qa, qg), Keeps(qa, qa2), Keeps(qg, qg2), Follows(cs, cs2),
         ~u => qg2 = <<>>
  PROVE  ServerOK(u, cs2, n, qa2, qg2)
<1>1. \A f \in Fds : cs2[f].use => u /\ ConnOK(cs2[f], n, qa2, qg2)
  <2> SUFFICES ASSUME NEW f \in Fds, cs2[f].use
               PROVE  u /\ ConnOK(cs2[f], n, qa2, qg2)
    OBVIOUS
  <2>1. u /\ ConnOK(cs[f], n, qa, qg)
    BY DEF ServerOK, Follows
  <2>2. Expected(cs2[f], qa2, qg2)
    BY <2>1 DEF ConnOK, Expected, Waits, Pending, Quiet, Keeps, Follows
  <2> QED BY <2>1, <2>2 DEF ConnOK, Follows
<1>2. \A f, g \in Fds : cs2[f].use /\ cs2[g].use /\ cs2[f].fdid = cs2[g].fdid => f = g
  BY DEF ServerOK, Follows
<1>3. u => \A d \in Fdid : d >= n => Quiet(qa2, qg2, d)
  BY DEF ServerOK, Quiet, Keeps
<1> QED BY <1>1, <1>2, <1>3 DEF ServerOK

(* SAAC takes a request and answers it: what was under way on one queue is now
   under way on the other. *)
LEMMA AnswerStep ==
  ASSUME NEW u, NEW cs, NEW n, NEW qa \in Seq(Request), NEW qg \in Seq(Reply), NEW qg2,
         NEW r \in Reply,
         ServerOK(u, cs, n, qa, qg), qa # <<>>,
         \A d : IsAbout(r, d) <=> IsAbout(Head(qa), d), r.type = Head(qa).type,
         u => Keeps(Append(qg, r), qg2), ~u => qg2 = qg
  PROVE  ServerOK(u, cs, n, Tail(qa), qg2)
<1>1. CASE ~u
  BY <1>1 DEF ServerOK
<1>2. CASE u
  <2>1. \A d : Quiet(qa, qg, d) => Quiet(Tail(qa), qg2, d)
    BY <1>2, TailNone, AppendNone DEF Quiet, Keeps
  <2>2. \A d, type : Pending(qa, qg, d, type) => Pending(Tail(qa), qg2, d, type)
    <3> SUFFICES ASSUME NEW d, NEW type, Pending(qa, qg, d, type)
                 PROVE  Pending(Tail(qa), qg2, d, type)
      OBVIOUS
    <3>1. CASE IsAbout(Head(qa), d)
      <4>1. One(qa, d, type) /\ None(qg, d)
        BY <3>1, TailNone DEF Pending
      <4>2. None(Tail(qa), d) /\ r.type = type
        BY <3>1, <4>1, TailOne
      <4>3. One(Append(qg, r), d, type)
        BY <3>1, <4>1, <4>2, AppendNone
      <4> QED BY <1>2, <4>2, <4>3 DEF Pending, Keeps
    <3>2. CASE ~IsAbout(Head(qa), d)
      <4>1. CASE One(qa, d, type) /\ None(qg, d)
        BY <1>2, <3>2, <4>1, TailOne, AppendNone DEF Pending, Keeps
      <4>2. CASE None(qa, d) /\ One(qg, d, type)
        BY <1>2, <3>2, <4>2, TailNone, AppendOne DEF Pending, Keeps
      <4> QED BY <4>1, <4>2 DEF Pending
    <3> QED BY <3>1, <3>2
  <2>3. \A f \in Fds : cs[f].use => u /\ ConnOK(cs[f], n, Tail(qa), qg2)
    BY <2>1, <2>2 DEF ServerOK, ConnOK, Expected
  <2> QED BY <1>2, <2>1, <2>3 DEF ServerOK
<1> QED BY <1>1, <1>2

(* An answer whose connection exists is the one that connection waits for. *)
LEMMA AnswerFits ==
  ASSUME NEW u, NEW cs, NEW n, NEW qa, NEW qg \in Seq(Reply),
         ServerOK(u, cs, n, qa, qg), qg # <<>>,
         NEW f \in Fds, cs[f].use, IsAbout(Head(qg), cs[f].fdid)
  PROVE  /\ Waits(cs[f]) /\ Waiting[cs[f].state] = Head(qg).type
         /\ cs[f].cdkey # NoKey
         /\ \A g \in Fds : cs[g].use /\ cs[g].fdid = cs[f].fdid => g = f
<1>1. ConnOK(cs[f], n, qa, qg)
  BY DEF ServerOK
<1>2. ~None(qg, cs[f].fdid)
  BY TailNone
<1>3. Waits(cs[f]) /\ One(qg, cs[f].fdid, Waiting[cs[f].state])
  BY <1>1, <1>2 DEF ConnOK, Expected, Quiet, Pending
<1>4. Waiting[cs[f].state] = Head(qg).type
  BY <1>3, TailOne
<1>5. cs[f].state # "NULLCONNECT"
  BY <1>3 DEF Waits, Waiting
<1> QED BY <1>1, <1>3, <1>4, <1>5 DEF ServerOK, ConnOK

(* The game server takes an answer and its connection waits no more. *)
LEMMA ReceiveStep ==
  ASSUME NEW u, NEW cs, NEW cs2, NEW n, NEW qa, NEW qg \in Seq(Reply),
         ServerOK(u, cs, n, qa, qg), qg # <<>>,
         \A f \in Fds : cs[f].use /\ IsAbout(Head(qg), cs[f].fdid) => ~Waits(cs2[f]),
         \A f \in Fds : ~(cs[f].use /\ IsAbout(Head(qg), cs[f].fdid)) => cs2[f] = cs[f],
         \A f \in Fds : /\ cs2[f].use = cs[f].use /\ cs2[f].fdid = cs[f].fdid
                        /\ cs2[f].cdkey = cs[f].cdkey
  PROVE  ServerOK(u, cs2, n, qa, Tail(qg))
<1>1. \A f \in Fds : cs2[f].use => u /\ ConnOK(cs2[f], n, qa, Tail(qg))
  <2> SUFFICES ASSUME NEW f \in Fds, cs[f].use
               PROVE  u /\ ConnOK(cs2[f], n, qa, Tail(qg))
    OBVIOUS
  <2>1. u /\ ConnOK(cs[f], n, qa, qg)
    BY DEF ServerOK
  <2>2. CASE IsAbout(Head(qg), cs[f].fdid)
    <3>1. Waits(cs[f]) /\ cs[f].cdkey # NoKey
      BY <2>2, AnswerFits
    <3>2. None(qa, cs[f].fdid) /\ One(qg, cs[f].fdid, Waiting[cs[f].state])
      BY <2>1, <2>2, <3>1, TailNone DEF ConnOK, Expected, Pending
    <3>3. Quiet(qa, Tail(qg), cs[f].fdid)
      BY <2>2, <3>2, TailOne DEF Quiet
    <3> QED BY <2>1, <2>2, <3>1, <3>3 DEF ConnOK, Expected
  <2>3. CASE ~IsAbout(Head(qg), cs[f].fdid)
    <3>1. cs2[f] = cs[f]
      BY <2>3
    <3>2. Expected(cs[f], qa, Tail(qg))
      BY <2>1, <2>3, TailNone, TailOne DEF ConnOK, Expected, Pending, Quiet
    <3> QED BY <2>1, <3>1, <3>2 DEF ConnOK
  <2> QED BY <2>2, <2>3
<1>2. u => \A d \in Fdid : d >= n => Quiet(qa, Tail(qg), d)
  BY TailNone DEF ServerOK, Quiet
<1>3. u
  BY DEF ServerOK
<1>4. \A f, g \in Fds : cs2[f].use /\ cs2[g].use /\ cs2[f].fdid = cs2[g].fdid => f = g
  BY DEF ServerOK
<1> QED BY <1>1, <1>2, <1>3, <1>4 DEF ServerOK

(* A connection that waits for nothing asks for something. *)
LEMMA AskStep ==
  ASSUME NEW u, NEW cs, NEW cs2, NEW n \in Nat, NEW qa \in Seq(Request), NEW qg,
         NEW m \in Request, NEW f \in Fds,
         ServerOK(u, cs, n, qa, qg), cs[f].use, ~Waits(cs[f]),
         \A d : IsAbout(m, d) <=> d = cs[f].fdid,
         Waits(cs2[f]), Waiting[cs2[f].state] = m.type, cs2[f].cdkey # NoKey,
         cs2[f].fdid = cs[f].fdid, cs2[f].use,
         \A g \in Fds : g # f => cs2[g] = cs[g]
  PROVE  ServerOK(u, cs2, n, Append(qa, m), qg)
<1>1. u /\ ConnOK(cs[f], n, qa, qg)
  BY DEF ServerOK
<1>2. Quiet(qa, qg, cs[f].fdid)
  BY <1>1 DEF ConnOK, Expected
<1>3. One(Append(qa, m), cs[f].fdid, m.type)
  BY <1>2, AppendNone DEF Quiet
<1>4. ConnOK(cs2[f], n, Append(qa, m), qg)
  BY <1>1, <1>2, <1>3 DEF ConnOK, Expected, Pending, Quiet
<1>5. ASSUME NEW g \in Fds, cs2[g].use, g # f PROVE ConnOK(cs2[g], n, Append(qa, m), qg)
  <2>1. cs2[g] = cs[g] /\ cs[g].use
    BY <1>5
  <2>2. ConnOK(cs[g], n, qa, qg) /\ cs[g].fdid # cs[f].fdid
    BY <1>5, <2>1 DEF ServerOK
  <2>3. ~IsAbout(m, cs[g].fdid)
    BY <2>2
  <2>4. Expected(cs[g], Append(qa, m), qg)
    BY <2>2, <2>3, AppendNone, AppendOne DEF ConnOK, Expected, Pending, Quiet
  <2> QED BY <2>1, <2>2, <2>4 DEF ConnOK
<1>6. \A d \in Fdid : d >= n => Quiet(Append(qa, m), qg, d)
  <2> SUFFICES ASSUME NEW d \in Fdid, d >= n PROVE Quiet(Append(qa, m), qg, d)
    OBVIOUS
  <2>1. d # cs[f].fdid
    BY <1>1 DEF ConnOK, Fdid
  <2> QED BY <1>1, <2>1, AppendNone DEF ServerOK, Quiet
<1>7. \A h, g \in Fds : cs2[h].use /\ cs2[g].use /\ cs2[h].fdid = cs2[g].fdid => h = g
  <2> SUFFICES ASSUME NEW h \in Fds, NEW g \in Fds, cs2[h].use, cs2[g].use,
                      cs2[h].fdid = cs2[g].fdid
               PROVE  h = g
    OBVIOUS
  <2>1. cs[h].use /\ cs[g].use /\ cs[h].fdid = cs[g].fdid
    OBVIOUS
  <2> QED BY <2>1 DEF ServerOK
<1> QED BY <1>1, <1>4, <1>5, <1>6, <1>7 DEF ServerOK

(* A connection in use. *)
LEMMA UsedFacts ==
  ASSUME Inv, NEW s \in Servers, NEW f \in Fds, conn[s][f].use
  PROVE  /\ conn[s][f] \in Connection /\ up[s]
         /\ conn[s][f].fdid \in Fdid
         /\ conn[s][f].state # "NULLCONNECT" => conn[s][f].cdkey \in Cdkeys
<1>1. conn[s][f] \in Connection /\ nextFdid[s] \in 1 .. MaxFdid + 1
  BY DEF Inv, TypeOK
<1>2. up[s] /\ ConnOK(conn[s][f], nextFdid[s], toSaac[s], toGs[s])
  BY DEF Inv, ServerOK
<1>3. conn[s][f].fdid \in Fdid
  BY <1>1, <1>2, LoginAssumption DEF ConnOK, Fdid
<1> QED BY <1>1, <1>2, <1>3 DEF ConnOK, Connection

(* Servers the step leaves alone, but for kicks and questions sent to them. *)
LEMMA OtherServers ==
  ASSUME Inv, NEW s \in Servers,
         \A t \in Servers \ {s} :
           /\ up'[t] = up[t] /\ conn'[t] = conn[t] /\ nextFdid'[t] = nextFdid[t]
           /\ toSaac'[t] = toSaac[t]
           /\ up[t] => Keeps(toGs[t], toGs'[t])
           /\ ~up[t] => toGs'[t] = toGs[t],
         ServerOK(up'[s], conn'[s], nextFdid'[s], toSaac'[s], toGs'[s])
  PROVE  \A t \in Servers : ServerOK(up'[t], conn'[t], nextFdid'[t], toSaac'[t], toGs'[t])
<1> SUFFICES ASSUME NEW t \in Servers, t # s
             PROVE  ServerOK(up'[t], conn'[t], nextFdid'[t], toSaac'[t], toGs'[t])
  OBVIOUS
<1>1. ServerOK(up[t], conn[t], nextFdid[t], toSaac[t], toGs[t])
  BY DEF Inv
<1>2. Follows(conn[t], conn'[t])
  BY DEF Follows
<1>3. Keeps(toSaac[t], toSaac'[t])
  BY KeepsSelf
<1>4. Keeps(toGs[t], toGs'[t])
  BY KeepsSelf
<1>5. ~up[t] => toGs'[t] = <<>>
  BY <1>1 DEF ServerOK
<1> QED BY <1>1, <1>2, <1>3, <1>4, <1>5, KeepServer

(* The initial states. *)
LEMMA InitInv == Init => Inv
<1> SUFFICES ASSUME Init PROVE Inv
  OBVIOUS
<1>1. TypeOK
  BY NoConnType, LoginAssumption DEF Init, TypeOK, LockInit, LockTypeOK, Data
<1>2. ASSUME NEW s \in Servers PROVE ServerOK(up[s], conn[s], nextFdid[s], toSaac[s], toGs[s])
  BY NoConnType, NoneEmpty DEF Init, ServerOK, Quiet
<1> QED BY <1>1, <1>2 DEF Inv

(* Connect: nothing was under way about the new fdid. *)
LEMMA ConnectInv ==
  ASSUME Inv, NEW s \in Servers, NEW f \in Fds, Connect(s, f)
  PROVE  Inv'
<1> DEFINE c == [NoConn EXCEPT !.use = TRUE, !.fdid = nextFdid[s]]
<1>1. /\ c \in Connection /\ c.use /\ c.fdid = nextFdid[s] /\ c.state = "NULLCONNECT"
      /\ nextFdid[s] \in Fdid
  <2>1. nextFdid[s] \in Fdid /\ nextFdid[s] \in 0 .. MaxFdid
    BY LoginAssumption DEF Connect, Inv, TypeOK, Fdid
  <2>2. c \in Connection
    BY <2>1, NoConnType DEF Connection
  <2> QED BY <2>1, <2>2 DEF NoConn
<1>2. conn' = SetConn(s, f, c)
  BY DEF Connect, SetConn
<1> HIDE DEF c
<1>3. TypeOK'
  <2>1. conn' \in [Servers -> [Fds -> Connection]]
    BY <1>1, <1>2, SetConnType DEF Inv, TypeOK
  <2>2. nextFdid' \in [Servers -> 1 .. MaxFdid + 1]
    BY LoginAssumption DEF Connect, Inv, TypeOK
  <2>3. client' \in [Servers -> [Fds -> {"open", "listed", "gone"}]]
    BY DEF Connect, Inv, TypeOK
  <2> QED BY <2>1, <2>2, <2>3 DEF Connect, Inv, TypeOK, saacVars, netVars, boundVars, LockTypeOK
<1>4. \A t \in Servers, g \in Fds : conn'[t][g] = IF t = s /\ g = f THEN c ELSE conn[t][g]
  BY <1>1, <1>2, SetConnType DEF Inv, TypeOK
<1>5. /\ up[s] /\ ~conn[s][f].use
      /\ up' = up /\ toSaac' = toSaac /\ toGs' = toGs
      /\ nextFdid' = [nextFdid EXCEPT ![s] = @ + 1]
      /\ nextFdid \in [Servers -> 1 .. MaxFdid + 1]
  BY DEF Connect, netVars, Inv, TypeOK
<1>6. ServerOK(up[s], conn[s], nextFdid[s], toSaac[s], toGs[s])
  BY DEF Inv
<1>7. Quiet(toSaac[s], toGs[s], nextFdid[s])
  BY <1>1, <1>5, <1>6 DEF ServerOK, Fdid
<1>8. ServerOK(up[s], conn'[s], nextFdid[s] + 1, toSaac[s], toGs[s])
  <2>1. ConnOK(c, nextFdid[s] + 1, toSaac[s], toGs[s])
    BY <1>1, <1>7 DEF ConnOK, Expected, Waits, Waiting, Fdid
  <2>2. ASSUME NEW g \in Fds, g # f, conn[s][g].use
        PROVE  /\ ConnOK(conn[s][g], nextFdid[s] + 1, toSaac[s], toGs[s])
               /\ conn[s][g].fdid # c.fdid
    BY <1>1, <1>6, <2>2 DEF ServerOK, ConnOK, Fdid
  <2>3. \A d \in Fdid : d >= nextFdid[s] + 1 => Quiet(toSaac[s], toGs[s], d)
    BY <1>1, <1>5, <1>6 DEF ServerOK, Fdid
  <2> QED BY <1>4, <1>5, <1>6, <2>1, <2>2, <2>3 DEF ServerOK
<1>9. \A t \in Servers \ {s} : conn'[t] = conn[t] /\ nextFdid'[t] = nextFdid[t]
  BY <1>2, <1>5 DEF SetConn, Inv, TypeOK
<1>10. \A t \in Servers : ServerOK(up'[t], conn'[t], nextFdid'[t], toSaac'[t], toGs'[t])
  BY <1>5, <1>8, <1>9, KeepsSelf, OtherServers
<1> QED BY <1>3, <1>10 DEF Inv

(* Appending as concatenation. *)
LEMMA ConcatOne ==
  ASSUME NEW S, NEW q \in Seq(S), NEW m \in S
  PROVE  q \o <<m>> = Append(q, m)
  OBVIOUS

(* The state of one server. *)
LEMMA QueueTypes ==
  ASSUME Inv, NEW s \in Servers
  PROVE  /\ toSaac[s] \in Seq(Request) /\ toGs[s] \in Seq(Reply)
         /\ \A q \in Seq(Request) : [toSaac EXCEPT ![s] = q] \in [Servers -> Seq(Request)]
         /\ \A q \in Seq(Reply) : [toGs EXCEPT ![s] = q] \in [Servers -> Seq(Reply)]
         /\ conn \in [Servers -> [Fds -> Connection]]
         /\ nextFdid[s] \in Nat
         /\ ServerOK(up[s], conn[s], nextFdid[s], toSaac[s], toGs[s])
  BY LoginAssumption DEF Inv, TypeOK

(* One server acts; what it does to its connections and queues is fine.     *)
LEMMA GsStep ==
  ASSUME Inv, NEW s \in Servers, NEW cs \in [Fds -> Connection],
         NEW qa \in Seq(Request), NEW qg \in Seq(Reply),
         UNCHANGED <<lock, registered, file, up, nextFdid, crashes>>,
         edits' \in 0 .. MaxEdits,
         client' \in [Servers -> [Fds -> {"open", "listed", "gone"}]],
         conn' = [conn EXCEPT ![s] = cs],
         toSaac' = [toSaac EXCEPT ![s] = qa],
         toGs' = [toGs EXCEPT ![s] = qg],
         ServerOK(up[s], cs, nextFdid[s], qa, qg)
  PROVE  Inv'
<1>1. TypeOK'
  BY DEF Inv, TypeOK, LockTypeOK
<1>2. /\ up' = up /\ nextFdid' = nextFdid
      /\ conn'[s] = cs /\ toSaac'[s] = qa /\ toGs'[s] = qg
      /\ \A t \in Servers \ {s} :
           conn'[t] = conn[t] /\ toSaac'[t] = toSaac[t] /\ toGs'[t] = toGs[t]
  BY DEF Inv, TypeOK
<1>3. \A t \in Servers : ServerOK(up'[t], conn'[t], nextFdid'[t], toSaac'[t], toGs'[t])
  BY <1>2, KeepsSelf, OtherServers
<1> QED BY <1>1, <1>3 DEF Inv

(* A server whose variable does not change. *)
LEMMA Unchanged1 ==
  ASSUME Inv, NEW s \in Servers
  PROVE  /\ conn = [conn EXCEPT ![s] = conn[s]]
         /\ toSaac = [toSaac EXCEPT ![s] = toSaac[s]]
         /\ toGs = [toGs EXCEPT ![s] = toGs[s]]
         /\ edits \in 0 .. MaxEdits
         /\ client \in [Servers -> [Fds -> {"open", "listed", "gone"}]]
         /\ \A f \in Fds, v \in {"open", "listed", "gone"} :
              [client EXCEPT ![s][f] = v] \in [Servers -> [Fds -> {"open", "listed", "gone"}]]
  BY DEF Inv, TypeOK

(* Replacing one connection, seen from the server. *)
LEMMA SetOne ==
  ASSUME Inv, NEW s \in Servers, NEW f \in Fds, NEW c \in Connection
  PROVE  /\ [conn EXCEPT ![s][f] = c] = [conn EXCEPT ![s] = [conn[s] EXCEPT ![f] = c]]
         /\ [conn[s] EXCEPT ![f] = c] \in [Fds -> Connection]
         /\ [conn[s] EXCEPT ![f] = c][f] = c
         /\ \A g \in Fds : g # f => [conn[s] EXCEPT ![f] = c][g] = conn[s][g]
  BY DEF Inv, TypeOK

(* Forward: the connection starts to wait for what it asked. *)
LEMMA ForwardInv ==
  ASSUME Inv, NEW s \in Servers, NEW f \in Fds, NEW from \in {"NOTLOGIN"},
         NEW to \in DOMAIN Waiting, NEW type \in LineTypes, Waiting[to] = type,
         Forward(s, f, from, to, type),
         UNCHANGED <<saacVars, up, nextFdid, client, toGs, boundVars>>
  PROVE  Inv'
<1> DEFINE c == [conn[s][f] EXCEPT !.state = to]
           cs == [conn[s] EXCEPT ![f] = c]
           m == Ask(type, s, f)
<1>1. conn[s][f].use /\ conn[s][f].state = "NOTLOGIN"
  BY DEF Forward
<1>2. conn[s][f] \in Connection /\ conn[s][f].fdid \in Fdid /\ conn[s][f].cdkey \in Cdkeys
  BY <1>1, UsedFacts
<1>3. /\ c \in Connection /\ c.state = to /\ c.use = conn[s][f].use
      /\ c.cdkey = conn[s][f].cdkey /\ c.fdid = conn[s][f].fdid
  BY <1>2, SetState DEF State
<1>4. conn' = [conn EXCEPT ![s][f] = c] /\ toSaac' = [toSaac EXCEPT ![s] = Append(toSaac[s], m)]
  BY DEF Forward, Inv, TypeOK
<1>5. m \in Request /\ m.type = type /\ \A d : IsAbout(m, d) <=> d = conn[s][f].fdid
  BY <1>2, AskLine
<1> HIDE DEF c, m
<1>6. /\ conn' = [conn EXCEPT ![s] = cs] /\ cs \in [Fds -> Connection]
      /\ cs[f] = c /\ \A g \in Fds : g # f => cs[g] = conn[s][g]
  BY <1>3, <1>4, SetOne
<1> HIDE DEF cs
<1>7. ServerOK(up[s], cs, nextFdid[s], Append(toSaac[s], m), toGs[s])
  <2>1. ~Waits(conn[s][f]) /\ Waits(c) /\ c.cdkey # NoKey
    BY <1>1, <1>2, <1>3, LoginAssumption DEF Waits, Waiting
  <2>2. /\ toSaac[s] \in Seq(Request) /\ nextFdid[s] \in Nat
        /\ ServerOK(up[s], conn[s], nextFdid[s], toSaac[s], toGs[s])
    BY QueueTypes
  <2>3. /\ Waits(cs[f]) /\ Waiting[cs[f].state] = m.type /\ cs[f].cdkey # NoKey
        /\ cs[f].fdid = conn[s][f].fdid /\ cs[f].use
    BY <2>1, <1>1, <1>3, <1>5, <1>6
  <2> QED BY <2>1, <2>2, <2>3, <1>1, <1>5, <1>6, AskStep, ZenonT(30)
<1>8. Append(toSaac[s], m) \in Seq(Request)
  BY <1>5, QueueTypes
<1>9. UNCHANGED <<lock, registered, file, up, nextFdid, edits, crashes, client, toGs>>
  BY DEF saacVars, boundVars
<1>10. /\ edits' \in 0 .. MaxEdits
       /\ client' \in [Servers -> [Fds -> {"open", "listed", "gone"}]]
       /\ toGs' = [toGs EXCEPT ![s] = toGs[s]] /\ toGs[s] \in Seq(Reply)
  BY <1>9, QueueTypes, Unchanged1
<1> QED BY <1>4, <1>6, <1>7, <1>8, <1>9, <1>10, GsStep

(* ClientLogin_recv. *)
LEMMA ClientLoginInv ==
  ASSUME Inv, NEW s \in Servers, NEW f \in Fds, NEW k \in Cdkeys, ClientLogin_recv(s, f, k)
  PROVE  Inv'
<1> DEFINE c == [conn[s][f] EXCEPT !.state = "WHILEAUTH", !.cdkey = k]
           cs == [conn[s] EXCEPT ![f] = c]
           m == [type |-> "CharLogin", cdkey |-> k, fdid |-> conn[s][f].fdid]
<1>1. conn[s][f].use /\ conn[s][f].state = "NULLCONNECT"
  BY DEF ClientLogin_recv
<1>2. conn[s][f] \in Connection /\ conn[s][f].fdid \in Fdid
  BY <1>1, UsedFacts
<1>3. /\ c \in Connection /\ c.state = "WHILEAUTH" /\ c.use = conn[s][f].use
      /\ c.cdkey = k /\ c.fdid = conn[s][f].fdid
  BY <1>2 DEF Connection, State, Waiting
<1>4. conn' = [conn EXCEPT ![s][f] = c] /\ toSaac' = [toSaac EXCEPT ![s] = Append(toSaac[s], m)]
  BY DEF ClientLogin_recv, Inv, TypeOK
<1>5. m \in Request /\ m.type = "CharLogin" /\ \A d : IsAbout(m, d) <=> d = conn[s][f].fdid
  BY <1>2 DEF Request, IsAbout
<1> HIDE DEF c, m
<1>6. /\ conn' = [conn EXCEPT ![s] = cs] /\ cs \in [Fds -> Connection]
      /\ cs[f] = c /\ \A g \in Fds : g # f => cs[g] = conn[s][g]
  BY <1>3, <1>4, SetOne
<1> HIDE DEF cs
<1>7. ServerOK(up[s], cs, nextFdid[s], Append(toSaac[s], m), toGs[s])
  <2>1. ~Waits(conn[s][f]) /\ Waits(c) /\ c.cdkey # NoKey /\ Waiting[c.state] = "CharLogin"
    BY <1>1, <1>3, LoginAssumption DEF Waits, Waiting
  <2>2. /\ toSaac[s] \in Seq(Request) /\ nextFdid[s] \in Nat
        /\ ServerOK(up[s], conn[s], nextFdid[s], toSaac[s], toGs[s])
    BY QueueTypes
  <2>3. /\ Waits(cs[f]) /\ Waiting[cs[f].state] = m.type /\ cs[f].cdkey # NoKey
        /\ cs[f].fdid = conn[s][f].fdid /\ cs[f].use
    BY <2>1, <1>1, <1>3, <1>5, <1>6
  <2> QED BY <2>1, <2>2, <2>3, <1>1, <1>5, <1>6, AskStep, ZenonT(30)
<1>8. Append(toSaac[s], m) \in Seq(Request)
  BY <1>5, QueueTypes
<1>9. UNCHANGED <<lock, registered, file, up, nextFdid, edits, crashes, client, toGs>>
  BY DEF ClientLogin_recv, saacVars, boundVars
<1>10. /\ edits' \in 0 .. MaxEdits
       /\ client' \in [Servers -> [Fds -> {"open", "listed", "gone"}]]
       /\ toGs' = [toGs EXCEPT ![s] = toGs[s]] /\ toGs[s] \in Seq(Reply)
  BY <1>9, QueueTypes, Unchanged1
<1> QED BY <1>4, <1>6, <1>7, <1>8, <1>9, <1>10, GsStep

(* Actions of one server that leave its states and requests as they are.   *)
LEMMA GsQuietStep ==
  ASSUME Inv, NEW s \in Servers, NEW cs \in [Fds -> Connection],
         NEW qa \in Seq(Request), NEW qg \in Seq(Reply),
         UNCHANGED <<lock, registered, file, up, nextFdid, crashes>>,
         edits' \in 0 .. MaxEdits,
         client' \in [Servers -> [Fds -> {"open", "listed", "gone"}]],
         conn' = [conn EXCEPT ![s] = cs],
         toSaac' = [toSaac EXCEPT ![s] = qa],
         toGs' = [toGs EXCEPT ![s] = qg],
         up[s], Follows(conn[s], cs), Keeps(toSaac[s], qa), Keeps(toGs[s], qg)
  PROVE  Inv'
<1>1. ServerOK(up[s], conn[s], nextFdid[s], toSaac[s], toGs[s])
  BY QueueTypes
<1>2. ServerOK(up[s], cs, nextFdid[s], qa, qg)
  BY <1>1, KeepServer
<1> QED BY <1>2, GsStep

(* What a connection sends when it ends is about no connection. *)
LEMMA EndOneLines ==
  ASSUME Inv, NEW s \in Servers, NEW f \in Fds, conn[s][f].use
  PROVE  /\ toSaac[s] \o EndOneSends(s, f) \in Seq(Request)
         /\ Keeps(toSaac[s], toSaac[s] \o EndOneSends(s, f))
<1>1. toSaac[s] \in Seq(Request)
  BY QueueTypes
<1>2. CASE LoggedIn(s, f)
  <2> DEFINE m == Save(s, f, TRUE)
  <2>1. m \in Request /\ \A d : ~IsAbout(m, d)
    BY <1>2, UsedFacts, SaveLine DEF LoggedIn
  <2>2. EndOneSends(s, f) = <<m>>
    BY <1>2 DEF EndOneSends
  <2> HIDE DEF m
  <2>3. toSaac[s] \o <<m>> = Append(toSaac[s], m) /\ Append(toSaac[s], m) \in Seq(Request)
    BY <1>1, <2>1, ConcatOne
  <2>4. Keeps(toSaac[s], Append(toSaac[s], m))
    BY <1>1, <2>1, KeepsAppend
  <2> QED BY <2>2, <2>3, <2>4
<1>3. CASE ~LoggedIn(s, f)
  <2>1. toSaac[s] \o EndOneSends(s, f) = toSaac[s]
    BY <1>1, <1>3 DEF EndOneSends
  <2> QED BY <1>1, <2>1, KeepsSelf
<1> QED BY <1>2, <1>3

(* EndOne: the lines still under way about the connection stay, without an owner. *)
LEMMA EndOneInv ==
  ASSUME Inv, NEW s \in Servers, NEW f \in Fds, EndOne(s, f)
  PROVE  Inv'
<1> DEFINE cs == [conn[s] EXCEPT ![f] = NoConn]
           qa == toSaac[s] \o EndOneSends(s, f)
<1>1. /\ UNCHANGED <<lock, registered, file, up, nextFdid, edits, crashes, toGs>>
      /\ conn[s][f].use /\ up[s]
      /\ conn' = [conn EXCEPT ![s][f] = NoConn]
      /\ client' = [client EXCEPT ![s][f] = "gone"]
      /\ toSaac' = [toSaac EXCEPT ![s] = qa]
  BY DEF EndOne, saacVars, boundVars, Inv, TypeOK
<1>2. qa \in Seq(Request) /\ Keeps(toSaac[s], qa)
  BY <1>1, EndOneLines
<1>3. conn' = [conn EXCEPT ![s] = cs] /\ cs \in [Fds -> Connection] /\ Follows(conn[s], cs)
  BY <1>1, SetOne, NoConnType DEF Follows
<1>4. /\ edits' \in 0 .. MaxEdits
      /\ client' \in [Servers -> [Fds -> {"open", "listed", "gone"}]]
      /\ toGs' = [toGs EXCEPT ![s] = toGs[s]] /\ toGs[s] \in Seq(Reply)
      /\ Keeps(toGs[s], toGs[s])
  BY <1>1, QueueTypes, Unchanged1, KeepsSelf
<1> HIDE DEF cs, qa
<1> QED BY <1>1, <1>2, <1>3, <1>4, GsQuietStep

(* CharList_recv: the other local character ends first. *)
LEMMA CharListInv ==
  ASSUME Inv, NEW s \in Servers, NEW f \in Fds, CharList_recv(s, f)
  PROVE  Inv'
<1>1. CASE /\ Forward(s, f, "NOTLOGIN", "WHILEDOWNLOADCHARLIST", "CharList")
           /\ UNCHANGED <<saacVars, up, nextFdid, client, toGs, boundVars>>
  <2>1. /\ "WHILEDOWNLOADCHARLIST" \in DOMAIN Waiting /\ "CharList" \in LineTypes
        /\ Waiting["WHILEDOWNLOADCHARLIST"] = "CharList"
    BY DEF Waiting, LineTypes
  <2> QED BY <1>1, <2>1, ForwardInv
<1>2. ASSUME NEW g \in Fds, LoggedIn(s, g), conn[s][f].use, conn[s][f].state = "NOTLOGIN",
             conn' = [conn EXCEPT ![s][f].state = "WHILEDOWNLOADCHARLIST", ![s][g] = NoConn],
             client' = [client EXCEPT ![s][g] = "gone"],
             toSaac' = [toSaac EXCEPT ![s] =
                          @ \o EndOneSends(s, g) \o <<Ask("CharList", s, f)>>],
             UNCHANGED <<saacVars, up, nextFdid, toGs, boundVars>>
      PROVE  Inv'
  <2> DEFINE c == [conn[s][f] EXCEPT !.state = "WHILEDOWNLOADCHARLIST"]
             mid == [conn[s] EXCEPT ![g] = NoConn]
             cs == [mid EXCEPT ![f] = c]
             qa == toSaac[s] \o EndOneSends(s, g)
             m == Ask("CharList", s, f)
  <2>0. conn[s][f].use /\ conn[s][f].state = "NOTLOGIN"
    BY <1>2
  <2>1. conn[s][f] \in Connection /\ conn[s][f].fdid \in Fdid /\ conn[s][f].cdkey \in Cdkeys
    BY <2>0, UsedFacts
  <2>2. /\ c \in Connection /\ c.state = "WHILEDOWNLOADCHARLIST" /\ c.use = conn[s][f].use
        /\ c.cdkey = conn[s][f].cdkey /\ c.fdid = conn[s][f].fdid
    BY <2>1, SetState DEF State, Waiting
  <2>3. m \in Request /\ m.type = "CharList" /\ \A d : IsAbout(m, d) <=> d = conn[s][f].fdid
    BY <2>1, AskLine DEF LineTypes
  <2>4. f # g
    BY <1>2 DEF LoggedIn
  <2>5. qa \in Seq(Request) /\ Keeps(toSaac[s], qa)
    BY <1>2, EndOneLines DEF LoggedIn
  <2>6. toSaac' = [toSaac EXCEPT ![s] = Append(qa, m)]
    BY <1>2, <2>3, <2>5, ConcatOne, ZenonT(30) DEF Inv, TypeOK
  <2>7. conn' = [conn EXCEPT ![s] = cs]
    <3>1. conn' = [SetConn(s, f, c) EXCEPT ![s][g] = NoConn]
      BY <1>2 DEF Inv, TypeOK, SetConn
    <3> DEFINE one == [conn[s] EXCEPT ![f] = c]
               two == [one EXCEPT ![g] = NoConn]
    <3> HIDE DEF c
    <3>2. conn' = [conn EXCEPT ![s] = two]
      BY <2>2, <3>1, SetOne DEF SetConn, Inv, TypeOK
    <3>3. two = cs
      BY <2>4, <2>2 DEF Inv, TypeOK
    <3> QED BY <3>2, <3>3
  <2>8. mid \in [Fds -> Connection] /\ mid[f] = conn[s][f] /\ Follows(conn[s], mid)
    BY <2>4, SetOne, NoConnType DEF Follows
  <2> HIDE DEF mid, c, m, qa
  <2>9. cs \in [Fds -> Connection] /\ cs[f] = c /\ \A h \in Fds : h # f => cs[h] = mid[h]
    BY <2>2, <2>8
  <2> HIDE DEF cs
  <2>10. ServerOK(up[s], mid, nextFdid[s], qa, toGs[s])
    <3>1. ServerOK(up[s], conn[s], nextFdid[s], toSaac[s], toGs[s]) /\ Keeps(toGs[s], toGs[s])
      BY QueueTypes, KeepsSelf
    <3>2. ~up[s] => toGs[s] = <<>>
      BY <3>1 DEF ServerOK
    <3> QED BY <3>1, <3>2, <2>5, <2>8, KeepServer
  <2>11. ServerOK(up[s], cs, nextFdid[s], Append(qa, m), toGs[s])
    <3>1. /\ Waits(cs[f]) /\ Waiting[cs[f].state] = m.type /\ cs[f].cdkey # NoKey
          /\ cs[f].fdid = mid[f].fdid /\ cs[f].use
      <4>1. Waits(c) /\ Waiting[c.state] = "CharList" /\ c.cdkey # NoKey /\ c.use
        BY <2>0, <2>1, <2>2, LoginAssumption DEF Waits, Waiting
      <4> QED BY <2>2, <2>3, <2>8, <2>9, <4>1
    <3>2. mid[f].use /\ ~Waits(mid[f]) /\ \A d : IsAbout(m, d) <=> d = mid[f].fdid
      BY <2>0, <2>3, <2>8 DEF Waits, Waiting
    <3>3. nextFdid[s] \in Nat
      BY QueueTypes
    <3> QED BY <3>1, <3>2, <3>3, <2>3, <2>5, <2>9, <2>10, AskStep, SMTT(30)
  <2>12. UNCHANGED <<lock, registered, file, up, nextFdid, crashes, edits, toGs>>
    BY <1>2 DEF saacVars, boundVars
  <2>13. /\ edits' \in 0 .. MaxEdits
         /\ client' \in [Servers -> [Fds -> {"open", "listed", "gone"}]]
         /\ toGs' = [toGs EXCEPT ![s] = toGs[s]] /\ toGs[s] \in Seq(Reply)
    BY <1>2, <2>12, QueueTypes, Unchanged1
  <2>14. Append(qa, m) \in Seq(Request)
    BY <2>3, <2>5
  <2> QED BY <2>6, <2>7, <2>9, <2>11, <2>12, <2>13, <2>14, GsStep
<1> QED BY <1>1, <1>2 DEF CharList_recv

(* CharLogin_recv. *)
LEMMA CharLoginInv ==
  ASSUME Inv, NEW s \in Servers, NEW f \in Fds, CharLogin_recv(s, f)
  PROVE  Inv'
<1>1. /\ "WHILELOGIN" \in DOMAIN Waiting /\ "CharLoad" \in LineTypes
      /\ Waiting["WHILELOGIN"] = "CharLoad"
  BY DEF Waiting, LineTypes
<1> QED BY <1>1, ForwardInv DEF CharLogin_recv

(* Edit. *)
LEMMA EditInv ==
  ASSUME Inv, NEW s \in Servers, NEW f \in Fds, Edit(s, f)
  PROVE  Inv'
<1> DEFINE d == conn[s][f].char \union {edits + 1}
           c == [conn[s][f] EXCEPT !.char = d]
           cs == [conn[s] EXCEPT ![f] = c]
<1>1. conn[s][f] \in Connection /\ up[s] /\ edits' \in 0 .. MaxEdits /\ edits + 1 \in 1 .. MaxEdits
  BY LoginAssumption DEF Edit, Inv, TypeOK
<1>2. d \in Data
  BY <1>1 DEF Data, Connection
<1> HIDE DEF d
<1>3. /\ c \in Connection /\ c.use = conn[s][f].use /\ c.state = conn[s][f].state
      /\ c.cdkey = conn[s][f].cdkey /\ c.fdid = conn[s][f].fdid
  BY <1>1, <1>2 DEF Connection
<1>4. conn' = [conn EXCEPT ![s][f] = c]
  BY DEF Edit, Inv, TypeOK, d
<1> HIDE DEF c
<1>5. conn' = [conn EXCEPT ![s] = cs] /\ cs \in [Fds -> Connection] /\ Follows(conn[s], cs)
  BY <1>3, <1>4, SetOne DEF Follows
<1>6. UNCHANGED <<lock, registered, file, up, nextFdid, crashes, client, toSaac, toGs>>
  BY DEF Edit, saacVars, netVars
<1>7. /\ client' \in [Servers -> [Fds -> {"open", "listed", "gone"}]]
      /\ toGs' = [toGs EXCEPT ![s] = toGs[s]] /\ toGs[s] \in Seq(Reply)
      /\ toSaac' = [toSaac EXCEPT ![s] = toSaac[s]] /\ toSaac[s] \in Seq(Request)
      /\ Keeps(toGs[s], toGs[s]) /\ Keeps(toSaac[s], toSaac[s])
  BY <1>6, QueueTypes, Unchanged1, KeepsSelf
<1> HIDE DEF cs
<1> QED BY <1>1, <1>5, <1>6, <1>7, GsQuietStep

(* ClientLeaves. *)
LEMMA ClientLeavesInv ==
  ASSUME Inv, NEW s \in Servers, NEW f \in Fds, ClientLeaves(s, f)
  PROVE  Inv'
<1>1. UNCHANGED <<lock, registered, file, up, conn, nextFdid, toSaac, toGs, edits, crashes>>
  BY DEF ClientLeaves, saacVars, gsVars, netVars, boundVars
<1>2. client' \in [Servers -> [Fds -> {"open", "listed", "gone"}]]
  BY Unchanged1 DEF ClientLeaves
<1> QED BY <1>1, <1>2 DEF Inv, TypeOK, LockTypeOK

(* PeriodicSave. *)
LEMMA PeriodicSaveInv ==
  ASSUME Inv, NEW s \in Servers, NEW f \in Fds, PeriodicSave(s, f)
  PROVE  Inv'
<1> DEFINE m == Save(s, f, FALSE)
           qa == Append(toSaac[s], m)
<1>1. UNCHANGED <<lock, registered, file, up, conn, nextFdid, client, toGs, edits, crashes>>
  BY DEF PeriodicSave, saacVars, gsVars, boundVars
<1>2. up[s] /\ LoggedIn(s, f) /\ toSaac' = [toSaac EXCEPT ![s] = qa]
  BY DEF PeriodicSave, MaySend, Inv, TypeOK
<1>3. m \in Request /\ \A d : ~IsAbout(m, d)
  BY <1>2, UsedFacts, SaveLine DEF LoggedIn
<1> HIDE DEF m
<1>4. qa \in Seq(Request) /\ Keeps(toSaac[s], qa)
  BY <1>3, QueueTypes, KeepsAppend
<1>5. /\ edits' \in 0 .. MaxEdits
      /\ client' \in [Servers -> [Fds -> {"open", "listed", "gone"}]]
      /\ toGs' = [toGs EXCEPT ![s] = toGs[s]] /\ toGs[s] \in Seq(Reply)
      /\ conn' = [conn EXCEPT ![s] = conn[s]] /\ conn[s] \in [Fds -> Connection]
      /\ Keeps(toGs[s], toGs[s])
  BY <1>1, QueueTypes, Unchanged1, KeepsSelf
<1>6. Follows(conn[s], conn[s])
  BY DEF Follows
<1> HIDE DEF qa
<1> QED BY <1>1, <1>2, <1>4, <1>5, <1>6, GsQuietStep

(* The line a game server handles. *)
LEMMA ReceiveFacts ==
  ASSUME Inv, NEW s \in Servers, NEW type, Receive(s, type)
  PROVE  /\ up[s] /\ toGs[s] # <<>> /\ Line(s) \in Reply /\ Line(s).type = type
         /\ toGs' = [toGs EXCEPT ![s] = Tail(toGs[s])] /\ Tail(toGs[s]) \in Seq(Reply)
  BY QueueTypes DEF Receive, Line, Inv, TypeOK

(* The owner of an answer is the connection that waits for it.             *)
LEMMA OwnerFacts ==
  ASSUME Inv, NEW s \in Servers, NEW type \in LineTypes, Receive(s, type),
         NEW f \in Owner(s, Line(s).fdid)
  PROVE  /\ f \in Fds /\ conn[s][f].use
         /\ conn[s][f] \in Connection
         /\ conn[s][f].fdid \in Fdid /\ conn[s][f].cdkey \in Cdkeys
         /\ Waits(conn[s][f]) /\ Waiting[conn[s][f].state] = type
         /\ Owner(s, Line(s).fdid) = {f}
<1>1. f \in Fds /\ conn[s][f].use /\ conn[s][f].fdid = Line(s).fdid
  BY DEF Owner
<1>2. Line(s).type = type /\ toGs[s] # <<>>
  BY ReceiveFacts
<1>3. IsAbout(Head(toGs[s]), conn[s][f].fdid)
  BY <1>1, <1>2 DEF IsAbout, LineTypes, Line
<1>4. /\ toGs[s] \in Seq(Reply)
      /\ ServerOK(up[s], conn[s], nextFdid[s], toSaac[s], toGs[s])
  BY QueueTypes
<1>5. /\ Waits(conn[s][f]) /\ Waiting[conn[s][f].state] = Head(toGs[s]).type
      /\ \A g \in Fds : conn[s][g].use /\ conn[s][g].fdid = conn[s][f].fdid => g = f
  BY <1>1, <1>2, <1>3, <1>4, AnswerFits
<1>6. conn[s][f].state # "NULLCONNECT"
  BY <1>5 DEF Waits, Waiting
<1> QED BY <1>1, <1>2, <1>5, <1>6, UsedFacts DEF Line, Owner

(* ReceiveStep for the state of server s. *)
LEMMA ReceiveServer ==
  ASSUME Inv, NEW s \in Servers, NEW type \in LineTypes, Receive(s, type), NEW cs,
         \A f \in Owner(s, Line(s).fdid) : ~Waits(cs[f]),
         \A f \in Fds \ Owner(s, Line(s).fdid) : cs[f] = conn[s][f],
         \A f \in Fds : /\ cs[f].use = conn[s][f].use /\ cs[f].fdid = conn[s][f].fdid
                        /\ cs[f].cdkey = conn[s][f].cdkey
  PROVE  ServerOK(up[s], cs, nextFdid[s], toSaac[s], Tail(toGs[s]))
<1>1. toGs[s] # <<>> /\ Line(s).type = type
  BY ReceiveFacts
<1>2. /\ toGs[s] \in Seq(Reply)
      /\ ServerOK(up[s], conn[s], nextFdid[s], toSaac[s], toGs[s])
  BY QueueTypes
<1>3. \A f \in Fds : conn[s][f].use /\ IsAbout(Head(toGs[s]), conn[s][f].fdid)
                       <=> f \in Owner(s, Line(s).fdid)
  BY <1>1 DEF IsAbout, LineTypes, Line, Owner
<1>4. /\ \A f \in Fds : conn[s][f].use /\ IsAbout(Head(toGs[s]), conn[s][f].fdid)
                          => ~Waits(cs[f])
      /\ \A f \in Fds : ~(conn[s][f].use /\ IsAbout(Head(toGs[s]), conn[s][f].fdid))
                          => cs[f] = conn[s][f]
  BY <1>3
<1> QED BY <1>1, <1>2, <1>4, ReceiveStep

(* SaacClient_ACCharLogin_recv: the state it looks at is the one it finds. *)
LEMMA ACCharLoginInv ==
  ASSUME Inv, NEW s \in Servers, SaacClient_ACCharLogin_recv(s)
  PROVE  Inv'
<1> DEFINE st == IF Line(s).ok THEN "NOTLOGIN" ELSE "NULLCONNECT"
           cs == [f \in Fds |-> IF f \in Owner(s, Line(s).fdid) /\ conn[s][f].state = "WHILEAUTH"
                                  THEN [conn[s][f] EXCEPT !.state = st] ELSE conn[s][f]]
<1>1. /\ Receive(s, "CharLogin") /\ "CharLogin" \in LineTypes
      /\ conn' = [conn EXCEPT ![s] = cs]
      /\ UNCHANGED <<lock, registered, file, up, nextFdid, client, toSaac, edits, crashes>>
  BY DEF SaacClient_ACCharLogin_recv, LineTypes, saacVars, boundVars
<1>2. st \in {"NOTLOGIN", "NULLCONNECT"} /\ st \in State
  BY DEF State
<1> HIDE DEF st
<1>3. ASSUME NEW f \in Fds
      PROVE  /\ cs[f] \in Connection
             /\ cs[f].use = conn[s][f].use /\ cs[f].fdid = conn[s][f].fdid
             /\ cs[f].cdkey = conn[s][f].cdkey
  <2>1. conn[s][f] \in Connection
    BY DEF Inv, TypeOK
  <2> QED BY <1>2, <2>1, SetState
<1>4. ASSUME NEW f \in Owner(s, Line(s).fdid) PROVE ~Waits(cs[f])
  <2>1. /\ f \in Fds /\ conn[s][f] \in Connection /\ Waits(conn[s][f])
        /\ Waiting[conn[s][f].state] = "CharLogin"
    BY <1>1, OwnerFacts
  <2>2. conn[s][f].state = "WHILEAUTH"
    BY <2>1 DEF Waits, Waiting
  <2>3. cs[f].state = st
    BY <1>2, <2>1, <2>2, SetState
  <2> QED BY <1>2, <2>3 DEF Waits, Waiting
<1>5. \A f \in Fds \ Owner(s, Line(s).fdid) : cs[f] = conn[s][f]
  OBVIOUS
<1>6. cs \in [Fds -> Connection]
  BY <1>3
<1> HIDE DEF cs
<1>7. ServerOK(up[s], cs, nextFdid[s], toSaac[s], Tail(toGs[s]))
  BY <1>1, <1>3, <1>4, <1>5, ReceiveServer
<1>8. /\ toGs' = [toGs EXCEPT ![s] = Tail(toGs[s])] /\ Tail(toGs[s]) \in Seq(Reply)
      /\ toSaac' = [toSaac EXCEPT ![s] = toSaac[s]] /\ toSaac[s] \in Seq(Request)
      /\ edits' \in 0 .. MaxEdits
      /\ client' \in [Servers -> [Fds -> {"open", "listed", "gone"}]]
  BY <1>1, ReceiveFacts, QueueTypes, Unchanged1
<1> QED BY <1>1, <1>6, <1>7, <1>8, GsStep

(* SaacClient_ACCharList_recv, which looks at no state. *)
LEMMA ACCharListInv ==
  ASSUME Inv, NEW s \in Servers, SaacClient_ACCharList_recv(s)
  PROVE  Inv'
<1> DEFINE cs == [f \in Fds |-> IF f \in Owner(s, Line(s).fdid)
                                  THEN [conn[s][f] EXCEPT !.state = "NOTLOGIN"] ELSE conn[s][f]]
           cl == [f \in Fds |-> IF f \in Owner(s, Line(s).fdid) /\ client[s][f] # "gone"
                    THEN IF Line(s).ok /\ Polite THEN "listed" ELSE "open" ELSE client[s][f]]
<1>1. /\ Receive(s, "CharList") /\ "CharList" \in LineTypes
      /\ conn' = [conn EXCEPT ![s] = cs] /\ client' = [client EXCEPT ![s] = cl]
      /\ UNCHANGED <<lock, registered, file, up, nextFdid, toSaac, edits, crashes>>
  BY DEF SaacClient_ACCharList_recv, LineTypes, saacVars, boundVars
<1>2. cl \in [Fds -> {"open", "listed", "gone"}]
  BY DEF Inv, TypeOK
<1>3. client' \in [Servers -> [Fds -> {"open", "listed", "gone"}]]
  <2> HIDE DEF cl
  <2> QED BY <1>1, <1>2 DEF Inv, TypeOK
<1>4. ASSUME NEW f \in Fds
      PROVE  /\ cs[f] \in Connection
             /\ cs[f].use = conn[s][f].use /\ cs[f].fdid = conn[s][f].fdid
             /\ cs[f].cdkey = conn[s][f].cdkey
             /\ f \in Owner(s, Line(s).fdid) => ~Waits(cs[f])
  <2>1. conn[s][f] \in Connection /\ "NOTLOGIN" \in State
    BY DEF Inv, TypeOK, State
  <2> QED BY <2>1, SetState DEF Waits, Waiting
<1>5. \A f \in Fds \ Owner(s, Line(s).fdid) : cs[f] = conn[s][f]
  OBVIOUS
<1>6. cs \in [Fds -> Connection]
  BY <1>4
<1> HIDE DEF cs, cl
<1>7. \A f \in Owner(s, Line(s).fdid) : ~Waits(cs[f])
  BY <1>4 DEF Owner
<1>8. ServerOK(up[s], cs, nextFdid[s], toSaac[s], Tail(toGs[s]))
  BY <1>1, <1>4, <1>5, <1>7, ReceiveServer
<1>9. /\ toGs' = [toGs EXCEPT ![s] = Tail(toGs[s])] /\ Tail(toGs[s]) \in Seq(Reply)
      /\ toSaac' = [toSaac EXCEPT ![s] = toSaac[s]] /\ toSaac[s] \in Seq(Request)
      /\ edits' \in 0 .. MaxEdits
  BY <1>1, ReceiveFacts, QueueTypes, Unchanged1
<1> QED BY <1>1, <1>3, <1>6, <1>8, <1>9, GsStep

(* The owner f of the answer goes on with a connection that does not wait. *)
LEMMA SettleServer ==
  ASSUME Inv, NEW s \in Servers, NEW type \in LineTypes, Receive(s, type),
         NEW f \in Owner(s, Line(s).fdid), NEW c \in Connection,
         ~Waits(c), c.use = conn[s][f].use, c.fdid = conn[s][f].fdid,
         c.cdkey = conn[s][f].cdkey
  PROVE  /\ [conn[s] EXCEPT ![f] = c] \in [Fds -> Connection]
         /\ [conn EXCEPT ![s][f] = c] = [conn EXCEPT ![s] = [conn[s] EXCEPT ![f] = c]]
         /\ ServerOK(up[s], [conn[s] EXCEPT ![f] = c], nextFdid[s], toSaac[s], Tail(toGs[s]))
<1> DEFINE cs == [conn[s] EXCEPT ![f] = c]
<1>1. f \in Fds /\ Owner(s, Line(s).fdid) = {f}
  BY OwnerFacts
<1>2. /\ cs \in [Fds -> Connection] /\ cs[f] = c
      /\ \A g \in Fds : g # f => cs[g] = conn[s][g]
      /\ [conn EXCEPT ![s][f] = c] = [conn EXCEPT ![s] = cs]
  BY <1>1, SetOne
<1> HIDE DEF cs
<1>3. ServerOK(up[s], cs, nextFdid[s], toSaac[s], Tail(toGs[s]))
  <2>1. /\ \A g \in Owner(s, Line(s).fdid) : ~Waits(cs[g])
        /\ \A g \in Fds \ Owner(s, Line(s).fdid) : cs[g] = conn[s][g]
        /\ \A g \in Fds : /\ cs[g].use = conn[s][g].use /\ cs[g].fdid = conn[s][g].fdid
                          /\ cs[g].cdkey = conn[s][g].cdkey
    BY <1>1, <1>2
  <2> QED BY <2>1, ReceiveServer
<1> QED BY <1>2, <1>3 DEF cs

(* The owner f of the answer asks to have the lock given back.             *)
LEMMA AskUnlock ==
  ASSUME Inv, NEW s \in Servers, NEW type \in LineTypes, Receive(s, type),
         NEW f \in Owner(s, Line(s).fdid), NEW c \in Connection,
         c.state = "WHILECANNOTLOGIN", c.use = conn[s][f].use,
         c.cdkey = conn[s][f].cdkey, c.fdid = conn[s][f].fdid,
         conn' = [conn EXCEPT ![s][f] = c],
         toSaac' = [toSaac EXCEPT ![s] = Append(toSaac[s], Ask("Lock", s, f))],
         UNCHANGED <<lock, registered, file, up, nextFdid, client, edits, crashes>>
  PROVE  Inv'
<1> DEFINE d == [conn[s][f] EXCEPT !.state = "NOTLOGIN"]
           mid == [conn[s] EXCEPT ![f] = d]
           cs == [conn[s] EXCEPT ![f] = c]
           m == Ask("Lock", s, f)
<1>1. /\ f \in Fds /\ conn[s][f].use /\ conn[s][f] \in Connection
      /\ conn[s][f].fdid \in Fdid /\ conn[s][f].cdkey \in Cdkeys
  BY OwnerFacts
<1>2. /\ d \in Connection /\ d.state = "NOTLOGIN" /\ d.use = conn[s][f].use
      /\ d.cdkey = conn[s][f].cdkey /\ d.fdid = conn[s][f].fdid
  BY <1>1, SetState DEF State
<1>4. m \in Request /\ m.type = "Lock" /\ \A e : IsAbout(m, e) <=> e = conn[s][f].fdid
  BY <1>1, AskLine DEF LineTypes
<1> HIDE DEF d, m
<1>5. ~Waits(d) /\ Waits(c) /\ Waiting[c.state] = m.type /\ c.cdkey # NoKey
  BY <1>1, <1>2, <1>4, LoginAssumption DEF Waits, Waiting
<1>6. /\ mid \in [Fds -> Connection]
      /\ ServerOK(up[s], mid, nextFdid[s], toSaac[s], Tail(toGs[s]))
  BY <1>2, <1>5, SettleServer
<1>7. /\ cs \in [Fds -> Connection] /\ cs[f] = c /\ mid[f] = d
      /\ \A g \in Fds : g # f => cs[g] = mid[g]
      /\ conn' = [conn EXCEPT ![s] = cs]
  BY <1>1, <1>2, SetOne
<1> HIDE DEF mid, cs
<1>8. ServerOK(up[s], cs, nextFdid[s], Append(toSaac[s], m), Tail(toGs[s]))
  <2>1. /\ Waits(cs[f]) /\ Waiting[cs[f].state] = m.type /\ cs[f].cdkey # NoKey
        /\ cs[f].fdid = mid[f].fdid /\ cs[f].use /\ mid[f].use /\ ~Waits(mid[f])
        /\ \A e : IsAbout(m, e) <=> e = mid[f].fdid
    BY <1>1, <1>2, <1>4, <1>5, <1>7
  <2>2. nextFdid[s] \in Nat /\ toSaac[s] \in Seq(Request)
    BY QueueTypes
  <2> QED BY <1>1, <1>4, <1>6, <1>7, <2>1, <2>2, AskStep
<1>9. /\ toGs' = [toGs EXCEPT ![s] = Tail(toGs[s])] /\ Tail(toGs[s]) \in Seq(Reply)
      /\ toSaac' = [toSaac EXCEPT ![s] = Append(toSaac[s], m)]
      /\ Append(toSaac[s], m) \in Seq(Request)
      /\ edits' \in 0 .. MaxEdits
      /\ client' \in [Servers -> [Fds -> {"open", "listed", "gone"}]]
  BY <1>4, ReceiveFacts, QueueTypes, Unchanged1 DEF m
<1> QED BY <1>7, <1>8, <1>9, GsStep, ZenonT(30)

(* The owner f of the answer goes on with c, and nothing is sent.          *)
LEMMA Settle ==
  ASSUME Inv, NEW s \in Servers, NEW type \in LineTypes, Receive(s, type),
         NEW f \in Owner(s, Line(s).fdid), NEW c \in Connection,
         ~Waits(c), c.use = conn[s][f].use, c.fdid = conn[s][f].fdid,
         c.cdkey = conn[s][f].cdkey,
         conn' = [conn EXCEPT ![s][f] = c],
         UNCHANGED <<lock, registered, file, up, nextFdid, client, toSaac, edits, crashes>>
  PROVE  Inv'
<1> DEFINE cs == [conn[s] EXCEPT ![f] = c]
<1>1. /\ cs \in [Fds -> Connection] /\ conn' = [conn EXCEPT ![s] = cs]
      /\ ServerOK(up[s], cs, nextFdid[s], toSaac[s], Tail(toGs[s]))
  BY SettleServer
<1>2. /\ toGs' = [toGs EXCEPT ![s] = Tail(toGs[s])] /\ Tail(toGs[s]) \in Seq(Reply)
      /\ toSaac' = [toSaac EXCEPT ![s] = toSaac[s]] /\ toSaac[s] \in Seq(Request)
      /\ edits' \in 0 .. MaxEdits
      /\ client' \in [Servers -> [Fds -> {"open", "listed", "gone"}]]
  BY ReceiveFacts, QueueTypes, Unchanged1
<1> HIDE DEF cs
<1> QED BY <1>1, <1>2, GsStep

(* The answer is for a connection that is gone.                            *)
LEMMA NoOwner ==
  ASSUME Inv, NEW s \in Servers, NEW type \in LineTypes, Receive(s, type),
         Owner(s, Line(s).fdid) = {}, UNCHANGED <<conn, toSaac>>,
         UNCHANGED <<lock, registered, file, up, nextFdid, client, edits, crashes>>
  PROVE  Inv'
<1>1. ServerOK(up[s], conn[s], nextFdid[s], toSaac[s], Tail(toGs[s]))
  BY ReceiveServer
<1>2. /\ conn' = [conn EXCEPT ![s] = conn[s]] /\ conn[s] \in [Fds -> Connection]
      /\ toGs' = [toGs EXCEPT ![s] = Tail(toGs[s])] /\ Tail(toGs[s]) \in Seq(Reply)
      /\ toSaac' = [toSaac EXCEPT ![s] = toSaac[s]] /\ toSaac[s] \in Seq(Request)
      /\ edits' \in 0 .. MaxEdits
      /\ client' \in [Servers -> [Fds -> {"open", "listed", "gone"}]]
  BY ReceiveFacts, QueueTypes, Unchanged1
<1> QED BY <1>1, <1>2, GsStep

(* SaacClient_ACCharLoad_recv, which looks at no state. *)
LEMMA ACCharLoadInv ==
  ASSUME Inv, NEW s \in Servers, SaacClient_ACCharLoad_recv(s)
  PROVE  Inv'
<1>1. /\ Receive(s, "CharLoad") /\ "CharLoad" \in LineTypes
      /\ UNCHANGED <<lock, registered, file, up, nextFdid, client, edits, crashes>>
  BY DEF SaacClient_ACCharLoad_recv, LineTypes, saacVars, boundVars
<1>2. CASE Owner(s, Line(s).fdid) = {} /\ UNCHANGED <<conn, toSaac>>
  BY <1>1, <1>2, NoOwner
<1>3. ASSUME NEW f \in Owner(s, Line(s).fdid),
             conn' = [conn EXCEPT ![s][f].state = "NOTLOGIN"], UNCHANGED toSaac
      PROVE  Inv'
  <2> DEFINE c == [conn[s][f] EXCEPT !.state = "NOTLOGIN"]
  <2>1. conn[s][f] \in Connection /\ f \in Fds
    BY <1>1, OwnerFacts
  <2>2. /\ c \in Connection /\ c.state = "NOTLOGIN" /\ c.use = conn[s][f].use
        /\ c.fdid = conn[s][f].fdid /\ c.cdkey = conn[s][f].cdkey
    BY <2>1, SetState DEF State
  <2>3. conn' = [conn EXCEPT ![s][f] = c]
    BY <1>3, <2>1 DEF Inv, TypeOK
  <2> HIDE DEF c
  <2>4. ~Waits(c)
    BY <2>2 DEF Waits, Waiting
  <2> QED BY <1>1, <1>3, <2>2, <2>3, <2>4, Settle
<1>4. ASSUME NEW f \in Owner(s, Line(s).fdid), Line(s).ok,
             conn' = [conn EXCEPT ![s][f].state = "LOGIN", ![s][f].char = Line(s).data],
             UNCHANGED toSaac
      PROVE  Inv'
  <2> DEFINE c == [conn[s][f] EXCEPT !.state = "LOGIN", !.char = Line(s).data]
  <2>1. conn[s][f] \in Connection /\ f \in Fds /\ Line(s).data \in Data
    BY <1>1, OwnerFacts, ReceiveFacts, ReplyFields
  <2>2. /\ c \in Connection /\ c.state = "LOGIN" /\ c.use = conn[s][f].use
        /\ c.fdid = conn[s][f].fdid /\ c.cdkey = conn[s][f].cdkey
    BY <2>1 DEF State, Connection
  <2>3. conn' = [conn EXCEPT ![s][f] = c]
    BY <1>4, <2>1 DEF Inv, TypeOK
  <2> HIDE DEF c
  <2>4. ~Waits(c)
    BY <2>2 DEF Waits, Waiting
  <2> QED BY <1>1, <1>4, <2>2, <2>3, <2>4, Settle
<1>5. ASSUME NEW f \in Owner(s, Line(s).fdid),
             conn' = [conn EXCEPT ![s][f].state = "WHILECANNOTLOGIN"],
             toSaac' = [toSaac EXCEPT ![s] = Append(@, Ask("Lock", s, f))]
      PROVE  Inv'
  <2> DEFINE c == [conn[s][f] EXCEPT !.state = "WHILECANNOTLOGIN"]
  <2>1. conn[s][f] \in Connection /\ f \in Fds
    BY <1>1, OwnerFacts
  <2>2. /\ c \in Connection /\ c.state = "WHILECANNOTLOGIN" /\ c.use = conn[s][f].use
        /\ c.fdid = conn[s][f].fdid /\ c.cdkey = conn[s][f].cdkey
    BY <2>1, SetState DEF State, Waiting
  <2>3. conn' = [conn EXCEPT ![s][f] = c]
    BY <1>5, <2>1 DEF Inv, TypeOK
  <2>4. toSaac' = [toSaac EXCEPT ![s] = Append(toSaac[s], Ask("Lock", s, f))]
    BY <1>5 DEF Inv, TypeOK
  <2> HIDE DEF c
  <2> QED BY <1>1, <2>2, <2>3, <2>4, AskUnlock
<1> QED BY <1>2, <1>3, <1>4, <1>5 DEF SaacClient_ACCharLoad_recv

(* SaacClient_ACLock_recv. *)
LEMMA ACLockInv ==
  ASSUME Inv, NEW s \in Servers, SaacClient_ACLock_recv(s)
  PROVE  Inv'
<1> DEFINE waiting == {f \in Owner(s, Line(s).fdid) : conn[s][f].state = "WHILECANNOTLOGIN"}
<1>1. /\ Receive(s, "Lock") /\ "Lock" \in LineTypes
      /\ UNCHANGED <<lock, registered, file, up, nextFdid, client, edits, crashes>>
  BY DEF SaacClient_ACLock_recv, LineTypes, saacVars, boundVars
<1>2. ASSUME NEW f \in Owner(s, Line(s).fdid) PROVE f \in waiting
  <2>1. Waits(conn[s][f]) /\ Waiting[conn[s][f].state] = "Lock"
    BY <1>1, OwnerFacts
  <2> QED BY <2>1 DEF Waits, Waiting
<1>3. CASE waiting = {} /\ UNCHANGED <<conn, toSaac>>
  <2>1. Owner(s, Line(s).fdid) = {}
    BY <1>2, <1>3
  <2> QED BY <1>1, <1>3, <2>1, NoOwner
<1>4. ASSUME NEW f \in waiting,
             conn' = [conn EXCEPT ![s][f].state = "NOTLOGIN"], UNCHANGED toSaac
      PROVE  Inv'
  <2> DEFINE c == [conn[s][f] EXCEPT !.state = "NOTLOGIN"]
  <2>1. f \in Owner(s, Line(s).fdid) /\ conn[s][f] \in Connection /\ f \in Fds
    BY <1>1, OwnerFacts
  <2>2. /\ c \in Connection /\ c.state = "NOTLOGIN" /\ c.use = conn[s][f].use
        /\ c.fdid = conn[s][f].fdid /\ c.cdkey = conn[s][f].cdkey
    BY <2>1, SetState DEF State
  <2>3. conn' = [conn EXCEPT ![s][f] = c]
    BY <1>4, <2>1 DEF Inv, TypeOK
  <2> HIDE DEF c
  <2>4. ~Waits(c)
    BY <2>2 DEF Waits, Waiting
  <2> QED BY <1>1, <1>4, <2>1, <2>2, <2>3, <2>4, Settle
<1>5. ASSUME NEW f \in waiting, UNCHANGED conn,
             toSaac' = [toSaac EXCEPT ![s] = Append(@, Ask("Lock", s, f))]
      PROVE  Inv'
  <2>1. /\ f \in Owner(s, Line(s).fdid) /\ conn[s][f] \in Connection /\ f \in Fds
        /\ conn[s][f].state = "WHILECANNOTLOGIN"
    BY <1>1, OwnerFacts
  <2>2. conn' = [conn EXCEPT ![s][f] = conn[s][f]]
    BY <1>5, <2>1 DEF Inv, TypeOK
  <2>3. toSaac' = [toSaac EXCEPT ![s] = Append(toSaac[s], Ask("Lock", s, f))]
    BY <1>5 DEF Inv, TypeOK
  <2> QED BY <1>1, <2>1, <2>2, <2>3, AskUnlock
<1> QED BY <1>3, <1>4, <1>5 DEF SaacClient_ACLock_recv

(* A line about no connection leaves the queue.                            *)
LEMMA OtherLine ==
  ASSUME Inv, NEW s \in Servers, NEW type \in {"UCheck", "Kick"}, Receive(s, type)
  PROVE  Keeps(toGs[s], Tail(toGs[s]))
<1>1. toGs[s] \in Seq(Reply) /\ toGs[s] # <<>> /\ Head(toGs[s]).type = type
  BY QueueTypes, ReceiveFacts DEF Line
<1>2. \A d : ~IsAbout(Head(toGs[s]), d)
  BY <1>1 DEF IsAbout
<1> QED BY <1>1, <1>2, KeepsTail

(* SaacClient_ACUCheck_recv. *)
LEMMA ACUCheckInv ==
  ASSUME Inv, NEW s \in Servers, SaacClient_ACUCheck_recv(s)
  PROVE  Inv'
<1> DEFINE st == IF WithLogin(s, Line(s).cdkey) THEN 1 ELSE 0
           m == [type |-> "UCheck", cdkey |-> Line(s).cdkey, status |-> st]
           qa == Append(toSaac[s], m)
<1>1. /\ Receive(s, "UCheck")
      /\ UNCHANGED <<lock, registered, file, up, conn, nextFdid, client, edits, crashes>>
      /\ toSaac' = [toSaac EXCEPT ![s] = qa]
  BY DEF SaacClient_ACUCheck_recv, saacVars, gsVars, boundVars, Inv, TypeOK
<1>2. m \in Request /\ \A d : ~IsAbout(m, d)
  <2>1. Line(s).cdkey \in Cdkeys /\ st \in {0, 1}
    BY <1>1, ReceiveFacts, ReplyFields
  <2> HIDE DEF st
  <2> QED BY <2>1, UCheckLine
<1> HIDE DEF m
<1>3. qa \in Seq(Request) /\ Keeps(toSaac[s], qa)
  BY <1>2, QueueTypes, KeepsAppend
<1>4. /\ conn' = [conn EXCEPT ![s] = conn[s]] /\ conn[s] \in [Fds -> Connection]
      /\ toGs' = [toGs EXCEPT ![s] = Tail(toGs[s])] /\ Tail(toGs[s]) \in Seq(Reply)
      /\ edits' \in 0 .. MaxEdits
      /\ client' \in [Servers -> [Fds -> {"open", "listed", "gone"}]]
      /\ up[s]
  BY <1>1, ReceiveFacts, QueueTypes, Unchanged1
<1>5. Keeps(toGs[s], Tail(toGs[s])) /\ Follows(conn[s], conn[s])
  BY <1>1, OtherLine DEF Follows
<1> HIDE DEF qa
<1> QED BY <1>1, <1>3, <1>4, <1>5, GsQuietStep

(* SaacClient_ACKick_recv. *)
LEMMA ACKickInv ==
  ASSUME Inv, NEW s \in Servers, SaacClient_ACKick_recv(s)
  PROVE  Inv'
<1> DEFINE cs == [f \in Fds |-> IF LoggedIn(s, f) /\ conn[s][f].cdkey = Line(s).cdkey
                    THEN [conn[s][f] EXCEPT !.close_request = TRUE] ELSE conn[s][f]]
<1>1. /\ Receive(s, "Kick") /\ conn' = [conn EXCEPT ![s] = cs]
      /\ UNCHANGED <<lock, registered, file, up, nextFdid, client, toSaac, edits, crashes>>
  BY DEF SaacClient_ACKick_recv, saacVars, boundVars
<1>2. ASSUME NEW f \in Fds
      PROVE  /\ cs[f] \in Connection
             /\ cs[f].use = conn[s][f].use /\ cs[f].state = conn[s][f].state
             /\ cs[f].fdid = conn[s][f].fdid /\ cs[f].cdkey = conn[s][f].cdkey
  <2>1. conn[s][f] \in Connection
    BY DEF Inv, TypeOK
  <2>2. [conn[s][f] EXCEPT !.close_request = TRUE] \in Connection
    BY <2>1 DEF Connection
  <2> QED BY <2>1, <2>2 DEF Connection
<1>3. cs \in [Fds -> Connection] /\ Follows(conn[s], cs)
  BY <1>2 DEF Follows
<1>4. /\ toSaac' = [toSaac EXCEPT ![s] = toSaac[s]] /\ toSaac[s] \in Seq(Request)
      /\ toGs' = [toGs EXCEPT ![s] = Tail(toGs[s])] /\ Tail(toGs[s]) \in Seq(Reply)
      /\ edits' \in 0 .. MaxEdits
      /\ client' \in [Servers -> [Fds -> {"open", "listed", "gone"}]]
      /\ up[s]
  BY <1>1, ReceiveFacts, QueueTypes, Unchanged1
<1>5. Keeps(toGs[s], Tail(toGs[s])) /\ Keeps(toSaac[s], toSaac[s])
  BY <1>1, OtherLine, KeepsSelf
<1> HIDE DEF cs
<1> QED BY <1>1, <1>3, <1>4, <1>5, GsQuietStep

(* Lines about no connection reach the servers that are up.                *)
Noise(q, r) ==
  /\ r \in [Servers -> Seq(Reply)]
  /\ \A t \in Servers : (up[t] => Keeps(q[t], r[t])) /\ (~up[t] => r[t] = q[t])

(* Noise is transitive. *)
LEMMA NoiseTrans ==
  ASSUME NEW p, NEW q, NEW r, Noise(p, q), Noise(q, r)
  PROVE  Noise(p, r)
  BY KeepsTrans DEF Noise

(* Noise is reflexive. *)
LEMMA NoiseSelf ==
  ASSUME NEW q \in [Servers -> Seq(Reply)]
  PROVE  Noise(q, q)
  BY KeepsSelf DEF Noise

(* Put of a line about no connection. *)
LEMMA PutNoise ==
  ASSUME NEW q \in [Servers -> Seq(Reply)], NEW S, NEW m \in Reply, \A d : ~IsAbout(m, d)
  PROVE  Noise(q, Put(q, S, m))
<1>1. /\ Put(q, S, m) \in [Servers -> Seq(Reply)]
      /\ \A t \in Servers : Put(q, S, m)[t] = IF t \in S /\ up[t] THEN Append(q[t], m) ELSE q[t]
  BY PutQueues
<1>2. ASSUME NEW t \in Servers PROVE Keeps(q[t], Append(q[t], m))
  <2>1. q[t] \in Seq(Reply)
    OBVIOUS
  <2> QED BY <2>1, KeepsAppend
<1> QED BY <1>1, <1>2, KeepsSelf DEF Noise

(* The line SAAC handles. *)
LEMMA HandleFacts ==
  ASSUME Inv, NEW s \in Servers, NEW type, Handle(s, type)
  PROVE  /\ toSaac[s] # <<>> /\ toSaac[s] \in Seq(Request)
         /\ Req(s) \in Request /\ Req(s).type = type /\ Req(s) = Head(toSaac[s])
         /\ Tail(toSaac[s]) \in Seq(Request)
         /\ toSaac' \in [Servers -> Seq(Request)] /\ toSaac'[s] = Tail(toSaac[s])
         /\ \A t \in Servers \ {s} : toSaac'[t] = toSaac[t]
         /\ toGs \in [Servers -> Seq(Reply)]
  BY QueueTypes DEF Handle, Req, Inv, TypeOK

(* SAAC handles a line that gets no answer.                                *)
LEMMA QuietHandle ==
  ASSUME Inv, NEW s \in Servers, NEW type, Handle(s, type), type \notin LineTypes,
         Noise(toGs, toGs'), UNCHANGED <<gsVars, client, boundVars>>,
         LockTypeOK', registered' \subseteq Servers, file' \in [Cdkeys -> Data]
  PROVE  Inv'
<1>1. UNCHANGED <<up, conn, nextFdid, client, edits, crashes>>
  BY DEF gsVars, boundVars
<1>2. TypeOK'
  BY <1>1, HandleFacts DEF Inv, TypeOK, Noise
<1>3. Keeps(toSaac[s], Tail(toSaac[s]))
  <2>1. \A d : ~IsAbout(Head(toSaac[s]), d)
    BY HandleFacts DEF IsAbout, LineTypes
  <2> QED BY <2>1, HandleFacts, KeepsTail
<1>4. ServerOK(up[s], conn[s], nextFdid[s], Tail(toSaac[s]), toGs'[s])
  <2>1. ServerOK(up[s], conn[s], nextFdid[s], toSaac[s], toGs[s])
    BY QueueTypes
  <2>2. Keeps(toGs[s], toGs'[s]) /\ (~up[s] => toGs'[s] = <<>>) /\ Follows(conn[s], conn[s])
    BY <2>1, KeepsSelf DEF Noise, ServerOK, Follows
  <2> QED BY <1>3, <2>1, <2>2, KeepServer
<1>5. \A t \in Servers : ServerOK(up'[t], conn'[t], nextFdid'[t], toSaac'[t], toGs'[t])
  BY <1>1, <1>4, HandleFacts, OtherServers DEF Noise
<1> QED BY <1>2, <1>5 DEF Inv

(* SAAC answers a line with r.                                             *)
LEMMA AnswerHandle ==
  ASSUME Inv, NEW s \in Servers, NEW type \in LineTypes, Handle(s, type),
         NEW r \in Reply, r.type = type, \A d : IsAbout(r, d) <=> d = Req(s).fdid,
         Noise(Put(toGs, {s}, r), toGs'),
         UNCHANGED <<registered, file, gsVars, client, boundVars>>, LockTypeOK'
  PROVE  Inv'
<1>1. UNCHANGED <<up, conn, nextFdid, client, edits, crashes, registered, file>>
  BY DEF gsVars, boundVars
<1>2. TypeOK'
  BY <1>1, HandleFacts DEF Inv, TypeOK, Noise
<1>3. \A t \in Servers : Put(toGs, {s}, r)[t]
                           = IF t = s /\ up[t] THEN Append(toGs[t], r) ELSE toGs[t]
  <2>1. toGs \in [Servers -> Seq(Reply)]
    BY HandleFacts
  <2> QED BY <2>1, PutQueues
<1>4. ServerOK(up[s], conn[s], nextFdid[s], Tail(toSaac[s]), toGs'[s])
  <2>1. /\ ServerOK(up[s], conn[s], nextFdid[s], toSaac[s], toGs[s])
        /\ toGs[s] \in Seq(Reply)
    BY QueueTypes
  <2>2. /\ up[s] => Keeps(Append(toGs[s], r), toGs'[s])
        /\ ~up[s] => toGs'[s] = toGs[s]
    BY <1>3 DEF Noise
  <2>3. /\ \A d : IsAbout(r, d) <=> IsAbout(Head(toSaac[s]), d)
        /\ r.type = Head(toSaac[s]).type
    BY HandleFacts DEF IsAbout, LineTypes
  <2>4. toSaac[s] # <<>> /\ toSaac[s] \in Seq(Request)
    BY HandleFacts
  <2> QED BY <2>1, <2>2, <2>3, <2>4, AnswerStep
<1>5. \A t \in Servers \ {s} :
        /\ up[t] => Keeps(toGs[t], toGs'[t])
        /\ ~up[t] => toGs'[t] = toGs[t]
  BY <1>3 DEF Noise
<1>6. \A t \in Servers : ServerOK(up'[t], conn'[t], nextFdid'[t], toSaac'[t], toGs'[t])
  BY <1>1, <1>4, <1>5, HandleFacts, OtherServers
<1> QED BY <1>2, <1>6 DEF Inv

(* ServerLogin. *)
LEMMA ServerLoginInv ==
  ASSUME Inv, NEW s \in Servers, ServerLogin(s)
  PROVE  Inv'
<1>1. /\ Handle(s, "ServerLogin") /\ "ServerLogin" \notin LineTypes
      /\ UNCHANGED <<gsVars, client, boundVars>> /\ file' = file /\ toGs' = toGs
      /\ UnlockServer(s) /\ registered' \subseteq Servers
  BY DEF ServerLogin, LineTypes, Inv, TypeOK
<1>2. LockTypeOK' /\ file' \in [Cdkeys -> Data]
  BY <1>1 DEF Inv, TypeOK, LockTypeOK, UnlockServer
<1>3. Noise(toGs, toGs')
  BY <1>1, HandleFacts, NoiseSelf
<1> QED BY <1>1, <1>2, <1>3, QuietHandle

(* ServerLogout. *)
LEMMA ServerLogoutInv ==
  ASSUME Inv, NEW s \in Servers, ServerLogout(s)
  PROVE  Inv'
<1>1. /\ Handle(s, "Eof") /\ "Eof" \notin LineTypes
      /\ UNCHANGED <<gsVars, client, boundVars>> /\ file' = file /\ toGs' = toGs
      /\ lock' = lock /\ registered' \subseteq Servers
  BY DEF ServerLogout, LineTypes, Inv, TypeOK
<1>2. LockTypeOK' /\ file' \in [Cdkeys -> Data]
  BY <1>1 DEF Inv, TypeOK, LockTypeOK
<1>3. Noise(toGs, toGs')
  BY <1>1, HandleFacts, NoiseSelf
<1> QED BY <1>1, <1>2, <1>3, QuietHandle

(* SaacServer_ACCharSave_recv. *)
LEMMA CharSaveRecvInv ==
  ASSUME Inv, NEW s \in Servers, SaacServer_ACCharSave_recv(s)
  PROVE  Inv'
<1>1. /\ Handle(s, "CharSave") /\ "CharSave" \notin LineTypes
      /\ UNCHANGED <<gsVars, client, boundVars>> /\ registered' = registered /\ toGs' = toGs
      /\ Unlock(Req(s).cdkey) \/ UNCHANGED lock
      /\ file' = [file EXCEPT ![Req(s).cdkey] = Req(s).data] \/ UNCHANGED file
  BY DEF SaacServer_ACCharSave_recv, LineTypes
<1>2. Req(s).cdkey \in Cdkeys /\ Req(s).data \in Data
  BY <1>1, HandleFacts, RequestFields
<1>3. file' \in [Cdkeys -> Data] /\ registered' \subseteq Servers
  BY <1>1, <1>2 DEF Inv, TypeOK
<1>4. LockTypeOK'
  BY <1>1, <1>2 DEF Inv, TypeOK, LockTypeOK, Unlock
<1>5. Noise(toGs, toGs')
  BY <1>1, HandleFacts, NoiseSelf
<1> QED BY <1>1, <1>3, <1>4, <1>5, QuietHandle

(* SaacServer_ACUCheck_recv. *)
LEMMA UCheckRecvInv ==
  ASSUME Inv, NEW s \in Servers, SaacServer_ACUCheck_recv(s)
  PROVE  Inv'
<1> DEFINE k == Req(s).cdkey
<1>1. /\ Handle(s, "UCheck") /\ "UCheck" \notin LineTypes
      /\ UNCHANGED <<gsVars, client, boundVars>> /\ registered' = registered /\ file' = file
      /\ Unlock(k) \/ UNCHANGED lock
      /\ UNCHANGED toGs \/ toGs' = Put(toGs, registered, Kick(k))
  BY DEF SaacServer_ACUCheck_recv, LineTypes
<1>2. k \in Cdkeys
  BY <1>1, HandleFacts, RequestFields
<1>3. file' \in [Cdkeys -> Data] /\ registered' \subseteq Servers
  BY <1>1 DEF Inv, TypeOK
<1>4. LockTypeOK'
  BY <1>1, <1>2 DEF Inv, TypeOK, LockTypeOK, Unlock
<1>5. Noise(toGs, toGs')
  <2>1. toGs \in [Servers -> Seq(Reply)]
    BY <1>1, HandleFacts
  <2>2. Kick(k) \in Reply /\ \A d : ~IsAbout(Kick(k), d)
    BY <1>2, KickLine
  <2>3. Noise(toGs, Put(toGs, registered, Kick(k)))
    BY <2>1, <2>2, PutNoise
  <2> QED BY <1>1, <2>1, <2>3, NoiseSelf
<1> QED BY <1>1, <1>3, <1>4, <1>5, QuietHandle

(* SaacServer_ACCharLogin_recv. *)
LEMMA CharLoginRecvInv ==
  ASSUME Inv, NEW s \in Servers, SaacServer_ACCharLogin_recv(s)
  PROVE  Inv'
<1>1. PICK ok \in BOOLEAN :
        /\ Handle(s, "CharLogin") /\ "CharLogin" \in LineTypes
        /\ UNCHANGED <<registered, file, gsVars, client, boundVars>> /\ lock' = lock
        /\ toGs' = Put(toGs, {s}, Answer(Req(s), ok))
  BY DEF SaacServer_ACCharLogin_recv, LineTypes, saacVars
<1> DEFINE r == Answer(Req(s), ok)
<1>2. r \in Reply /\ r.type = "CharLogin" /\ \A d : IsAbout(r, d) <=> d = Req(s).fdid
  BY <1>1, HandleFacts, AnswerLine
<1> HIDE DEF r
<1>3. Noise(Put(toGs, {s}, r), toGs')
  BY <1>1, <1>2, HandleFacts, PutQueues, NoiseSelf DEF r
<1>4. LockTypeOK'
  BY <1>1 DEF Inv, TypeOK, LockTypeOK
<1> QED BY <1>1, <1>2, <1>3, <1>4, AnswerHandle

(* SaacServer_ACLock_recv. *)
LEMMA LockRecvInv ==
  ASSUME Inv, NEW s \in Servers, SaacServer_ACLock_recv(s)
  PROVE  Inv'
<1> DEFINE ok == isLocked(Req(s).cdkey)
           r == Answer(Req(s), ok)
<1>1. /\ Handle(s, "Lock") /\ "Lock" \in LineTypes
      /\ UNCHANGED <<registered, file, gsVars, client, boundVars>> /\ Unlock(Req(s).cdkey)
      /\ toGs' = Put(toGs, {s}, r)
  BY DEF SaacServer_ACLock_recv, LineTypes
<1>2. Req(s).cdkey \in Cdkeys /\ ok \in BOOLEAN
  <2>1. Req(s) \in Request /\ Req(s).type = "Lock"
    BY <1>1, HandleFacts
  <2> QED BY <1>1, <2>1, RequestFields DEF isLocked
<1>3. r \in Reply /\ r.type = "Lock" /\ \A d : IsAbout(r, d) <=> d = Req(s).fdid
  <2> HIDE DEF ok
  <2> QED BY <1>1, <1>2, HandleFacts, AnswerLine
<1> HIDE DEF r
<1>4. Noise(Put(toGs, {s}, r), toGs')
  BY <1>1, <1>3, HandleFacts, PutQueues, NoiseSelf
<1>5. LockTypeOK'
  BY <1>1, <1>2 DEF Inv, TypeOK, LockTypeOK, Unlock
<1> QED BY <1>1, <1>3, <1>4, <1>5, AnswerHandle

(* The kick and the question of checkGSUCheck. *)
LEMMA UCheckNoise ==
  ASSUME NEW q \in [Servers -> Seq(Reply)], NEW S, NEW k \in Cdkeys
  PROVE  /\ Noise(q, Put(q, S, Kick(k)))
         /\ Noise(q, Put(q, S, [type |-> "UCheck", cdkey |-> k]))
<1> DEFINE m == [type |-> "UCheck", cdkey |-> k]
<1>1. Kick(k) \in Reply /\ \A d : ~IsAbout(Kick(k), d)
  BY KickLine
<1>2. m \in Reply /\ \A d : ~IsAbout(m, d)
  BY UCheckLine
<1> HIDE DEF m
<1>3. Noise(q, Put(q, S, Kick(k)))
  BY <1>1, PutNoise
<1>4. Noise(q, Put(q, S, m))
  BY <1>2, PutNoise
<1> QED BY <1>3, <1>4 DEF m

(* SaacServer_ACCharList_recv: one answer, then kicks and a question. *)
LEMMA CharListRecvInv ==
  ASSUME Inv, NEW s \in Servers, SaacServer_ACCharList_recv(s)
  PROVE  Inv'
<1> DEFINE k == Req(s).cdkey
           none == Put(toGs, {s}, Answer(Req(s), FALSE))
           refused == Put(none, registered, Kick(k))
           given == Put(toGs, {s}, Answer(Req(s), TRUE))
           asked == Put(refused, {lock[k]}, [type |-> "UCheck", cdkey |-> k])
<1>1. /\ Handle(s, "CharList") /\ "CharList" \in LineTypes
      /\ UNCHANGED <<registered, file, gsVars, client, boundVars>>
      /\ UNCHANGED lock \/ Unlock(k)
      /\ toGs' \in {none, refused, given, asked}
  BY DEF SaacServer_ACCharList_recv, LineTypes
<1>2. Req(s) \in Request /\ Req(s).type = "CharList" /\ toGs \in [Servers -> Seq(Reply)]
  BY <1>1, HandleFacts
<1>3. k \in Cdkeys
  BY <1>2, RequestFields DEF LineTypes
<1>4. LockTypeOK'
  BY <1>1, <1>3 DEF Inv, TypeOK, LockTypeOK, Unlock
<1>5. \A ok \in BOOLEAN :
        /\ Answer(Req(s), ok) \in Reply /\ Answer(Req(s), ok).type = "CharList"
        /\ \A d : IsAbout(Answer(Req(s), ok), d) <=> d = Req(s).fdid
  BY <1>2, AnswerLine
<1>6. none \in [Servers -> Seq(Reply)] /\ given \in [Servers -> Seq(Reply)]
  BY <1>2, <1>5, PutQueues
<1> HIDE DEF none, given
<1>7. Noise(none, none) /\ Noise(given, given)
  BY <1>6, NoiseSelf
<1>8. Noise(none, refused)
  BY <1>3, <1>6, UCheckNoise
<1>9. refused \in [Servers -> Seq(Reply)]
  BY <1>8 DEF Noise
<1> HIDE DEF refused
<1>10. Noise(refused, asked)
  BY <1>3, <1>9, UCheckNoise
<1>11. Noise(none, asked)
  BY <1>8, <1>10, NoiseTrans
<1> HIDE DEF asked, k
<1>12. CASE toGs' = given
  <2> DEFINE r == Answer(Req(s), TRUE)
  <2>1. r \in Reply /\ r.type = "CharList" /\ \A d : IsAbout(r, d) <=> d = Req(s).fdid
    BY <1>5
  <2> HIDE DEF r
  <2>2. Noise(Put(toGs, {s}, r), toGs')
    BY <1>7, <1>12 DEF given, r
  <2> QED BY <1>1, <1>4, <2>1, <2>2, AnswerHandle
<1>13. CASE toGs' \in {none, refused, asked}
  <2> DEFINE r == Answer(Req(s), FALSE)
  <2>1. r \in Reply /\ r.type = "CharList" /\ \A d : IsAbout(r, d) <=> d = Req(s).fdid
    BY <1>5
  <2> HIDE DEF r
  <2>2. Noise(Put(toGs, {s}, r), toGs')
    BY <1>7, <1>8, <1>11, <1>13 DEF none, r
  <2> QED BY <1>1, <1>4, <2>1, <2>2, AnswerHandle
<1> QED BY <1>1, <1>12, <1>13

(* SaacServer_ACCharLoad_recv: one answer, then kicks. *)
LEMMA CharLoadRecvInv ==
  ASSUME Inv, NEW s \in Servers, SaacServer_ACCharLoad_recv(s)
  PROVE  Inv'
<1> DEFINE k == Req(s).cdkey
           line(ok) == Put(toGs, {s}, Loaded(Req(s), ok))
<1>1. PICK ok \in BOOLEAN, S \in {{}, registered, registered \ {s}} :
        /\ Handle(s, "CharLoad") /\ "CharLoad" \in LineTypes
        /\ UNCHANGED <<registered, file, gsVars, client, boundVars>>
        /\ UNCHANGED lock \/ Unlock(k) \/ Lock(k, s)
        /\ toGs' = line(ok) \/ toGs' = Put(line(ok), S, Kick(k))
  BY DEF SaacServer_ACCharLoad_recv, LineTypes
<1> DEFINE r == Loaded(Req(s), ok)
<1>2. Req(s) \in Request /\ Req(s).type = "CharLoad" /\ toGs \in [Servers -> Seq(Reply)]
  BY <1>1, HandleFacts
<1>3. k \in Cdkeys
  BY <1>2, RequestFields DEF LineTypes
<1>4. LockTypeOK'
  BY <1>1, <1>3 DEF Inv, TypeOK, LockTypeOK, Lock, Unlock
<1>5. r \in Reply /\ r.type = "CharLoad" /\ \A d : IsAbout(r, d) <=> d = Req(s).fdid
  BY <1>2, LoadedLine DEF Inv, TypeOK
<1> HIDE DEF r
<1>6. line(ok) = Put(toGs, {s}, r)
  BY DEF r
<1> DEFINE q == Put(toGs, {s}, r)
<1>7. q \in [Servers -> Seq(Reply)]
  BY <1>2, <1>5, PutQueues
<1>8. toGs' = q \/ toGs' = Put(q, S, Kick(k))
  BY <1>1, <1>6
<1> HIDE DEF q
<1>9. Noise(q, q) /\ Noise(q, Put(q, S, Kick(k)))
  BY <1>3, <1>7, NoiseSelf, UCheckNoise
<1>10. Noise(Put(toGs, {s}, r), toGs')
  BY <1>8, <1>9 DEF q
<1> QED BY <1>1, <1>4, <1>5, <1>10, AnswerHandle

(* Crash: no connection is left. *)
LEMMA CrashInv ==
  ASSUME Inv, NEW s \in Servers, Crash(s)
  PROVE  Inv'
<1> DEFINE cs == [f \in Fds |-> NoConn]
<1>1. /\ up' = [up EXCEPT ![s] = FALSE] /\ nextFdid' = [nextFdid EXCEPT ![s] = 1]
      /\ toGs' = [toGs EXCEPT ![s] = <<>>] /\ conn' = [conn EXCEPT ![s] = cs]
      /\ client' = [client EXCEPT ![s] = [f \in Fds |-> "gone"]]
      /\ crashes' = crashes + 1 /\ crashes < MaxCrash
      /\ UNCHANGED <<registered, lock, file, edits>>
  BY DEF Crash, Lost, saacVars
<1>2. /\ toSaac' \in [Servers -> Seq(Request)]
      /\ \A t \in Servers \ {s} : toSaac'[t] = toSaac[t]
  <2>1. PICK n \in 0 .. Len(toSaac[s]) :
          toSaac' = [toSaac EXCEPT ![s] = Append(SubSeq(toSaac[s], 1, n), [type |-> "Eof"])]
    BY DEF Crash, Inv, TypeOK
  <2> DEFINE q == SubSeq(toSaac[s], 1, n)
             m == [type |-> "Eof"]
  <2>2. q \in Seq(Request)
    BY QueueTypes
  <2>3. m \in Request
    BY DEF Request
  <2> HIDE DEF q, m
  <2>4. toSaac' = [toSaac EXCEPT ![s] = Append(q, m)]
    BY <2>1 DEF q, m
  <2>5. Append(q, m) \in Seq(Request)
    BY <2>2, <2>3
  <2> QED BY <2>4, <2>5 DEF Inv, TypeOK
<1>3. cs \in [Fds -> Connection] /\ \A f \in Fds : ~cs[f].use
  BY NoConnType
<1> HIDE DEF cs
<1>4. TypeOK'
  <2>1. /\ conn' \in [Servers -> [Fds -> Connection]]
        /\ client' \in [Servers -> [Fds -> {"open", "listed", "gone"}]]
    BY <1>1, <1>3 DEF Inv, TypeOK
  <2>2. nextFdid' \in [Servers -> 1 .. MaxFdid + 1] /\ crashes' \in 0 .. MaxCrash
    BY <1>1, LoginAssumption DEF Inv, TypeOK
  <2>3. toGs' \in [Servers -> Seq(Reply)] /\ up' \in [Servers -> BOOLEAN]
    BY <1>1 DEF Inv, TypeOK
  <2> QED BY <1>1, <1>2, <2>1, <2>2, <2>3 DEF Inv, TypeOK, LockTypeOK
<1>5. /\ up'[s] = FALSE /\ nextFdid'[s] = 1 /\ toGs'[s] = <<>> /\ conn'[s] = cs
      /\ \A t \in Servers \ {s} : /\ up'[t] = up[t] /\ nextFdid'[t] = nextFdid[t]
                                  /\ toGs'[t] = toGs[t] /\ conn'[t] = conn[t]
  BY <1>1 DEF Inv, TypeOK
<1>6. ServerOK(up'[s], conn'[s], nextFdid'[s], toSaac'[s], toGs'[s])
  BY <1>3, <1>5 DEF ServerOK
<1>7. \A t \in Servers : ServerOK(up'[t], conn'[t], nextFdid'[t], toSaac'[t], toGs'[t])
  BY <1>2, <1>5, <1>6, KeepsSelf, OtherServers
<1> QED BY <1>4, <1>7 DEF Inv

(* SaacCrash: nothing is left. *)
LEMMA SaacCrashInv ==
  ASSUME Inv, SaacCrash
  PROVE  Inv'
<1>1. TypeOK'
  <2>1. /\ crashes' \in 0 .. MaxCrash /\ nextFdid' \in [Servers -> 1 .. MaxFdid + 1]
    BY LoginAssumption DEF SaacCrash, Inv, TypeOK
  <2>2. conn' \in [Servers -> [Fds -> Connection]]
    BY NoConnType DEF SaacCrash
  <2> QED BY <2>1, <2>2 DEF SaacCrash, Inv, TypeOK, LockTypeOK
<1>2. ASSUME NEW t \in Servers
      PROVE  ServerOK(up'[t], conn'[t], nextFdid'[t], toSaac'[t], toGs'[t])
  BY NoConnType DEF SaacCrash, ServerOK
<1> QED BY <1>1, <1>2 DEF Inv

(* Restart: the queues of the earlier process are empty. *)
LEMMA RestartInv ==
  ASSUME Inv, NEW s \in Servers, Restart(s)
  PROVE  Inv'
<1> DEFINE m == [type |-> "ServerLogin"]
<1>1. m \in Request /\ \A d : ~IsAbout(m, d)
  BY DEF Request, IsAbout
<1>2. /\ ~up[s] /\ up' = [up EXCEPT ![s] = TRUE] /\ toSaac' = [toSaac EXCEPT ![s] = <<m>>]
      /\ UNCHANGED <<registered, lock, file, conn, nextFdid, client, toGs, edits, crashes>>
  BY DEF Restart, saacVars, boundVars
<1> HIDE DEF m
<1>3. TypeOK'
  BY <1>1, <1>2 DEF Inv, TypeOK, LockTypeOK
<1>4. /\ up'[s] = TRUE /\ toSaac'[s] = <<m>>
      /\ \A t \in Servers \ {s} : up'[t] = up[t] /\ toSaac'[t] = toSaac[t]
  BY <1>2 DEF Inv, TypeOK
<1>5. ServerOK(up[s], conn[s], nextFdid[s], toSaac[s], toGs[s])
  BY QueueTypes
<1>6. ServerOK(up'[s], conn'[s], nextFdid'[s], toSaac'[s], toGs'[s])
  <2>1. /\ \A f \in Fds : ~conn'[s][f].use
        /\ toGs'[s] = <<>>
    BY <1>2, <1>5 DEF ServerOK
  <2>2. \A d : Quiet(toSaac'[s], toGs'[s], d)
    BY <1>1, <1>4, <2>1, NoneEmpty DEF Quiet, None
  <2> QED BY <1>4, <2>1, <2>2 DEF ServerOK
<1>7. \A t \in Servers : ServerOK(up'[t], conn'[t], nextFdid'[t], toSaac'[t], toGs'[t])
  BY <1>2, <1>4, <1>6, KeepsSelf, OtherServers
<1> QED BY <1>3, <1>7 DEF Inv

(* The invariant holds in every reachable state, for every number of servers,
   connections, accounts, lines, edits and crashes. *)
THEOREM LoginInv == Spec => []Inv
<1>1. Inv /\ [Next]_vars => Inv'
  <2> SUFFICES ASSUME Inv, [Next]_vars PROVE Inv'
    OBVIOUS
  <2>1. ASSUME NEW s \in Servers, NEW f \in Fds, ClientStep(s, f) PROVE Inv'
    BY <2>1, ConnectInv, ClientLoginInv, CharListInv, CharLoginInv, EditInv, ClientLeavesInv,
       PeriodicSaveInv, EndOneInv DEF ClientStep
  <2>2. ASSUME NEW s \in Servers, GsHandle(s) PROVE Inv'
    BY <2>2, ACCharLoginInv, ACCharListInv, ACCharLoadInv, ACLockInv, ACUCheckInv, ACKickInv
       DEF GsHandle
  <2>3. ASSUME NEW s \in Servers, SaacHandle(s) PROVE Inv'
    BY <2>3, ServerLoginInv, ServerLogoutInv, CharLoginRecvInv, CharListRecvInv,
       CharLoadRecvInv, CharSaveRecvInv, LockRecvInv, UCheckRecvInv DEF SaacHandle
  <2>4. CASE UNCHANGED vars
    BY <2>4 DEF vars, saacVars, gsVars, netVars, boundVars, Inv, TypeOK, LockTypeOK
  <2> QED BY <2>1, <2>2, <2>3, <2>4, CrashInv, RestartInv, SaacCrashInv DEF Next
<1> QED BY InitInv, <1>1, PTL DEF Spec

(* Every variable stays in its range.  Lines never carry an fdid that was not
   given out, although the handlers of common/saac_client_recv.c set a state without
   looking at the one they find: that is why this needs the whole of Inv. *)
THEOREM LoginTypeOK == Spec => []TypeOK
<1>1. Inv => TypeOK
  BY DEF Inv
<1> QED BY LoginInv, <1>1, PTL

(* Counting no line. *)
LEMMA AboutNone ==
  ASSUME NEW q, NEW d, None(q, d)
  PROVE  About(q, d) = {} /\ Cardinality(About(q, d)) = 0
<1>1. About(q, d) = {}
  BY DEF None, About
<1> QED BY <1>1, FS_EmptySet

(* Counting one line. *)
LEMMA AboutOne ==
  ASSUME NEW q, NEW d, NEW type, One(q, d, type)
  PROVE  /\ Cardinality(About(q, d)) = 1
         /\ \A i \in About(q, d) : q[i].type = type
<1>1. PICK i \in DOMAIN q : /\ IsAbout(q[i], d) /\ q[i].type = type
                            /\ \A j \in DOMAIN q : IsAbout(q[j], d) => j = i
  BY DEF One
<1>2. About(q, d) = {i}
  BY <1>1 DEF About
<1> QED BY <1>1, <1>2, FS_Singleton

(* A connection waits for exactly one answer, of the type its state names, and one
   that waits for nothing has none coming: an answer is never handled by a
   connection it was not meant for (saac_client_recv.c, getfdFromFdid). *)
THEOREM LoginOneAnswerPerWait == Spec => []OneAnswerPerWait
<1>1. Inv => OneAnswerPerWait
  <2> SUFFICES ASSUME Inv, NEW s \in Servers, NEW f \in Fds, conn[s][f].use
               PROVE  LET asked    == About(toSaac[s], conn[s][f].fdid)
                          answered == About(toGs[s], conn[s][f].fdid)
                          state    == conn[s][f].state
                      IN  /\ Cardinality(asked) + Cardinality(answered)
                               = IF state \in DOMAIN Waiting THEN 1 ELSE 0
                          /\ \A i \in asked : toSaac[s][i].type = Waiting[state]
                          /\ \A i \in answered : toGs[s][i].type = Waiting[state]
    BY DEF OneAnswerPerWait
  <2> DEFINE d == conn[s][f].fdid
             state == conn[s][f].state
  <2>1. Expected(conn[s][f], toSaac[s], toGs[s])
    BY QueueTypes DEF ServerOK, ConnOK
  <2>2. CASE ~Waits(conn[s][f])
    <3>1. None(toSaac[s], d) /\ None(toGs[s], d)
      BY <2>1, <2>2 DEF Expected, Quiet
    <3> QED BY <2>2, <3>1, AboutNone DEF Waits
  <2>3. CASE Waits(conn[s][f]) /\ One(toSaac[s], d, Waiting[state]) /\ None(toGs[s], d)
    <3>1. /\ Cardinality(About(toSaac[s], d)) = 1 /\ Cardinality(About(toGs[s], d)) = 0
          /\ \A i \in About(toSaac[s], d) : toSaac[s][i].type = Waiting[state]
          /\ About(toGs[s], d) = {}
      BY <2>3, AboutOne, AboutNone
    <3> QED BY <2>3, <3>1 DEF Waits
  <2>4. CASE Waits(conn[s][f]) /\ None(toSaac[s], d) /\ One(toGs[s], d, Waiting[state])
    <3>1. /\ Cardinality(About(toSaac[s], d)) = 0 /\ Cardinality(About(toGs[s], d)) = 1
          /\ \A i \in About(toGs[s], d) : toGs[s][i].type = Waiting[state]
          /\ About(toSaac[s], d) = {}
      BY <2>4, AboutOne, AboutNone
    <3> QED BY <2>4, <3>1 DEF Waits
  <2> QED BY <2>1, <2>2, <2>3, <2>4 DEF Expected, Pending
<1> QED BY LoginInv, <1>1, PTL
=============================================================================
