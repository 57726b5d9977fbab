----------------------------- MODULE LockTable -----------------------------
(***************************************************************************)
(* The lock table of the account server (saac/lock.c), as lockUser,        *)
(* isLocked (saac/char.c), the GM unlock (ACLock 3 and 4) and              *)
(* login_game_server drive it.  g_lock is an array of linked lists, one    *)
(* per hash bucket; a list is modelled as the sequence of its nodes.  A    *)
(* node is never freed: release clears its use flag and InsertMemLock      *)
(* reuses the first unused node, growing the list by Grow nodes (32 in     *)
(* the code) when every node is in use.  calloc may fail part-way.         *)
(***************************************************************************)
EXTENDS Naturals, Sequences, FiniteSets

CONSTANTS
  Cdkeys, Servers, NoServer,
  NoKey,     \* an empty cdkey field
  Buckets,   \* the 256 lists of g_lock
  Hash,      \* getHash(id) & 0xff
  Grow       \* how many nodes InsertMemLock adds to a full list

ASSUME LockTableAssumption ==
  /\ NoServer \notin Servers
  /\ NoKey \notin Cdkeys
  /\ IsFiniteSet(Cdkeys)       \* what char cdkey[16] can hold
  /\ Hash \in [Cdkeys -> Buckets]
  /\ Grow \in Nat \ {0}

VARIABLE g_lock

LockNode == [use    : BOOLEAN,
             cdkey  : Cdkeys \union {NoKey},
             server : Servers \union {NoServer}]

EmptyNode == [use |-> FALSE, cdkey |-> NoKey, server |-> NoServer]

Lock_create(n) == [i \in 1 .. n |-> EmptyNode]

Lock_Init == g_lock = [b \in Buckets |-> Lock_create(1)]

-----------------------------------------------------------------------------
(* Look-ups: the list is scanned for a node in use with this cdkey.        *)

Holds(node, k) == node.use /\ node.cdkey = k

HoldsIn(nodes, k) == \E i \in DOMAIN nodes : Holds(nodes[i], k)

(* The first match, which is the node every look-up and DeleteMemLock use. *)
FirstMatch(nodes, k, i) ==
  /\ Holds(nodes[i], k)
  /\ \A j \in 1 .. i - 1 : ~Holds(nodes[j], k)

ServerIn(nodes, k) ==
  IF HoldsIn(nodes, k)
    THEN nodes[CHOOSE i \in DOMAIN nodes : FirstMatch(nodes, k, i)].server
    ELSE NoServer

isMemLocked(k) == HoldsIn(g_lock[Hash[k]], k)
GetMemLockServer(k) == ServerIn(g_lock[Hash[k]], k)

-----------------------------------------------------------------------------
AllUsed(nodes) == \A i \in DOMAIN nodes : nodes[i].use

FirstUnused(nodes, i) ==
  /\ ~nodes[i].use
  /\ \A j \in 1 .. i - 1 : nodes[j].use

(* Variant: the arguments of the copy in the wrong order.                  *)
Taken_swapped(k, s) == [use |-> TRUE, cdkey |-> s, server |-> k]

Taken(k, s) == [use |-> TRUE, cdkey |-> k, server |-> s]

Use(nodes, i, k, s) == [nodes EXCEPT ![i] = Taken(k, s)]

(* Variant: always appends, never looks for an unused node.                *)
InsertMemLock_appends(k, s) ==
  LET nodes == g_lock[Hash[k]] IN
  g_lock' = [g_lock EXCEPT ![Hash[k]] =
               Use(nodes \o Lock_create(Grow), Len(nodes) + 1, k, s)]

(* The node lists InsertMemLock can leave behind in k's bucket.            *)
InsertMemLock(k, s) ==
  LET nodes == g_lock[Hash[k]] IN
  \/ \E i \in DOMAIN nodes :
       /\ FirstUnused(nodes, i)
       /\ g_lock' = [g_lock EXCEPT ![Hash[k]] = Use(nodes, i, k, s)]
  \/ /\ AllUsed(nodes)                          \* "Add more lock nodes."
     /\ g_lock' = [g_lock EXCEPT ![Hash[k]] =
                     Use(nodes \o Lock_create(Grow), Len(nodes) + 1, k, s)]
  \/ /\ AllUsed(nodes)                          \* calloc failed after n nodes
     /\ \E n \in 0 .. Grow - 1 :
          g_lock' = [g_lock EXCEPT ![Hash[k]] = nodes \o Lock_create(n)]

DeleteMemLock(k) ==
  LET nodes == g_lock[Hash[k]] IN
  \/ \E i \in DOMAIN nodes :
       /\ FirstMatch(nodes, k, i)
       /\ g_lock' = [g_lock EXCEPT ![Hash[k]] = [nodes EXCEPT ![i] = EmptyNode]]
  \/ /\ ~isMemLocked(k)
     /\ UNCHANGED g_lock

(* Variant: the scan of a list stops at the first node of the server.      *)
DeleteMemLockServer_breaks(s) ==
  LET mine(node) == node.use /\ node.server = s IN
  g_lock' = [b \in Buckets |->
               [i \in DOMAIN g_lock[b] |->
                  IF mine(g_lock[b][i]) /\ \A j \in 1 .. i - 1 : ~mine(g_lock[b][j])
                    THEN [g_lock[b][i] EXCEPT !.use = FALSE]
                    ELSE g_lock[b][i]]]

(* Clears only the use flag: cdkey and server stay in the node.            *)
DeleteMemLockServer(s) ==
  g_lock' = [b \in Buckets |->
               [i \in DOMAIN g_lock[b] |->
                  IF g_lock[b][i].use /\ g_lock[b][i].server = s
                    THEN [g_lock[b][i] EXCEPT !.use = FALSE]
                    ELSE g_lock[b][i]]]

(* Variant: locks without asking isLocked.                                 *)
lockUser_unasked(k, s, wanted) ==
  \/ wanted = 1 /\ InsertMemLock(k, s)
  \/ wanted = 0 /\ DeleteMemLock(k)

(* lockUser(..., lock, ...): 1 to lock, 0 to unlock.                       *)
lockUser(k, s, wanted) ==
  \/ /\ wanted = 1
     /\ IF isMemLocked(k) THEN UNCHANGED g_lock ELSE InsertMemLock(k, s)
  \/ /\ wanted = 0
     /\ DeleteMemLock(k)

Next ==
  \/ \E k \in Cdkeys, s \in Servers : lockUser(k, s, 1)
  \/ \E k \in Cdkeys, s \in Servers : lockUser(k, s, 0)
  \/ \E s \in Servers : DeleteMemLockServer(s)

Spec == Lock_Init /\ [][Next]_g_lock

-----------------------------------------------------------------------------
(* Every list holds lock nodes and nothing else.                           *)
TypeOK == g_lock \in [Buckets -> Seq(LockNode)]

WellPlaced(nodes, b) ==
  \A i \in DOMAIN nodes : nodes[i].use =>
    /\ nodes[i].cdkey \in Cdkeys
    /\ Hash[nodes[i].cdkey] = b
    /\ nodes[i].server \in Servers

NoDuplicate(nodes) ==
  \A i, j \in DOMAIN nodes :
    /\ nodes[i].use /\ nodes[j].use
    /\ nodes[i].cdkey = nodes[j].cdkey
    => i = j

(* An account is in use in at most one node, and only in the list its hash *)
(* selects.  InsertMemLock itself never looks for the cdkey: uniqueness    *)
(* rests on lockUser asking isLocked first, on every path.                 *)
AtMostOneNode ==
  \A b \in Buckets : WellPlaced(g_lock[b], b) /\ NoDuplicate(g_lock[b])

(* The lists only ever grow, and nothing frees a node: they stay bounded   *)
(* because unused nodes are found again and each account takes one node.   *)
ListsBounded ==
  \A b \in Buckets :
    Len(g_lock[b]) <= Cardinality({k \in Cdkeys : Hash[k] = b}) + Grow

(* The linked lists implement the account-to-server map.                   *)
LockView == [k \in Cdkeys |-> GetMemLockServer(k)]
LM == INSTANCE LockMap WITH lock <- LockView
RefinesLockMap == LM!LockSpec
=============================================================================
