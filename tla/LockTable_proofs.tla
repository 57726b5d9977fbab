-------------------------- MODULE LockTable_proofs --------------------------
(***************************************************************************)
(* Proofs about the lock table: for any accounts, servers, buckets, hash   *)
(* and growth step, the linked lists keep an account in at most one node   *)
(* and implement the account-to-server map LockMap.                        *)
(***************************************************************************)
EXTENDS LockTable, SequenceTheorems, FiniteSetTheorems, TLAPS

Inv == TypeOK /\ AtMostOneNode

(* An empty node is a node, and it is free.                                *)
LEMMA EmptyNodeType == EmptyNode \in LockNode /\ ~EmptyNode.use
  BY DEF EmptyNode, LockNode

(* A taken node holds the account for the server.                          *)
LEMMA TakenType ==
  ASSUME NEW k \in Cdkeys, NEW s \in Servers
  PROVE  /\ Taken(k, s) \in LockNode
         /\ Taken(k, s).use
         /\ Taken(k, s).cdkey = k
         /\ Taken(k, s).server = s
  BY DEF Taken, LockNode

(* Lock_create yields free nodes.                                          *)
LEMMA CreateType ==
  ASSUME NEW n \in Nat
  PROVE  /\ Lock_create(n) \in Seq(LockNode)
         /\ Len(Lock_create(n)) = n
         /\ \A i \in 1 .. n : Lock_create(n)[i] = EmptyNode
  BY EmptyNodeType DEF Lock_create

(* A list that grew by n nodes: the old nodes first, then n free ones.     *)
LEMMA GrownList ==
  ASSUME NEW nodes \in Seq(LockNode), NEW n \in Nat
  PROVE  LET new == nodes \o Lock_create(n)
         IN  /\ new \in Seq(LockNode)
             /\ Len(new) = Len(nodes) + n
             /\ \A i \in 1 .. Len(nodes) : new[i] = nodes[i]
             /\ \A i \in Len(nodes) + 1 .. Len(nodes) + n : new[i] = EmptyNode
<1> DEFINE more == Lock_create(n)
<1>1. /\ more \in Seq(LockNode) /\ Len(more) = n
      /\ \A i \in 1 .. n : more[i] = EmptyNode
  BY CreateType
<1> HIDE DEF more
<1>2. /\ nodes \o more \in Seq(LockNode)
      /\ Len(nodes \o more) = Len(nodes) + Len(more)
      /\ \A i \in 1 .. Len(nodes) + Len(more) :
            (nodes \o more)[i] = IF i <= Len(nodes) THEN nodes[i]
                                ELSE more[i - Len(nodes)]
  BY <1>1, ConcatProperties
<1>3. Len(nodes) \in Nat
  OBVIOUS
<1>4. /\ nodes \o more \in Seq(LockNode)
      /\ Len(nodes \o more) = Len(nodes) + n
      /\ \A i \in 1 .. Len(nodes) : (nodes \o more)[i] = nodes[i]
      /\ \A i \in Len(nodes) + 1 .. Len(nodes) + n :
            (nodes \o more)[i] = EmptyNode
  <2>1. ASSUME NEW i \in 1 .. Len(nodes)
        PROVE  (nodes \o more)[i] = nodes[i]
    BY <1>1, <1>2, <1>3
  <2>2. ASSUME NEW i \in Len(nodes) + 1 .. Len(nodes) + n
        PROVE  (nodes \o more)[i] = EmptyNode
    <3>1. i - Len(nodes) \in 1 .. n /\ i \in 1 .. Len(nodes) + Len(more)
          /\ ~(i <= Len(nodes))
      BY <1>1, <1>3
    <3> QED BY <3>1, <1>1, <1>2
  <2> QED BY <1>1, <1>2, <2>1, <2>2
<1> QED BY <1>4 DEF more

(* Taking a free node of a list where nobody holds k keeps the list in     *)
(* order, and k's holder becomes s.                                        *)
LEMMA UseList ==
  ASSUME NEW k \in Cdkeys, NEW s \in Servers,
         NEW nodes \in Seq(LockNode), NEW i \in 1 .. Len(nodes),
         WellPlaced(nodes, Hash[k]), NoDuplicate(nodes),
         ~nodes[i].use,
         \A j \in DOMAIN nodes : ~Holds(nodes[j], k)
  PROVE  LET new == Use(nodes, i, k, s)
         IN  /\ new \in Seq(LockNode)
             /\ Len(new) = Len(nodes)
             /\ new[i] = Taken(k, s)
             /\ \A j \in 1 .. Len(nodes) : j # i => new[j] = nodes[j]
             /\ WellPlaced(new, Hash[k])
             /\ NoDuplicate(new)
<1> DEFINE new == Use(nodes, i, k, s)
<1>1. /\ new \in Seq(LockNode)
      /\ Len(new) = Len(nodes)
      /\ new[i] = Taken(k, s)
      /\ \A j \in 1 .. Len(nodes) : j # i => new[j] = nodes[j]
  BY TakenType DEF Use
<1> HIDE DEF new
<1>2. WellPlaced(new, Hash[k])
  BY <1>1, TakenType DEF WellPlaced
<1>3. NoDuplicate(new)
  BY <1>1, TakenType DEF NoDuplicate, Holds
<1> QED BY <1>1, <1>2, <1>3 DEF new

(* Growing a list keeps it in order.                                       *)
LEMMA GrownInOrder ==
  ASSUME NEW b \in Buckets, NEW nodes \in Seq(LockNode), NEW n \in Nat,
         WellPlaced(nodes, b), NoDuplicate(nodes)
  PROVE  /\ WellPlaced(nodes \o Lock_create(n), b)
         /\ NoDuplicate(nodes \o Lock_create(n))
<1> DEFINE new == nodes \o Lock_create(n)
<1>1. /\ new \in Seq(LockNode)
      /\ Len(new) = Len(nodes) + n
      /\ \A i \in 1 .. Len(nodes) : new[i] = nodes[i]
      /\ \A i \in Len(nodes) + 1 .. Len(nodes) + n : new[i] = EmptyNode
  BY GrownList
<1> HIDE DEF new
<1>2. Len(nodes) \in Nat
  OBVIOUS
<1>3. \A i \in DOMAIN new : new[i].use => i \in 1 .. Len(nodes)
  BY <1>1, <1>2, EmptyNodeType
<1>4. WellPlaced(new, b)
  BY <1>1, <1>3 DEF WellPlaced
<1>5. NoDuplicate(new)
  BY <1>1, <1>3 DEF NoDuplicate
<1> QED BY <1>4, <1>5 DEF new

-----------------------------------------------------------------------------
(* The look-ups of a list in order: the node that holds k is the answer.   *)
LEMMA ServerOfHolder ==
  ASSUME NEW k \in Cdkeys, NEW nodes \in Seq(LockNode), NoDuplicate(nodes),
         NEW i \in DOMAIN nodes, Holds(nodes[i], k)
  PROVE  ServerIn(nodes, k) = nodes[i].server
<1>1. \A j \in DOMAIN nodes : Holds(nodes[j], k) => j = i
  BY DEF NoDuplicate, Holds
<1>2. \A j \in DOMAIN nodes : FirstMatch(nodes, k, j) <=> j = i
  <2>1. \A j \in 1 .. i - 1 : j \in DOMAIN nodes /\ j # i
    OBVIOUS
  <2> QED BY <1>1, <2>1 DEF FirstMatch
<1>3. (CHOOSE j \in DOMAIN nodes : FirstMatch(nodes, k, j)) = i
  BY <1>2
<1> QED BY <1>3 DEF ServerIn, HoldsIn

(* A held account is held by a server.                                     *)
LEMMA ServerInType ==
  ASSUME NEW b \in Buckets, NEW k \in Cdkeys, NEW nodes \in Seq(LockNode),
         WellPlaced(nodes, b), NoDuplicate(nodes)
  PROVE  /\ ServerIn(nodes, k) \in Servers \union {NoServer}
         /\ HoldsIn(nodes, k) <=> ServerIn(nodes, k) # NoServer
<1>1. CASE ~HoldsIn(nodes, k)
  BY <1>1 DEF ServerIn
<1>2. CASE HoldsIn(nodes, k)
  <2>1. PICK i \in DOMAIN nodes : Holds(nodes[i], k)
    BY <1>2 DEF HoldsIn
  <2>2. ServerIn(nodes, k) = nodes[i].server
    BY <2>1, ServerOfHolder
  <2>3. nodes[i].server \in Servers
    BY <2>1 DEF WellPlaced, Holds
  <2> QED BY <1>2, <2>2, <2>3, LockTableAssumption
<1> QED BY <1>1, <1>2

(* Two lists where the same nodes hold k, for the same server, give the    *)
(* same answer; nodes the second one has more are free of k.               *)
LEMMA SameServer ==
  ASSUME NEW k \in Cdkeys,
         NEW old \in Seq(LockNode), NEW new \in Seq(LockNode),
         NoDuplicate(old), NoDuplicate(new),
         Len(old) <= Len(new),
         \A j \in DOMAIN new : Holds(new[j], k) =>
            j \in DOMAIN old /\ Holds(old[j], k),
         \A j \in DOMAIN old : Holds(old[j], k) =>
            Holds(new[j], k) /\ new[j].server = old[j].server
  PROVE  ServerIn(new, k) = ServerIn(old, k)
<1>1. CASE HoldsIn(old, k)
  <2>1. PICK i \in DOMAIN old : Holds(old[i], k)
    BY <1>1 DEF HoldsIn
  <2>2. i \in DOMAIN new /\ Holds(new[i], k) /\ new[i].server = old[i].server
    <3>1. DOMAIN old \subseteq DOMAIN new
      OBVIOUS
    <3> QED BY <2>1, <3>1
  <2> QED BY <2>1, <2>2, ServerOfHolder
<1>2. CASE ~HoldsIn(old, k)
  <2>1. ~HoldsIn(new, k)
    BY <1>2 DEF HoldsIn
  <2> QED BY <1>2, <2>1 DEF ServerIn
<1> QED BY <1>1, <1>2

(* What InsertMemLock does to the answers when it takes a free node.       *)
LEMMA UseView ==
  ASSUME NEW k \in Cdkeys, NEW s \in Servers,
         NEW nodes \in Seq(LockNode), NEW i \in 1 .. Len(nodes),
         WellPlaced(nodes, Hash[k]), NoDuplicate(nodes),
         ~nodes[i].use, ~HoldsIn(nodes, k)
  PROVE  LET new == Use(nodes, i, k, s)
         IN  /\ ServerIn(new, k) = s
             /\ \A m \in Cdkeys : m # k => ServerIn(new, m) = ServerIn(nodes, m)
<1> DEFINE new == Use(nodes, i, k, s)
<1>0. \A j \in DOMAIN nodes : ~Holds(nodes[j], k)
  BY DEF HoldsIn
<1>1. /\ new \in Seq(LockNode)
      /\ Len(new) = Len(nodes)
      /\ new[i] = Taken(k, s)
      /\ \A j \in 1 .. Len(nodes) : j # i => new[j] = nodes[j]
      /\ NoDuplicate(new)
  BY <1>0, UseList
<1> HIDE DEF new
<1>2. ServerIn(new, k) = s
  <2>1. i \in DOMAIN new /\ Holds(new[i], k) /\ new[i].server = s
    BY <1>1, TakenType DEF Holds
  <2> QED BY <1>1, <2>1, ServerOfHolder
<1>3. ASSUME NEW m \in Cdkeys, m # k
      PROVE  ServerIn(new, m) = ServerIn(nodes, m)
  <2>1. DOMAIN new = DOMAIN nodes
    BY <1>1
  <2>2. \A j \in DOMAIN nodes :
          /\ Holds(new[j], m) <=> Holds(nodes[j], m)
          /\ Holds(nodes[j], m) => new[j].server = nodes[j].server
    BY <1>1, <1>3, TakenType DEF Holds
  <2>3. Len(nodes) <= Len(new)
    BY <1>1
  <2> QED BY <1>1, <2>1, <2>2, <2>3, SameServer
<1> QED BY <1>2, <1>3 DEF new

(* Growing a list changes no answer.                                       *)
LEMMA GrownView ==
  ASSUME NEW b \in Buckets, NEW nodes \in Seq(LockNode), NEW n \in Nat,
         WellPlaced(nodes, b), NoDuplicate(nodes), NEW k \in Cdkeys
  PROVE  /\ ServerIn(nodes \o Lock_create(n), k) = ServerIn(nodes, k)
         /\ HoldsIn(nodes \o Lock_create(n), k) <=> HoldsIn(nodes, k)
<1> DEFINE new == nodes \o Lock_create(n)
<1>1. /\ new \in Seq(LockNode)
      /\ Len(new) = Len(nodes) + n
      /\ \A i \in 1 .. Len(nodes) : new[i] = nodes[i]
      /\ \A i \in Len(nodes) + 1 .. Len(nodes) + n : new[i] = EmptyNode
  BY GrownList
<1>2. NoDuplicate(new)
  BY GrownInOrder
<1> HIDE DEF new
<1>3. Len(nodes) \in Nat /\ Len(nodes) <= Len(new)
  BY <1>1
<1>4. \A j \in DOMAIN new : Holds(new[j], k) => j \in DOMAIN nodes /\ Holds(nodes[j], k)
  BY <1>1, <1>3, EmptyNodeType DEF Holds
<1>5. \A j \in DOMAIN nodes : j \in DOMAIN new /\ new[j] = nodes[j]
  BY <1>1, <1>3
<1>6. ServerIn(new, k) = ServerIn(nodes, k)
  BY <1>1, <1>2, <1>3, <1>4, <1>5, SameServer
<1>7. HoldsIn(new, k) <=> HoldsIn(nodes, k)
  BY <1>4, <1>5 DEF HoldsIn
<1> QED BY <1>6, <1>7 DEF new

-----------------------------------------------------------------------------
(* One list, b, is replaced: what Next does except when a server leaves.   *)
LEMMA OneList ==
  ASSUME Inv, NEW b \in Buckets, NEW new \in Seq(LockNode),
         WellPlaced(new, b), NoDuplicate(new),
         g_lock' = [g_lock EXCEPT ![b] = new]
  PROVE  Inv'
<1>1. TypeOK'
  BY DEF Inv, TypeOK
<1>2. ASSUME NEW c \in Buckets
      PROVE  WellPlaced(g_lock'[c], c) /\ NoDuplicate(g_lock'[c])
  BY DEF Inv, TypeOK, AtMostOneNode
<1> QED BY <1>1, <1>2 DEF Inv, AtMostOneNode

(* The same, seen through the map: only k's answer changes, to s.          *)
LEMMA OneListView ==
  ASSUME Inv, NEW k \in Cdkeys, NEW s, NEW new,
         g_lock' = [g_lock EXCEPT ![Hash[k]] = new],
         ServerIn(new, k) = s,
         \A m \in Cdkeys : m # k => ServerIn(new, m) = ServerIn(g_lock[Hash[k]], m)
  PROVE  LockView' = [LockView EXCEPT ![k] = s]
<1>1. Hash \in [Cdkeys -> Buckets]
  BY LockTableAssumption
<1>2. ASSUME NEW m \in Cdkeys
      PROVE  ServerIn(g_lock'[Hash[m]], m) =
               IF m = k THEN s ELSE ServerIn(g_lock[Hash[m]], m)
  <2>1. CASE Hash[m] = Hash[k]
    <3>1. g_lock'[Hash[m]] = new
      BY <1>1, <2>1 DEF Inv, TypeOK
    <3> QED BY <3>1, <2>1
  <2>2. CASE Hash[m] # Hash[k]
    <3>1. g_lock'[Hash[m]] = g_lock[Hash[m]] /\ m # k
      BY <1>1, <2>2 DEF Inv, TypeOK
    <3> QED BY <3>1
  <2> QED BY <2>1, <2>2
<1>3. LockView' = [m \in Cdkeys |-> ServerIn(g_lock'[Hash[m]], m)]
  BY DEF LockView, GetMemLockServer
<1> QED BY <1>2, <1>3 DEF LockView, GetMemLockServer

(* The list of an account, under the invariant.                            *)
LEMMA ListOf ==
  ASSUME Inv, NEW k \in Cdkeys
  PROVE  /\ Hash[k] \in Buckets
         /\ g_lock[Hash[k]] \in Seq(LockNode)
         /\ WellPlaced(g_lock[Hash[k]], Hash[k])
         /\ NoDuplicate(g_lock[Hash[k]])
         /\ LockView[k] = ServerIn(g_lock[Hash[k]], k)
         /\ LM!isLocked(k) <=> isMemLocked(k)
<1>1. /\ Hash[k] \in Buckets
      /\ g_lock[Hash[k]] \in Seq(LockNode)
      /\ WellPlaced(g_lock[Hash[k]], Hash[k])
      /\ NoDuplicate(g_lock[Hash[k]])
      /\ LockView[k] = ServerIn(g_lock[Hash[k]], k)
  BY LockTableAssumption DEF Inv, TypeOK, AtMostOneNode, LockView, GetMemLockServer
<1> QED BY <1>1, ServerInType DEF LM!isLocked, isMemLocked

(* InsertMemLock, called for an account nobody holds.                      *)
LEMMA InsertStep ==
  ASSUME Inv, NEW k \in Cdkeys, NEW s \in Servers,
         ~isMemLocked(k), InsertMemLock(k, s)
  PROVE  /\ Inv'
         /\ LM!Lock(k, s) \/ UNCHANGED LockView
<1> DEFINE nodes == g_lock[Hash[k]]
<1>1. /\ Hash[k] \in Buckets /\ nodes \in Seq(LockNode)
      /\ WellPlaced(nodes, Hash[k]) /\ NoDuplicate(nodes)
      /\ ~HoldsIn(nodes, k) /\ ~LM!isLocked(k)
      /\ LockView[k] = ServerIn(nodes, k)
  BY ListOf DEF isMemLocked
<1>2. ASSUME NEW i \in DOMAIN nodes, FirstUnused(nodes, i),
             g_lock' = [g_lock EXCEPT ![Hash[k]] = Use(nodes, i, k, s)]
      PROVE  Inv' /\ LM!Lock(k, s)
  <2> DEFINE new == Use(nodes, i, k, s)
  <2>0. ~nodes[i].use /\ i \in 1 .. Len(nodes)
    BY <1>1, <1>2 DEF FirstUnused
  <2>1. \A j \in DOMAIN nodes : ~Holds(nodes[j], k)
    BY <1>1 DEF HoldsIn
  <2>2. new \in Seq(LockNode) /\ WellPlaced(new, Hash[k]) /\ NoDuplicate(new)
    BY <1>1, <2>0, <2>1, UseList
  <2>3. /\ ServerIn(new, k) = s
        /\ \A m \in Cdkeys : m # k => ServerIn(new, m) = ServerIn(nodes, m)
    BY <1>1, <2>0, UseView
  <2> HIDE DEF new
  <2>4. g_lock' = [g_lock EXCEPT ![Hash[k]] = new]
    BY <1>2 DEF new
  <2>5. Inv'
    BY <1>1, <2>2, <2>4, OneList
  <2>6. LockView' = [LockView EXCEPT ![k] = s]
    BY <2>3, <2>4, OneListView
  <2> QED BY <1>1, <2>5, <2>6 DEF LM!Lock
<1>3. ASSUME AllUsed(nodes),
             g_lock' = [g_lock EXCEPT ![Hash[k]] =
                          Use(nodes \o Lock_create(Grow), Len(nodes) + 1, k, s)]
      PROVE  Inv' /\ LM!Lock(k, s)
  <2> DEFINE more == nodes \o Lock_create(Grow)
             i == Len(nodes) + 1
             new == Use(more, i, k, s)
  <2>0. Grow \in Nat \ {0} /\ Len(nodes) \in Nat
    BY <1>1, LockTableAssumption
  <2>1. /\ more \in Seq(LockNode) /\ Len(more) = Len(nodes) + Grow
        /\ i \in 1 .. Len(more) /\ more[i] = EmptyNode
    <3>1. /\ more \in Seq(LockNode) /\ Len(more) = Len(nodes) + Grow
          /\ \A j \in Len(nodes) + 1 .. Len(nodes) + Grow : more[j] = EmptyNode
      BY <1>1, <2>0, GrownList
    <3> HIDE DEF more
    <3>2. i \in Len(nodes) + 1 .. Len(nodes) + Grow /\ i \in 1 .. Len(more)
      BY <2>0, <3>1
    <3> QED BY <3>1, <3>2
  <2>2. WellPlaced(more, Hash[k]) /\ NoDuplicate(more)
    BY <1>1, <2>0, GrownInOrder
  <2>3. /\ ~HoldsIn(more, k)
        /\ \A m \in Cdkeys : ServerIn(more, m) = ServerIn(nodes, m)
    BY <1>1, <2>0, GrownView
  <2> HIDE DEF more, i
  <2>4. ~more[i].use /\ \A j \in DOMAIN more : ~Holds(more[j], k)
    BY <2>1, <2>3, EmptyNodeType DEF HoldsIn
  <2>5. new \in Seq(LockNode) /\ WellPlaced(new, Hash[k]) /\ NoDuplicate(new)
    BY <2>1, <2>2, <2>4, UseList
  <2>6. /\ ServerIn(new, k) = s
        /\ \A m \in Cdkeys : m # k => ServerIn(new, m) = ServerIn(nodes, m)
    BY <2>1, <2>2, <2>3, <2>4, UseView
  <2> HIDE DEF new
  <2>7. g_lock' = [g_lock EXCEPT ![Hash[k]] = new]
    BY <1>3 DEF new, more, i
  <2>8. Inv'
    BY <1>1, <2>5, <2>7, OneList
  <2>9. LockView' = [LockView EXCEPT ![k] = s]
    BY <2>6, <2>7, OneListView
  <2> QED BY <1>1, <2>8, <2>9 DEF LM!Lock
<1>4. ASSUME NEW n \in 0 .. Grow - 1,
             g_lock' = [g_lock EXCEPT ![Hash[k]] = nodes \o Lock_create(n)]
      PROVE  Inv' /\ UNCHANGED LockView
  <2> DEFINE new == nodes \o Lock_create(n)
  <2>0. n \in Nat
    BY LockTableAssumption
  <2>1. new \in Seq(LockNode) /\ WellPlaced(new, Hash[k]) /\ NoDuplicate(new)
    BY <1>1, <2>0, GrownList, GrownInOrder
  <2>2. \A m \in Cdkeys : ServerIn(new, m) = ServerIn(nodes, m)
    BY <1>1, <2>0, GrownView
  <2> HIDE DEF new
  <2>3. g_lock' = [g_lock EXCEPT ![Hash[k]] = new]
    BY <1>4 DEF new
  <2>4. Inv'
    BY <1>1, <2>1, <2>3, OneList
  <2>5. PICK now : now = LockView[k]
    OBVIOUS
  <2>6. LockView' = [LockView EXCEPT ![k] = now]
    <3>1. ServerIn(new, k) = now
      BY <1>1, <2>2, <2>5
    <3>2. \A m \in Cdkeys : m # k => ServerIn(new, m) = ServerIn(nodes, m)
      BY <2>2
    <3> QED BY <2>3, <3>1, <3>2, OneListView
  <2>7. UNCHANGED LockView
    BY <2>5, <2>6 DEF LockView
  <2> QED BY <2>4, <2>7
<1> QED BY <1>2, <1>3, <1>4 DEF InsertMemLock

(* DeleteMemLock.                                                          *)
LEMMA DeleteStep ==
  ASSUME Inv, NEW k \in Cdkeys, DeleteMemLock(k)
  PROVE  /\ Inv'
         /\ LM!Unlock(k)
<1> DEFINE nodes == g_lock[Hash[k]]
<1>1. /\ Hash[k] \in Buckets /\ nodes \in Seq(LockNode)
      /\ WellPlaced(nodes, Hash[k]) /\ NoDuplicate(nodes)
      /\ LockView[k] = ServerIn(nodes, k)
  BY ListOf
<1>2. ASSUME NEW i \in DOMAIN nodes, FirstMatch(nodes, k, i),
             g_lock' = [g_lock EXCEPT ![Hash[k]] = [nodes EXCEPT ![i] = EmptyNode]]
      PROVE  Inv' /\ LM!Unlock(k)
  <2> DEFINE new == [nodes EXCEPT ![i] = EmptyNode]
  <2>1. /\ new \in Seq(LockNode) /\ Len(new) = Len(nodes)
        /\ DOMAIN new = DOMAIN nodes
        /\ new[i] = EmptyNode
        /\ \A j \in DOMAIN nodes : j # i => new[j] = nodes[j]
    BY <1>1, EmptyNodeType
  <2> HIDE DEF new
  <2>2. WellPlaced(new, Hash[k])
    BY <1>1, <2>1, EmptyNodeType DEF WellPlaced
  <2>3. NoDuplicate(new)
    BY <1>1, <2>1, EmptyNodeType DEF NoDuplicate
  <2>4. g_lock' = [g_lock EXCEPT ![Hash[k]] = new]
    BY <1>2 DEF new
  <2>5. Inv'
    BY <1>1, <2>1, <2>2, <2>3, <2>4, OneList
  <2>6. Holds(nodes[i], k) /\ \A j \in DOMAIN nodes : Holds(nodes[j], k) => j = i
    BY <1>1, <1>2 DEF FirstMatch, NoDuplicate, Holds
  <2>7. ServerIn(new, k) = NoServer
    <3>1. ~HoldsIn(new, k)
      BY <2>1, <2>6, EmptyNodeType DEF HoldsIn, Holds
    <3> QED BY <3>1 DEF ServerIn
  <2>8. ASSUME NEW m \in Cdkeys, m # k
        PROVE  ServerIn(new, m) = ServerIn(nodes, m)
    <3>1. \A j \in DOMAIN nodes :
            /\ Holds(new[j], m) <=> Holds(nodes[j], m)
            /\ Holds(nodes[j], m) => new[j].server = nodes[j].server
      BY <2>1, <2>6, <2>8, EmptyNodeType DEF Holds
    <3>2. Len(nodes) <= Len(new)
      BY <1>1, <2>1
    <3> QED BY <1>1, <2>1, <2>3, <3>1, <3>2, SameServer
  <2>9. LockView' = [LockView EXCEPT ![k] = NoServer]
    BY <2>4, <2>7, <2>8, OneListView
  <2> QED BY <2>5, <2>9 DEF LM!Unlock
<1>3. ASSUME ~isMemLocked(k), UNCHANGED g_lock
      PROVE  Inv' /\ LM!Unlock(k)
  <2>1. Inv' /\ LockView' = LockView
    BY <1>3 DEF Inv, TypeOK, AtMostOneNode, LockView, GetMemLockServer
  <2>2. LockView[k] = NoServer
    BY <1>1, <1>3 DEF isMemLocked, ServerIn
  <2> QED BY <2>1, <2>2 DEF LM!Unlock, LockView
<1> QED BY <1>2, <1>3 DEF DeleteMemLock

(* DeleteMemLockServer, when a game server of that name logs in.           *)
LEMMA DeleteServerStep ==
  ASSUME Inv, NEW s \in Servers, DeleteMemLockServer(s)
  PROVE  /\ Inv'
         /\ LM!UnlockServer(s)
<1>1. ASSUME NEW b \in Buckets
      PROVE  /\ g_lock'[b] \in Seq(LockNode)
             /\ DOMAIN g_lock'[b] = DOMAIN g_lock[b]
             /\ Len(g_lock'[b]) = Len(g_lock[b])
             /\ \A i \in DOMAIN g_lock[b] :
                  /\ g_lock'[b][i].cdkey = g_lock[b][i].cdkey
                  /\ g_lock'[b][i].server = g_lock[b][i].server
                  /\ g_lock'[b][i].use <=>
                       g_lock[b][i].use /\ g_lock[b][i].server # s
  <2> DEFINE nodes == g_lock[b]
             new == [i \in DOMAIN nodes |->
                       IF nodes[i].use /\ nodes[i].server = s
                         THEN [nodes[i] EXCEPT !.use = FALSE]
                         ELSE nodes[i]]
  <2>1. nodes \in Seq(LockNode)
    BY DEF Inv, TypeOK
  <2>2. g_lock'[b] = new
    BY DEF DeleteMemLockServer
  <2> HIDE DEF nodes
  <2>3. \A i \in DOMAIN nodes : nodes[i] \in LockNode
    BY <2>1
  <2>4. \A i \in DOMAIN nodes :
          /\ new[i] \in LockNode
          /\ new[i].cdkey = nodes[i].cdkey
          /\ new[i].server = nodes[i].server
          /\ new[i].use <=> nodes[i].use /\ nodes[i].server # s
    BY <2>3 DEF LockNode
  <2>5. new \in Seq(LockNode) /\ Len(new) = Len(nodes) /\ DOMAIN new = DOMAIN nodes
    <3>1. Len(nodes) \in Nat /\ DOMAIN nodes = 1 .. Len(nodes)
      BY <2>1
    <3>2. new \in [1 .. Len(nodes) -> LockNode]
      BY <2>4, <3>1
    <3> HIDE DEF new
    <3> QED BY <3>1, <3>2
  <2> HIDE DEF new
  <2> QED BY <2>2, <2>4, <2>5 DEF nodes
<1>2. TypeOK'
  <2>1. DOMAIN g_lock' = Buckets /\ g_lock' = [b \in Buckets |-> g_lock'[b]]
    BY DEF DeleteMemLockServer
  <2> QED BY <1>1, <2>1 DEF TypeOK
<1>3. ASSUME NEW b \in Buckets
      PROVE  WellPlaced(g_lock'[b], b) /\ NoDuplicate(g_lock'[b])
  <2>1. WellPlaced(g_lock[b], b) /\ NoDuplicate(g_lock[b])
    BY DEF Inv, AtMostOneNode
  <2> QED BY <1>1, <2>1 DEF WellPlaced, NoDuplicate
<1>4. Inv'
  BY <1>2, <1>3 DEF Inv, AtMostOneNode
<1>5. ASSUME NEW k \in Cdkeys
      PROVE  ServerIn(g_lock'[Hash[k]], k) =
               IF LockView[k] = s THEN NoServer ELSE LockView[k]
  <2> DEFINE old == g_lock[Hash[k]]
             new == g_lock'[Hash[k]]
  <2>1. /\ Hash[k] \in Buckets /\ old \in Seq(LockNode)
        /\ WellPlaced(old, Hash[k]) /\ NoDuplicate(old)
        /\ LockView[k] = ServerIn(old, k)
    BY ListOf
  <2>2. /\ new \in Seq(LockNode) /\ NoDuplicate(new)
        /\ DOMAIN new = DOMAIN old /\ Len(new) = Len(old)
        /\ \A i \in DOMAIN old :
             /\ Holds(new[i], k) <=> Holds(old[i], k) /\ old[i].server # s
             /\ new[i].server = old[i].server
    BY <1>1, <1>3, <2>1 DEF Holds
  <2> HIDE DEF old, new
  <2>3. CASE HoldsIn(old, k)
    <3>1. PICK i \in DOMAIN old : Holds(old[i], k)
      BY <2>3 DEF HoldsIn
    <3>2. LockView[k] = old[i].server
      BY <2>1, <3>1, ServerOfHolder
    <3>3. CASE old[i].server = s
      <4>1. \A j \in DOMAIN old : Holds(old[j], k) => j = i
        BY <2>1, <3>1 DEF NoDuplicate, Holds
      <4>2. ~HoldsIn(new, k)
        BY <2>2, <3>3, <4>1 DEF HoldsIn
      <4> QED BY <3>2, <3>3, <4>2 DEF ServerIn, new
    <3>4. CASE old[i].server # s
      <4>1. ServerIn(new, k) = new[i].server
        BY <2>2, <3>1, <3>4, ServerOfHolder
      <4> QED BY <2>2, <3>1, <3>2, <3>4, <4>1 DEF new
    <3> QED BY <3>3, <3>4
  <2>4. CASE ~HoldsIn(old, k)
    <3>1. ~HoldsIn(new, k)
      BY <2>2, <2>4 DEF HoldsIn
    <3>2. LockView[k] = NoServer
      BY <2>1, <2>4 DEF ServerIn
    <3> QED BY <3>1, <3>2 DEF ServerIn, new
  <2> QED BY <2>3, <2>4
<1>6. LockView' = [k \in Cdkeys |-> ServerIn(g_lock'[Hash[k]], k)]
  BY DEF LockView, GetMemLockServer
<1> QED BY <1>4, <1>5, <1>6 DEF LM!UnlockServer

-----------------------------------------------------------------------------
(* Lock_Init leaves one free node in every list: nobody holds anything.    *)
LEMMA InitInv ==
  ASSUME Lock_Init
  PROVE  Inv /\ LM!LockInit
<1>1. /\ Lock_create(1) \in Seq(LockNode)
      /\ DOMAIN Lock_create(1) = 1 .. 1
      /\ \A i \in 1 .. 1 : ~Lock_create(1)[i].use
  BY CreateType, EmptyNodeType DEF Lock_create
<1>2. \A b \in Buckets : g_lock[b] = Lock_create(1)
  BY DEF Lock_Init
<1>3. TypeOK
  BY <1>1 DEF Lock_Init, TypeOK
<1>4. AtMostOneNode
  BY <1>1, <1>2 DEF AtMostOneNode, WellPlaced, NoDuplicate
<1>5. ASSUME NEW k \in Cdkeys
      PROVE  GetMemLockServer(k) = NoServer
  <2>1. Hash[k] \in Buckets
    BY LockTableAssumption
  <2>2. ~HoldsIn(g_lock[Hash[k]], k)
    BY <1>1, <1>2, <2>1 DEF HoldsIn, Holds
  <2> QED BY <2>2 DEF GetMemLockServer, ServerIn
<1> QED BY <1>3, <1>4, <1>5 DEF Inv, LM!LockInit, LockView

(* Every operation keeps the invariant and is a step of the map, or leaves *)
(* the map alone.                                                          *)
LEMMA NextInv ==
  ASSUME Inv, [Next]_g_lock
  PROVE  Inv' /\ [LM!LockNext]_LockView
<1>1. ASSUME NEW k \in Cdkeys, NEW s \in Servers, lockUser(k, s, 1)
      PROVE  Inv' /\ [LM!LockNext]_LockView
  <2>1. CASE isMemLocked(k)
    <3>1. UNCHANGED g_lock
      BY <1>1, <2>1 DEF lockUser
    <3> QED BY <3>1 DEF Inv, TypeOK, AtMostOneNode, LockView, GetMemLockServer
  <2>2. CASE ~isMemLocked(k)
    <3>1. InsertMemLock(k, s)
      BY <1>1, <2>2 DEF lockUser
    <3> QED BY <2>2, <3>1, InsertStep DEF LM!LockNext
  <2> QED BY <2>1, <2>2
<1>2. ASSUME NEW k \in Cdkeys, NEW s \in Servers, lockUser(k, s, 0)
      PROVE  Inv' /\ [LM!LockNext]_LockView
  BY <1>2, DeleteStep DEF lockUser, LM!LockNext
<1>3. ASSUME NEW s \in Servers, DeleteMemLockServer(s)
      PROVE  Inv' /\ [LM!LockNext]_LockView
  BY <1>3, DeleteServerStep DEF LM!LockNext
<1>4. CASE UNCHANGED g_lock
  BY <1>4 DEF Inv, TypeOK, AtMostOneNode, LockView, GetMemLockServer
<1> QED BY <1>1, <1>2, <1>3, <1>4 DEF Next

(* The lists stay lists of nodes.                                          *)
THEOREM LockTableTypeOK == Spec => []TypeOK
<1>1. Lock_Init => Inv
  BY InitInv
<1>2. Inv /\ [Next]_g_lock => Inv'
  BY NextInv
<1> QED BY <1>1, <1>2, PTL DEF Spec, Inv

(* An account is never in two nodes, nor in a list its hash does not       *)
(* select: one unlock always releases it.                                  *)
THEOREM LockTableUnique == Spec => []AtMostOneNode
<1>1. Lock_Init => Inv
  BY InitInv
<1>2. Inv /\ [Next]_g_lock => Inv'
  BY NextInv
<1> QED BY <1>1, <1>2, PTL DEF Spec, Inv

(* saac/lock.c implements the account-to-server map.                       *)
THEOREM LockTableRefinesMap == Spec => RefinesLockMap
<1>1. Lock_Init => Inv /\ LM!LockInit
  BY InitInv
<1>2. Inv /\ [Next]_g_lock => Inv' /\ [LM!LockNext]_LockView
  BY NextInv
<1> QED BY <1>1, <1>2, PTL DEF Spec, RefinesLockMap, LM!LockSpec

-----------------------------------------------------------------------------
(* A list whose nodes are all in use has no more nodes than its hash has   *)
(* accounts: each takes one of them.                                       *)
LEMMA FullList ==
  ASSUME NEW b, NEW nodes \in Seq(LockNode),
         WellPlaced(nodes, b), NoDuplicate(nodes), AllUsed(nodes)
  PROVE  Len(nodes) <= Cardinality({k \in Cdkeys : Hash[k] = b})
<1> DEFINE S == 1 .. Len(nodes)
           T == {k \in Cdkeys : Hash[k] = b}
           owner == [i \in S |-> nodes[i].cdkey]
<1>1. DOMAIN nodes = S /\ Len(nodes) \in Nat
  OBVIOUS
<1>2. owner \in Injection(S, T)
  <2>1. \A i \in S : nodes[i].cdkey \in T
    BY <1>1 DEF WellPlaced, AllUsed
  <2>2. \A i, j \in S : nodes[i].cdkey = nodes[j].cdkey => i = j
    BY <1>1 DEF NoDuplicate, AllUsed
  <2> QED BY <2>1, <2>2 DEF Injection, IsInjective
<1>3. IsFiniteSet(T)
  BY FS_Subset, LockTableAssumption DEF LockTableAssumption
<1>4. Cardinality(S) <= Cardinality(T)
  <2> HIDE DEF S, T, owner
  <2> QED BY <1>2, <1>3, FS_Injection
<1>5. Cardinality(S) = Len(nodes)
  BY <1>1, FS_Interval
<1> QED BY <1>4, <1>5

(* An interval that begins at 1 tells its length.                          *)
LEMMA IntervalLength ==
  ASSUME NEW m \in Nat, NEW n \in Nat, 1 .. m = 1 .. n PROVE m = n
<1>1. m > n => m \in 1 .. m /\ m \notin 1 .. n
  OBVIOUS
<1>2. n > m => n \in 1 .. n /\ n \notin 1 .. m
  OBVIOUS
<1> QED BY <1>1, <1>2

(* A list grows only when it is full, and by no more than Grow nodes.      *)
LEMMA InsertLength ==
  ASSUME Inv, NEW k \in Cdkeys, NEW s \in Servers, InsertMemLock(k, s),
         NEW b \in Buckets
  PROVE  \/ Len(g_lock'[b]) = Len(g_lock[b])
         \/ AllUsed(g_lock[b]) /\ Len(g_lock'[b]) <= Len(g_lock[b]) + Grow
<1> DEFINE nodes == g_lock[Hash[k]]
<1>1. /\ g_lock \in [Buckets -> Seq(LockNode)] /\ nodes \in Seq(LockNode)
      /\ Len(nodes) \in Nat /\ Grow \in Nat /\ Len(g_lock[b]) \in Nat
  BY ListOf, LockTableAssumption DEF Inv, TypeOK
<1>2. ASSUME NEW new, g_lock' = [g_lock EXCEPT ![Hash[k]] = new],
             \/ Len(new) = Len(nodes)
             \/ AllUsed(nodes) /\ Len(new) <= Len(nodes) + Grow
      PROVE  \/ Len(g_lock'[b]) = Len(g_lock[b])
             \/ AllUsed(g_lock[b]) /\ Len(g_lock'[b]) <= Len(g_lock[b]) + Grow
  <2> HIDE DEF nodes
  <2>1. CASE b = Hash[k]
    BY <1>1, <1>2, <2>1 DEF nodes
  <2>2. CASE b # Hash[k]
    BY <1>1, <1>2, <2>2
  <2> QED BY <2>1, <2>2
<1>3. CASE \E i \in DOMAIN nodes :
             g_lock' = [g_lock EXCEPT ![Hash[k]] = Use(nodes, i, k, s)]
  <2>1. PICK i \in DOMAIN nodes :
          g_lock' = [g_lock EXCEPT ![Hash[k]] = Use(nodes, i, k, s)]
    BY <1>3
  <2>2. Len(Use(nodes, i, k, s)) = Len(nodes)
    BY <1>1, TakenType DEF Use
  <2> QED BY <1>2, <2>1, <2>2
<1>4. CASE /\ AllUsed(nodes)
           /\ g_lock' = [g_lock EXCEPT ![Hash[k]] =
                           Use(nodes \o Lock_create(Grow), Len(nodes) + 1, k, s)]
  <2> DEFINE more == nodes \o Lock_create(Grow)
  <2>1. more \in Seq(LockNode) /\ Len(more) = Len(nodes) + Grow
    BY <1>1, GrownList
  <2> HIDE DEF more, nodes
  <2>2. Len(Use(more, Len(nodes) + 1, k, s)) = Len(nodes) + Grow
    BY <1>1, <2>1, TakenType DEF Use
  <2>3. Len(Use(more, Len(nodes) + 1, k, s)) <= Len(nodes) + Grow
    BY <1>1, <2>2
  <2> QED BY <1>2, <1>4, <2>3 DEF more, nodes
<1>5. CASE /\ AllUsed(nodes)
           /\ \E n \in 0 .. Grow - 1 :
                g_lock' = [g_lock EXCEPT ![Hash[k]] = nodes \o Lock_create(n)]
  <2>1. PICK n \in 0 .. Grow - 1 :
          g_lock' = [g_lock EXCEPT ![Hash[k]] = nodes \o Lock_create(n)]
    BY <1>5
  <2>2. n \in Nat /\ n <= Grow
    BY <1>1
  <2>3. Len(nodes \o Lock_create(n)) = Len(nodes) + n
    BY <1>1, <2>2, GrownList
  <2>4. Len(nodes \o Lock_create(n)) <= Len(nodes) + Grow
    BY <1>1, <2>2, <2>3
  <2> QED BY <1>2, <1>5, <2>1, <2>4
<1> QED BY <1>3, <1>4, <1>5 DEF InsertMemLock

(* Nothing else changes the length of a list.                              *)
LEMMA NextLength ==
  ASSUME Inv, [Next]_g_lock, NEW b \in Buckets
  PROVE  \/ Len(g_lock'[b]) = Len(g_lock[b])
         \/ AllUsed(g_lock[b]) /\ Len(g_lock'[b]) <= Len(g_lock[b]) + Grow
<1>1. g_lock \in [Buckets -> Seq(LockNode)]
  BY DEF Inv, TypeOK
<1>2. ASSUME NEW k \in Cdkeys, DeleteMemLock(k)
      PROVE  Len(g_lock'[b]) = Len(g_lock[b])
  <2>1. CASE UNCHANGED g_lock
    BY <2>1
  <2>2. CASE \E i \in DOMAIN g_lock[Hash[k]] :
               g_lock' = [g_lock EXCEPT ![Hash[k]] =
                            [g_lock[Hash[k]] EXCEPT ![i] = EmptyNode]]
    <3>1. PICK i \in DOMAIN g_lock[Hash[k]] :
            g_lock' = [g_lock EXCEPT ![Hash[k]] =
                         [g_lock[Hash[k]] EXCEPT ![i] = EmptyNode]]
      BY <2>2
    <3>2. /\ g_lock[Hash[k]] \in Seq(LockNode)
          /\ [g_lock[Hash[k]] EXCEPT ![i] = EmptyNode] \in Seq(LockNode)
          /\ Len([g_lock[Hash[k]] EXCEPT ![i] = EmptyNode]) = Len(g_lock[Hash[k]])
      BY <1>1, ListOf, EmptyNodeType
    <3> QED BY <1>1, <3>1, <3>2
  <2> QED BY <1>2, <2>1, <2>2 DEF DeleteMemLock
<1>3. ASSUME NEW s \in Servers, DeleteMemLockServer(s)
      PROVE  Len(g_lock'[b]) = Len(g_lock[b])
  <2>1. Inv'
    BY <1>3, DeleteServerStep
  <2>2. g_lock'[b] \in Seq(LockNode) /\ g_lock[b] \in Seq(LockNode)
    BY <2>1 DEF Inv, TypeOK
  <2>3. DOMAIN g_lock'[b] = DOMAIN g_lock[b]
    BY <1>3 DEF DeleteMemLockServer
  <2>4. 1 .. Len(g_lock'[b]) = 1 .. Len(g_lock[b])
    BY <2>2, <2>3
  <2>5. Len(g_lock'[b]) \in Nat /\ Len(g_lock[b]) \in Nat
    BY <2>2
  <2> HIDE DEF Inv
  <2> QED BY <2>4, <2>5, IntervalLength
<1> QED BY <1>2, <1>3, InsertLength DEF Next, lockUser

(* The lists never hold more nodes than their accounts and one growth, for *)
(* any number of logins: released nodes are used again (saac/lock.c).      *)
THEOREM LockTableBounded == Spec => []ListsBounded
<1> DEFINE most(b) == Cardinality({k \in Cdkeys : Hash[k] = b})
<1>1. \A b \in Buckets : most(b) \in Nat
  <2> TAKE b \in Buckets
  <2>1. IsFiniteSet({k \in Cdkeys : Hash[k] = b})
    BY FS_Subset, LockTableAssumption DEF LockTableAssumption
  <2> QED BY <2>1, FS_CardinalityType
<1> HIDE DEF most
<1>2. ListsBounded <=> \A b \in Buckets : Len(g_lock[b]) <= most(b) + Grow
  BY DEF ListsBounded, most
<1>3. Lock_Init => ListsBounded
  <2> SUFFICES ASSUME Lock_Init, NEW b \in Buckets
               PROVE  Len(g_lock[b]) <= most(b) + Grow
    BY <1>2
  <2>1. Len(g_lock[b]) = 1
    BY CreateType DEF Lock_Init
  <2> QED BY <1>1, <2>1, LockTableAssumption DEF LockTableAssumption
<1>4. Inv /\ ListsBounded /\ [Next]_g_lock => ListsBounded'
  <2> SUFFICES ASSUME Inv, ListsBounded, [Next]_g_lock, NEW b \in Buckets
               PROVE  Len(g_lock'[b]) <= most(b) + Grow
    BY DEF ListsBounded, most
  <2>1. /\ g_lock[b] \in Seq(LockNode) /\ Len(g_lock[b]) \in Nat
        /\ WellPlaced(g_lock[b], b) /\ NoDuplicate(g_lock[b])
    BY DEF Inv, TypeOK, AtMostOneNode
  <2>2. CASE Len(g_lock'[b]) = Len(g_lock[b])
    BY <1>2, <2>2
  <2>3. CASE AllUsed(g_lock[b]) /\ Len(g_lock'[b]) <= Len(g_lock[b]) + Grow
    <3>1. Len(g_lock[b]) <= most(b)
      BY <2>1, <2>3, FullList DEF most
    <3>2. Inv' => Len(g_lock'[b]) \in Nat
      BY DEF Inv, TypeOK
    <3>3. Len(g_lock'[b]) \in Nat
      BY <3>2, NextInv
    <3> QED BY <1>1, <2>1, <2>3, <3>1, <3>3, LockTableAssumption DEF LockTableAssumption
  <2> QED BY <2>2, <2>3, NextLength
<1>5. Lock_Init => Inv
  BY InitInv
<1>6. Inv /\ [Next]_g_lock => Inv'
  BY NextInv
<1> QED BY <1>3, <1>4, <1>5, <1>6, PTL DEF Spec
=============================================================================
