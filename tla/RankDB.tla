------------------------------- MODULE RankDB -------------------------------
(***************************************************************************)
(* The ranking database of SAAC (saac/db.c): tables of (key, value) kept   *)
(* as a doubly linked list, sorted by value in the integer tables, with a  *)
(* hash table from keys to list nodes.  All tables take their nodes from   *)
(* one pool.  The tables live in memory, dbFlush writes them out from time *)
(* to time and dbRead loads them when SAAC starts.  What dbFlush writes it *)
(* unescapes where it stands, in memory.  An integer table has a text      *)
(* beside each value (six numbers), a string table has a text for a value; *)
(* the former is left out, and no text holds an escaped line break, which  *)
(* would end its line in the file.                                         *)
(* Indices start at 1 and Nil = 0 stands for the code's -1.                *)
(***************************************************************************)
EXTENDS Integers, Sequences, FiniteSets, SequencesExt

CONSTANTS
  IntTables, StringTables,   \* DB_INT_SORTED and DB_STRING tables
  Keys, Values,
  Inputs,     \* the <<table, key, value>> the game servers write
  Unescape,   \* makeStringFromEscaped, on the values of string tables
  Hash,       \* hashpjwEx(key, HASH_PRIME)
  Prime,      \* HASH_PRIME: first entries of a chain
  Grow,       \* DBINIT_SIZE and HASH_SIZE: how much an array grows
  MaxNodes    \* bound of the model: no node is taken for an update while this
              \* many are in use

ASSUME RankDBAssumption ==
  /\ IntTables \intersect StringTables = {}
  /\ IsFiniteSet(IntTables \union StringTables)   \* dbt[MAXTABLE]
  /\ Values \subseteq Nat /\ \E m \in Values : \A v \in Values : v <= m
  /\ Inputs \subseteq (IntTables \union StringTables) \X Keys \X Values
  /\ Prime \in Nat \ {0} /\ Grow \in Nat \ {0} /\ MaxNodes \in Nat
  /\ Hash \in [Keys -> 1 .. Prime]
  /\ Unescape \in [Values -> Values]

VARIABLES
  db,        \* the memory: [entry, finder, table]
  file,      \* file[t]: the lines of the table's file
  written,   \* ghost: the last value given to a key, as every dbFlush that wrote it
             \* since has unescaped it, Absent when it was deleted
  cut        \* ghost: <<t, k>> whose hash entry is cut off its chain

vars == <<db, file, written, cut>>

Nil == 0
Absent == -1        \* what dbGetEntryInt returns for a key that is not there
Tables == IntTables \union StringTables
Above == 1 + (CHOOSE m \in Values : \A v \in Values : v <= m)   \* 0x7fffffff
TopKey == "top_node"

DBEntry(v, k) == [use |-> TRUE, ivalue |-> v, key |-> k, prev |-> Nil, next |-> Nil]
NoEntry == [use |-> FALSE, ivalue |-> 0, key |-> TopKey, prev |-> Nil, next |-> Nil]
HashEntry(k, ind, prev, next) ==
  [use |-> TRUE, key |-> k, dbind |-> ind, prev |-> prev, next |-> next]
NoHash == [use |-> FALSE, key |-> TopKey, dbind |-> Nil, prev |-> Nil, next |-> Nil]
NoTable == [top |-> Nil, hash |-> <<>>, finder |-> Prime, updated |-> FALSE]

EmptyDB == [entry |-> <<>>, finder |-> 1, table |-> [t \in Tables |-> NoTable]]

Init ==
  /\ db = EmptyDB
  /\ file = [t \in Tables |-> <<>>]
  /\ written = [t \in Tables |-> [k \in Keys |-> Absent]]
  /\ cut = {}

-----------------------------------------------------------------------------
(* Allocation: the first free element met going round the part of s above  *)
(* low, starting behind the finder; when there is none, s grows.           *)
Scan(s, low, finder) ==
  LET free == {i \in low + 1 .. Len(s) : ~s[i].use}
      turn(i) == (i - finder - 1) % (Len(s) - low)
  IN  IF free = {} THEN Len(s) + 1
      ELSE CHOOSE i \in free : \A j \in free : turn(i) <= turn(j)

Enlarged(s, i, blank) ==
  IF i <= Len(s) THEN s
  ELSE [j \in 1 .. Len(s) + Grow |-> IF j <= Len(s) THEN s[j] ELSE blank]

(* The pool of nodes after dbAllocNode, holding x at the node found.       *)
dbAllocNode(d) == Scan(d.entry, 0, d.finder)
WithNode(d, i, x) ==
  [d EXCEPT !.entry = [Enlarged(@, i, NoEntry) EXCEPT ![i] = x], !.finder = i]

(* Linking in a list of nodes e.                                           *)
LinkAfter(e, i, pos) ==
  LET nx == e[pos].next IN
  [j \in DOMAIN e |->
     IF j = i THEN [e[j] EXCEPT !.prev = pos, !.next = nx]
     ELSE IF j = pos THEN [e[j] EXCEPT !.next = i]
     ELSE IF j = nx THEN [e[j] EXCEPT !.prev = i]
     ELSE e[j]]

Unlink(e, i) ==
  [j \in DOMAIN e |->
     IF j # Nil /\ j = e[i].prev THEN [e[j] EXCEPT !.next = e[i].next]
     ELSE IF j # Nil /\ j = e[i].next THEN [e[j] EXCEPT !.prev = e[i].prev]
     ELSE e[j]]

(* Nothing is read from a freed node or hash entry, so its fields are      *)
(* modelled as blank.                                                      *)
Freed(e, i, blank) == [j \in DOMAIN e |-> IF j = i THEN blank ELSE Unlink(e, i)[j]]

dbReleaseNode(e, i) == Freed(e, i, NoEntry)

(* dbInsertNodeByIValue: behind the last node that is not smaller.         *)
InsertPosition(e, top, v) ==
  LET walk[c \in DOMAIN e] ==
        IF e[c].next = Nil \/ e[e[c].next].ivalue < v THEN c ELSE walk[e[c].next]
  IN  walk[top]

(* dbUpdateEntryInt, a key that is there: the node moves up past smaller   *)
(* values, or else down past larger ones.                                  *)
UpPosition(e, i, v) ==
  LET walk[p \in DOMAIN e] ==
        IF e[p].prev = Nil \/ v <= e[e[p].prev].ivalue THEN p ELSE walk[e[p].prev]
  IN  walk[i]

DownPosition(e, i, v) ==
  LET walk[p \in DOMAIN e] ==
        IF e[p].next = Nil \/ v >= e[e[p].next].ivalue THEN p ELSE walk[e[p].next]
  IN  walk[i]

(* Variant: a node never moves down.                                       *)
Moved_upOnly(e, i, v) ==
  LET f == [e EXCEPT ![i].ivalue = v]
      up == UpPosition(f, i, v)
  IN  IF up # i THEN LinkAfter(Unlink(f, i), i, f[up].prev) ELSE f

Moved(e, i, v) ==
  LET f == [e EXCEPT ![i].ivalue = v]
      up == UpPosition(f, i, v)
      down == DownPosition(f, i, v)
  IN  IF up # i THEN LinkAfter(Unlink(f, i), i, f[up].prev)
      ELSE IF down # i THEN LinkAfter(Unlink(f, i), i, down)
      ELSE f

-----------------------------------------------------------------------------
(* Variant: any entry in use in the chain will do.                         *)
tableGetEntry_anyKey(tab, k) == IF tab.hash[Hash[k]].use THEN Hash[k] ELSE Nil

(* The hash table: a chain starts at its primary entry.  A chain whose     *)
(* primary entry is free counts as empty, whatever that entry links to.    *)
tableGetEntry(tab, k) ==
  LET h == tab.hash
      find[i \in {Nil} \union DOMAIN h] ==
        IF i = Nil THEN Nil
        ELSE IF h[i].use /\ h[i].key = k THEN i ELSE find[h[i].next]
  IN  IF h[Hash[k]].use THEN find[Hash[k]] ELSE Nil

tableInsertNode(tab, k, ind) ==
  LET h == tab.hash
      p == Hash[k]
      i == Scan(h, Prime, tab.finder)
      nx == h[p].next
  IN  IF ~h[p].use
        THEN [tab EXCEPT !.hash[p] = HashEntry(k, ind, Nil, Nil)]
        ELSE [tab EXCEPT
               !.finder = i,
               !.hash = [j \in 1 .. Len(Enlarged(h, i, NoHash)) |->
                  IF j = i THEN HashEntry(k, ind, p, nx)
                  ELSE IF j = p THEN [h[j] EXCEPT !.next = i]
                  ELSE IF j = nx THEN [h[j] EXCEPT !.prev = i]
                  ELSE Enlarged(h, i, NoHash)[j]]]

tableReleaseNode(tab, i) ==
  [tab EXCEPT !.hash = Freed(@, i, NoHash)]

(* dbGetTableIndex: a table is created by the first call that names it.    *)
dbGetTableIndex(d, t) ==
  IF d.table[t].top # Nil THEN d
  ELSE LET i == dbAllocNode(d) IN
       [WithNode(d, i, DBEntry(Above, TopKey)) EXCEPT
          !.table[t] = [top |-> i, hash |-> [j \in 1 .. Prime + Grow |-> NoHash],
                        finder |-> Prime + 1, updated |-> FALSE]]

-----------------------------------------------------------------------------
(* The operations, as functions of the memory.  A new node is linked       *)
(* behind the node pos of the list, which it is not in yet.                *)
NewEntry(d, t, k, v, pos) ==
  LET i == dbAllocNode(d)
      g == WithNode(d, i, DBEntry(v, k))
  IN  [g EXCEPT !.entry = LinkAfter(@, i, pos),
                !.table[t] = [tableInsertNode(@, k, i) EXCEPT !.updated = TRUE]]

dbUpdateEntryInt(d0, t, k, v) ==
  LET d == dbGetTableIndex(d0, t)
      h == tableGetEntry(d.table[t], k)
      top == d.table[t].top
  IN  IF h = Nil
        THEN NewEntry(d, t, k, v, InsertPosition(d.entry, top, v))
        ELSE [d EXCEPT !.entry = Moved(@, d.table[t].hash[h].dbind, v),
                       !.table[t].updated = TRUE]

dbUpdateEntryString(d0, t, k, v) ==
  LET d == dbGetTableIndex(d0, t)
      h == tableGetEntry(d.table[t], k)
      top == d.table[t].top
  IN  IF h = Nil
        THEN NewEntry(d, t, k, v, top)          \* dbAppendNode
        ELSE [d EXCEPT !.entry[d.table[t].hash[h].dbind].ivalue = v,
                       !.table[t].updated = TRUE]

Update(d, t, k, v) ==
  IF t \in IntTables THEN dbUpdateEntryInt(d, t, k, v) ELSE dbUpdateEntryString(d, t, k, v)

(* Variant: the node goes back to the pool but its hash entry stays.       *)
dbDeleteEntry_half(d0, t, k) ==
  LET d == dbGetTableIndex(d0, t)
      h == tableGetEntry(d.table[t], k)
  IN  IF h = Nil THEN d
      ELSE [d EXCEPT !.entry = dbReleaseNode(@, d.table[t].hash[h].dbind),
                     !.table[t].updated = TRUE]

(* dbDeleteEntryInt and dbDeleteEntryString (dbExtractNodeByKey).          *)
dbDeleteEntry(d0, t, k) ==
  LET d == dbGetTableIndex(d0, t)
      h == tableGetEntry(d.table[t], k)
  IN  IF h = Nil THEN d
      ELSE [d EXCEPT !.entry = dbReleaseNode(@, d.table[t].hash[h].dbind),
                     !.table[t] = [tableReleaseNode(@, h) EXCEPT !.updated = TRUE]]

(* dbGetEntryInt and dbGetEntryString.                                     *)
Get(d, t, k) ==
  IF d.table[t].top = Nil THEN Absent
  ELSE LET h == tableGetEntry(d.table[t], k) IN
       IF h = Nil THEN Absent ELSE d.entry[d.table[t].hash[h].dbind].ivalue

(* The list of a table behind its top node, as dbFlush walks it.           *)
Listing(d, t) ==
  LET from[i \in {Nil} \union DOMAIN d.entry] ==
        IF i = Nil THEN <<>> ELSE <<i>> \o from[d.entry[i].next]
  IN  IF d.table[t].top = Nil THEN <<>> ELSE Tail(from[d.table[t].top])

Lines(d, t) ==
  LET l == Listing(d, t) IN
  [i \in DOMAIN l |-> <<d.entry[l[i]].key, d.entry[l[i]].ivalue>>]

(* dbGetEntryRank: the position of the first entry of the run of equal     *)
(* values the key belongs to.                                              *)
dbGetEntryRank(d, t, k) ==
  LET l == Lines(d, t)
      at == CHOOSE i \in DOMAIN l : l[i][1] = k /\ \A j \in 1 .. i - 1 : l[j][1] # k
      run == {i \in 1 .. at : \A j \in i .. at : l[j][2] = l[at][2]}
  IN  (CHOOSE i \in run : \A j \in run : i <= j) - 1

-----------------------------------------------------------------------------
Room(d) == Cardinality({i \in DOMAIN d.entry : d.entry[i].use}) < MaxNodes

(* Keys whose entry hangs behind the primary entry the deletion of k frees.*)
Behind(t, k) ==
  LET tab == db.table[t] IN
  IF tab.top = Nil THEN {}
  ELSE IF tableGetEntry(tab, k) # Hash[k] THEN {}
  ELSE {j \in Keys \ {k} : Hash[j] = Hash[k] /\ tableGetEntry(tab, j) # Nil}

UpdateEntry(t, k, v) ==
  /\ Room(db)
  /\ db' = Update(db, t, k, v)
  /\ written' = [written EXCEPT ![t][k] = v]
  /\ cut' = cut \ {<<t, k>>}
  /\ UNCHANGED file

DeleteEntry(t, k) ==
  /\ db' = dbDeleteEntry(db, t, k)
  /\ IF Get(db, t, k) = Absent
       THEN UNCHANGED <<written, cut>>              \* "no such key"
       ELSE /\ written' = [written EXCEPT ![t][k] = Absent]
            /\ cut' = cut \union {<<t, j>> : j \in Behind(t, k)}
  /\ UNCHANGED file

Query(t) ==
  /\ db.table[t].top = Nil
  /\ Room(db)
  /\ db' = dbGetTableIndex(db, t)
  /\ UNCHANGED <<file, written, cut>>

(* The string tables of S that dbFlush writes, and the memory when it has: *)
(* makeStringFromEscaped leaves every text of theirs unescaped.            *)
Texts(d, S) == {t \in S \intersect StringTables : d.table[t].updated}

Unescaped(d, S) ==
  LET nodes == UNION {Range(Listing(d, t)) : t \in Texts(d, S)} IN
  [d EXCEPT !.entry = [i \in DOMAIN d.entry |->
     IF i \in nodes THEN [d.entry[i] EXCEPT !.ivalue = Unescape[@]] ELSE d.entry[i]]]

(* Variant: the walk starts at the top node.                               *)
Stored_withTop(d, t) ==
  IF d.table[t].updated THEN <<<<TopKey, Above>>>> \o Lines(d, t) ELSE file[t]

Stored(d, t) == IF d.table[t].updated THEN Lines(d, t) ELSE file[t]

(* dbFlush: a file that cannot be opened is left for the next time.        *)
dbFlush(failed) ==
  LET d == Unescaped(db, Tables \ failed)
      Worn(t, v) == IF t \in Texts(db, Tables \ failed) /\ v # Absent THEN Unescape[v] ELSE v
  IN /\ file' = [t \in Tables |-> IF t \in failed THEN file[t] ELSE Stored(d, t)]
     /\ db' = [d EXCEPT !.table =
                 [t \in Tables |-> IF t \in failed THEN @[t]
                                   ELSE [@[t] EXCEPT !.updated = FALSE]]]
     /\ written' = [t \in Tables |-> [k \in Keys |-> Worn(t, written[t][k])]]
     /\ UNCHANGED cut

(* Variant: every line appended as read, behind the top node.              *)
dbRead_unsorted(f) ==
  LET load(d, t) == FoldLeft(LAMBDA e, ln : dbUpdateEntryString(e, t, ln[1], ln[2]), d, f[t])
  IN  FoldLeft(load, EmptyDB, SetToSeq(Tables))

(* dbRead: every line of every file through the update functions.          *)
dbRead(f) ==
  LET load(d, t) == FoldLeft(LAMBDA e, ln : Update(e, t, ln[1], ln[2]), d, f[t])
  IN  FoldLeft(load, EmptyDB, SetToSeq(Tables))

(* SAAC stops, at rest or while dbFlush writes table t, and starts again.  *)
Restart(f) ==
  /\ file' = f
  /\ db' = dbRead(f)
  /\ written' = [t \in Tables |-> [k \in Keys |-> Get(db', t, k)]]
  /\ cut' = {}

CutShort(t) ==
  LET lines == Lines(Unescaped(db, {t}), t) IN
  /\ db.table[t].updated
  /\ \E n \in 0 .. Len(lines) : Restart([file EXCEPT ![t] = SubSeq(lines, 1, n)])

Next ==
  \/ \E in \in Inputs : UpdateEntry(in[1], in[2], in[3]) \/ DeleteEntry(in[1], in[2])
  \/ \E t \in Tables : Query(t) \/ CutShort(t)
  \/ \E failed \in SUBSET Tables : dbFlush(failed)
  \/ Restart(file)

Spec == Init /\ [][Next]_vars
-----------------------------------------------------------------------------
Node == [use : BOOLEAN, ivalue : Values \union {0, Above}, key : Keys \union {TopKey},
         prev : Nat, next : Nat]
Hashed == [use : BOOLEAN, key : Keys \union {TopKey}, dbind : Nat, prev : Nat, next : Nat]
TypeOK ==
  /\ db.entry \in Seq(Node)
  /\ \A t \in Tables : /\ db.table[t].hash \in Seq(Hashed)
                       /\ db.table[t].top \in Nat
  /\ \A t \in Tables : file[t] \in Seq(Keys \X Values)

Live(t) == {i \in DOMAIN db.entry : \E j \in DOMAIN Listing(db, t) : Listing(db, t)[j] = i}

(* The tables share the pool without sharing a node: a node in use is the  *)
(* top node of a table or on exactly one list, linked both ways, and the   *)
(* hash entries in use of that table point at it exactly once.  A node     *)
(* freed while a hash entry still names it would be reused by another key  *)
(* and the old key would then move or free the new one.                    *)
PoolConsistent ==
  /\ \A t \in Tables : LET l == Listing(db, t) IN
       /\ \A i \in DOMAIN l : /\ db.entry[l[i]].use
                              /\ db.entry[l[i]].prev = IF i = 1 THEN db.table[t].top ELSE l[i - 1]
       /\ \A n \in Live(t) : \E i \in DOMAIN db.table[t].hash :
            /\ db.table[t].hash[i].use /\ db.table[t].hash[i].dbind = n
            /\ db.table[t].hash[i].key = db.entry[n].key
       /\ Cardinality({i \in DOMAIN db.table[t].hash : db.table[t].hash[i].use}) = Len(l)
  /\ Cardinality({i \in DOMAIN db.entry : db.entry[i].use}) =
       Cardinality(UNION {Live(t) : t \in Tables})
         + Cardinality({t \in Tables : db.table[t].top # Nil})

(* What dbGetEntryRank reports for a key is the number of entries with a   *)
(* strictly larger value, however the list came to its order.              *)
RankIsCountAbove ==
  \A t \in IntTables : LET l == Lines(db, t) IN
    \A i \in DOMAIN l :
      (\A j \in 1 .. i - 1 : l[j][1] # l[i][1]) =>
        dbGetEntryRank(db, t, l[i][1]) = Cardinality({j \in DOMAIN l : l[j][2] > l[i][2]})

(* The value last given to a key is the value read, until the key is       *)
(* deleted: a number as it was given, a text unescaped once for every time *)
(* its table was written out since, so a text without escapes as it was    *)
(* given too.  The one exception is a key whose hash entry was cut off when*)
(* the first entry of its chain was deleted, which reads as absent.        *)
ReadBack ==
  \A t \in Tables, k \in Keys :
    Get(db, t, k) = IF <<t, k>> \in cut THEN Absent ELSE written[t][k]

(* A restart brings back the ranking the file holds, entry by entry and in *)
(* the same order, unless a key cut off and inserted again stands in the   *)
(* file twice.                                                             *)
Once(l) == \A i, j \in DOMAIN l : l[i][1] = l[j][1] => i = j
RestartRestores ==
  LET d == dbRead(file) IN
  \A t \in IntTables : Once(file[t]) => Lines(d, t) = file[t]
=============================================================================
