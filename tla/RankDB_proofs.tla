--------------------------- MODULE RankDB_proofs ---------------------------
(***************************************************************************)
(* Proofs about the ranking database.  The invariant, RankInv, says that   *)
(* the memory is sound (DbOK): with a labelling o of the nodes by their    *)
(* table, the nodes in use are linked both ways along lists without cycle, *)
(* one per table, that start at its top node and are sorted in an integer  *)
(* table; the hash entries in use of a table, each on the chain the        *)
(* labelling c gives it or cut off, match the nodes of its list.  Lists    *)
(* and chains are one notion, Linked: the links agree in both directions,  *)
(* stay in one label and fall along a rank, so that every walk ends.  Each *)
(* operation is shown to keep the memory sound, to do to its own key what  *)
(* the name says and to leave the other tables alone.  The recursive walks *)
(* and the folds of dbRead are reached through a solution of the recursion *)
(* that induction over natural numbers, stated of sets, provides.          *)
(***************************************************************************)
EXTENDS RankDB, NaturalsInduction, WellFoundedInduction, FiniteSetTheorems,
        SequenceTheorems, TLAPS

-----------------------------------------------------------------------------
(* Recursions and walks over finite sets.                                *)

(* A set of natural numbers that is not empty has a least member.        *)
LEMMA LeastNat ==
  ASSUME NEW S, S \subseteq Nat, S # {}
  PROVE  \E m \in S : \A n \in S : m <= n
<1> DEFINE R == OpToRel(<, Nat)
<1>1. PICK m \in S : \A n \in S : ~(<<n, m>> \in R)
  <2>1. IsWellFoundedOn(R, Nat)
    BY NatLessThanWellFounded
  <2> HIDE DEF R
  <2> QED BY Zenon, <2>1, WFMin
<1>2. ASSUME NEW n \in S PROVE m <= n
  <2>1. ~(n < m)
    BY Zenon, <1>1 DEF OpToRel
  <2> QED BY <2>1
<1> QED BY <1>2

(* The member of a set where a function to the natural numbers is least. *)
LEMMA LeastOf ==
  ASSUME NEW S, S # {}, NEW r, \A x \in S : r[x] \in Nat
  PROVE  \E m \in S : \A n \in S : r[m] <= r[n]
<1> DEFINE V == {r[x] : x \in S}
<1>1. PICK v \in V : \A w \in V : v <= w
  <2>1. V \subseteq Nat /\ V # {}
    OBVIOUS
  <2> HIDE DEF V
  <2> QED BY Zenon, <2>1, LeastNat
<1> QED BY <1>1

(* Outside st, nx leads to a member of D of lower rank.                  *)
Falls(D, st, nx, r, M) ==
  /\ \A c \in D : r[c] \in 0 .. M
  /\ \A c \in D : c \notin st => nx[c] \in D /\ r[nx[c]] < r[c]

(* The values of a recursion are in R.                                   *)
Yields(D, st, base, comb, R) ==
  /\ \A c \in D : c \in st => base[c] \in R
  /\ \A c \in D, x \in R : comb[c][x] \in R

(* A recursion along nx that stops in st has a solution.                 *)
LEMMA RecursionExists ==
  ASSUME NEW D, NEW st, NEW nx, NEW M \in Nat, NEW r, Falls(D, st, nx, r, M),
         NEW R, NEW base, NEW comb, Yields(D, st, base, comb, R)
  PROVE  \E f \in [D -> R] :
           \A c \in D : f[c] = IF c \in st THEN base[c] ELSE comb[c][f[nx[c]]]
<1> USE DEF Falls, Yields
<1> DEFINE Below(n) == {c \in D : r[c] < n}
           Solves(n, f) == /\ f \in [Below(n) -> R]
                           /\ \A c \in Below(n) : f[c] = IF c \in st THEN base[c]
                                                         ELSE comb[c][f[nx[c]]]
           Bad == {n \in Nat : ~\E f : Solves(n, f)}
<1>1. ASSUME Bad # {} PROVE FALSE
  <2>1. PICK n \in Bad : \A m \in Bad : n <= m
    <3> HIDE DEF Bad
    <3>1. Bad \subseteq Nat
      BY DEF Bad
    <3> QED BY Zenon, <1>1, <3>1, LeastNat
  <2>2. n # 0
    <3>1. Solves(0, [c \in Below(0) |-> base[c]])
      <4>1. Below(0) = {}
        OBVIOUS
      <4> QED BY <4>1
    <3> HIDE DEF Solves
    <3> QED BY <2>1, <3>1
  <2>3. n - 1 \in Nat /\ n - 1 \notin Bad
    <3> HIDE DEF Solves
    <3>1. n \in Nat /\ n - 1 \in Nat /\ ~(n <= n - 1)
      BY <2>1, <2>2
    <3> QED BY <2>1, <3>1
  <2>4. PICK f : Solves(n - 1, f)
    BY Zenon, <2>3
  <2> DEFINE g == [c \in Below(n) |-> IF r[c] < n - 1 THEN f[c]
                                      ELSE IF c \in st THEN base[c] ELSE comb[c][f[nx[c]]]]
  <2>5. \A c \in Below(n) : c \notin st => nx[c] \in Below(n - 1) /\ nx[c] \in Below(n)
    BY <2>1
  <2>6. \A c \in Below(n - 1) : f[c] \in R
    BY <2>4
  <2>7. \A c \in Below(n) : g[c] \in R
    BY <2>5, <2>6
  <2>8. \A c \in Below(n) : g[c] = IF c \in st THEN base[c] ELSE comb[c][g[nx[c]]]
    <3>1. ASSUME NEW c \in Below(n), c \notin st
          PROVE  g[c] = comb[c][f[nx[c]]] /\ g[nx[c]] = f[nx[c]]
      <4>1. r[c] < n - 1 => f[c] = comb[c][f[nx[c]]]
        BY <2>4, <3>1
      <4> QED BY <2>5, <3>1, <4>1
    <3>2. ASSUME NEW c \in Below(n), c \in st
          PROVE  g[c] = base[c]
      BY <2>4, <3>2
    <3> QED BY <3>1, <3>2
  <2>9. Solves(n, g)
    BY <2>7, <2>8
  <2> QED BY <2>1, <2>9
<1>2. PICK f : Solves(M + 1, f)
  <2>1. M + 1 \notin Bad
    BY Zenon, <1>1
  <2> HIDE DEF Solves
  <2> QED BY <2>1
<1>3. Below(M + 1) = D
  OBVIOUS
<1> QED BY Zenon, <1>2, <1>3

(* f follows nx until it stops in st.                                    *)
Walk(D, st, nx, f) == f = [c \in D |-> IF c \in st THEN c ELSE f[nx[c]]]

(* There is such a function.                                             *)
LEMMA WalkExists ==
  ASSUME NEW D, NEW st, NEW nx, NEW M \in Nat, NEW r, Falls(D, st, nx, r, M)
  PROVE  \E f : Walk(D, st, nx, f)
<1> DEFINE base == [c \in D |-> c]
           comb == [c \in D |-> [x \in D |-> x]]
<1>1. Yields(D, st, base, comb, D)
  BY DEF Yields
<1>2. PICK f \in [D -> D] : \A c \in D : f[c] = IF c \in st THEN base[c] ELSE comb[c][f[nx[c]]]
  <2> HIDE DEF base, comb
  <2> QED BY <1>1, RecursionExists
<1>3. \A c \in D : f[c] = IF c \in st THEN c ELSE f[nx[c]]
  BY Zenon, <1>2 DEF Falls
<1>4. f = [c \in D |-> IF c \in st THEN c ELSE f[nx[c]]]
  BY <1>2, <1>3
<1> QED BY <1>4 DEF Walk

(* Outside st, nx leads to a member of T, of lower rank.                 *)
Stays(T, st, nx, r) ==
  \A c \in T : r[c] \in Nat /\ (c \notin st => nx[c] \in T /\ r[nx[c]] < r[c])

(* It stops, and never leaves a set T that it cannot step out of.        *)
LEMMA WalkEnds ==
  ASSUME NEW D, NEW r, NEW st, NEW nx, NEW f, Walk(D, st, nx, f),
         NEW T, T \subseteq D, Stays(T, st, nx, r), NEW a \in T
  PROVE  f[a] \in T /\ f[a] \in st
<1> USE DEF Stays
<1> DEFINE Bad == {c \in T : ~(f[c] \in T /\ f[c] \in st)}
<1> SUFFICES ASSUME Bad # {} PROVE FALSE
  OBVIOUS
<1>1. PICK c \in Bad : \A b \in Bad : r[c] <= r[b]
  <2>1. \A x \in Bad : r[x] \in Nat
    OBVIOUS
  <2> HIDE DEF Bad
  <2> QED BY Zenon, <2>1, LeastOf
<1>2. f[c] = IF c \in st THEN c ELSE f[nx[c]]
  BY DEF Walk
<1>3. c \notin st /\ nx[c] \in T /\ r[nx[c]] < r[c] /\ f[c] = f[nx[c]]
  BY <1>2
<1>4. nx[c] \notin Bad
  BY <1>1, <1>3
<1> QED BY <1>3, <1>4
-----------------------------------------------------------------------------
(* Doubly linked lists in arrays of cells.                               *)

(* e is an array of cells with the links prev and next.                  *)
Cells(e) ==
  /\ DOMAIN e \subseteq Nat \ {Nil}
  /\ \A i \in DOMAIN e : {"prev", "next"} \subseteq DOMAIN e[i]

(* e2 has the cells of e but for their links.                            *)
Relinked(e, e2) ==
  /\ DOMAIN e2 = DOMAIN e
  /\ \A j \in DOMAIN e : /\ DOMAIN e2[j] = DOMAIN e[j]
                         /\ \A x \in DOMAIN e[j] \ {"prev", "next"} : e2[j][x] = e[j][x]

(* The cells L of e are linked both ways, along next the rank r falls,   *)
(* and what is linked has the same label.                                *)
Links(e, L, lab, r) ==
  \A i \in L :
    /\ e[i].next # Nil => /\ e[i].next \in L /\ e[e[i].next].prev = i
                          /\ lab[e[i].next] = lab[i] /\ r[e[i].next] < r[i]
    /\ e[i].prev # Nil => e[i].prev \in L /\ e[e[i].prev].next = i

Linked(e, L, lab) ==
  /\ Cells(e) /\ L \subseteq DOMAIN e
  /\ \E M \in Nat : \E r \in [Nat -> 0 .. M] : Links(e, L, lab, r)

(* What LinkAfter does to each cell.                                     *)
LEMMA LinkAfterCells ==
  ASSUME NEW e, Cells(e), NEW i \in DOMAIN e, NEW pos \in DOMAIN e, i # pos
  PROVE  /\ Cells(LinkAfter(e, i, pos)) /\ Relinked(e, LinkAfter(e, i, pos))
         /\ \A j \in DOMAIN e :
              /\ LinkAfter(e, i, pos)[j].next =
                   IF j = i THEN e[pos].next ELSE IF j = pos THEN i ELSE e[j].next
              /\ LinkAfter(e, i, pos)[j].prev =
                   IF j = i THEN pos
                   ELSE IF j = e[pos].next /\ j # pos THEN i ELSE e[j].prev
<1> DEFINE nx == e[pos].next
           e2 == LinkAfter(e, i, pos)
<1>1. e2 = [j \in DOMAIN e |->
              IF j = i THEN [e[j] EXCEPT !.prev = pos, !.next = nx]
              ELSE IF j = pos THEN [e[j] EXCEPT !.next = i]
              ELSE IF j = nx THEN [e[j] EXCEPT !.prev = i]
              ELSE e[j]]
  BY DEF LinkAfter
<1> HIDE DEF e2
<1>2. DOMAIN e2 = DOMAIN e
  BY <1>1
<1>3. ASSUME NEW j \in DOMAIN e
      PROVE  /\ DOMAIN e2[j] = DOMAIN e[j]
             /\ \A x \in DOMAIN e[j] \ {"prev", "next"} : e2[j][x] = e[j][x]
             /\ e2[j].next = IF j = i THEN nx ELSE IF j = pos THEN i ELSE e[j].next
             /\ e2[j].prev = IF j = i THEN pos ELSE IF j = nx /\ j # pos THEN i ELSE e[j].prev
  <2>1. "prev" \in DOMAIN e[j] /\ "next" \in DOMAIN e[j]
    BY DEF Cells
  <2>2. CASE j = i
    <3>1. e2[j] = [e[j] EXCEPT !.prev = pos, !.next = nx]
      BY <1>1, <2>2
    <3> HIDE DEF nx
    <3> QED BY Zenon, <2>1, <2>2, <3>1
  <2>3. CASE j # i /\ j = pos
    <3>1. e2[j] = [e[j] EXCEPT !.next = i]
      BY <1>1, <2>3
    <3> HIDE DEF nx
    <3> QED BY <2>1, <2>3, <3>1
  <2>4. CASE j # i /\ j # pos /\ j = nx
    <3>1. e2[j] = [e[j] EXCEPT !.prev = i]
      BY <1>1, <2>4
    <3> HIDE DEF nx
    <3> QED BY <2>1, <2>4, <3>1
  <2>5. CASE j # i /\ j # pos /\ j # nx
    <3>1. e2[j] = e[j]
      BY <1>1, <2>5
    <3> QED BY <2>5, <3>1
  <2> QED BY <2>2, <2>3, <2>4, <2>5
<1>4. Cells(e2) /\ Relinked(e, e2)
  BY <1>2, <1>3 DEF Cells, Relinked
<1> QED BY <1>3, <1>4 DEF e2

(* What Unlink does to each cell.                                        *)
LEMMA UnlinkCells ==
  ASSUME NEW e, Cells(e), NEW i \in DOMAIN e
  PROVE  /\ Cells(Unlink(e, i)) /\ Relinked(e, Unlink(e, i))
         /\ \A j \in DOMAIN e :
              /\ Unlink(e, i)[j].next = IF j = e[i].prev THEN e[i].next ELSE e[j].next
              /\ Unlink(e, i)[j].prev =
                   IF j = e[i].next /\ j # e[i].prev THEN e[i].prev ELSE e[j].prev
<1> DEFINE e2 == Unlink(e, i)
           p == e[i].prev
           n == e[i].next
<1>1. e2 = [j \in DOMAIN e |->
              IF j # Nil /\ j = p THEN [e[j] EXCEPT !.next = n]
              ELSE IF j # Nil /\ j = n THEN [e[j] EXCEPT !.prev = p]
              ELSE e[j]]
  BY DEF Unlink
<1> HIDE DEF e2
<1>2. DOMAIN e2 = DOMAIN e
  BY <1>1
<1>3. ASSUME NEW j \in DOMAIN e
      PROVE  /\ DOMAIN e2[j] = DOMAIN e[j]
             /\ \A x \in DOMAIN e[j] \ {"prev", "next"} : e2[j][x] = e[j][x]
             /\ e2[j].next = IF j = p THEN n ELSE e[j].next
             /\ e2[j].prev = IF j = n /\ j # p THEN p ELSE e[j].prev
  <2>1. "prev" \in DOMAIN e[j] /\ "next" \in DOMAIN e[j] /\ j # Nil
    BY DEF Cells
  <2>2. CASE j = p
    <3>1. e2[j] = [e[j] EXCEPT !.next = n]
      BY <1>1, <2>1, <2>2
    <3> HIDE DEF n, p
    <3> QED BY <2>1, <2>2, <3>1
  <2>3. CASE j # p /\ j = n
    <3>1. e2[j] = [e[j] EXCEPT !.prev = p]
      BY <1>1, <2>1, <2>3
    <3> HIDE DEF n, p
    <3> QED BY <2>1, <2>3, <3>1
  <2>4. CASE j # p /\ j # n
    <3>1. e2[j] = e[j]
      BY <1>1, <2>4
    <3> QED BY <2>4, <3>1
  <2> QED BY <2>2, <2>3, <2>4
<1>4. Cells(e2) /\ Relinked(e, e2)
  BY <1>2, <1>3 DEF Cells, Relinked
<1> QED BY <1>3, <1>4 DEF e2

(* Cells with the same links are linked as before.                       *)
LEMMA LinkedSame ==
  ASSUME NEW e, NEW L, NEW lab, Linked(e, L, lab), NEW e2, Cells(e2), L \subseteq DOMAIN e2,
         \A i \in L : e2[i].next = e[i].next /\ e2[i].prev = e[i].prev,
         NEW lab2, \A i, j \in L : lab[i] = lab[j] => lab2[i] = lab2[j]
  PROVE  Linked(e2, L, lab2)
<1>0. PICK M \in Nat : \E r \in [Nat -> 0 .. M] : Links(e, L, lab, r)
  BY DEF Linked
<1>1. PICK r \in [Nat -> 0 .. M] : Links(e, L, lab, r)
  BY <1>0
<1>2. Links(e2, L, lab2, r)
  BY <1>1 DEF Links
<1> QED BY <1>1, <1>2 DEF Linked

(* A cell without links may be added.                                    *)
LEMMA LinkedLone ==
  ASSUME NEW e, NEW L, NEW lab, Linked(e, L, lab), NEW e2, Cells(e2), L \subseteq DOMAIN e2,
         NEW n \in DOMAIN e2 \ L, e2[n].next = Nil, e2[n].prev = Nil,
         \A i \in L : e2[i].next = e[i].next /\ e2[i].prev = e[i].prev,
         NEW lab2, \A i \in L : lab2[i] = lab[i]
  PROVE  Linked(e2, L \union {n}, lab2)
<1>0. PICK M \in Nat : \E r \in [Nat -> 0 .. M] : Links(e, L, lab, r)
  BY DEF Linked
<1>1. PICK r \in [Nat -> 0 .. M] : Links(e, L, lab, r)
  BY <1>0
<1>2. Links(e2, L \union {n}, lab2, r)
  BY <1>1 DEF Links
<1> QED BY <1>1, <1>2 DEF Linked

(* Linking a new cell in.                                                *)
LEMMA LinkedAfter ==
  ASSUME NEW e, NEW L, NEW lab, Linked(e, L, lab), NEW i \in DOMAIN e \ L, NEW pos \in L,
         NEW lab2, \A j \in L : lab2[j] = lab[j], lab2[i] = lab[pos]
  PROVE  Linked(LinkAfter(e, i, pos), L \union {i}, lab2)
<1> DEFINE e2 == LinkAfter(e, i, pos)
<1>0. PICK M \in Nat : \E r \in [Nat -> 0 .. M] : Links(e, L, lab, r)
  BY DEF Linked
<1>1. PICK r \in [Nat -> 0 .. M] : Links(e, L, lab, r)
  BY <1>0
<1> DEFINE r2 == [j \in Nat |-> IF j = i THEN 2 * r[pos] ELSE 2 * r[j] + 1]
<1>2. L \subseteq DOMAIN e /\ Cells(e) /\ L \subseteq Nat \ {Nil} /\ i # Nil /\ i \in Nat
  BY DEF Linked, Cells
<1>3. /\ Cells(e2) /\ DOMAIN e2 = DOMAIN e
      /\ \A j \in DOMAIN e :
           /\ e2[j].next = IF j = i THEN e[pos].next ELSE IF j = pos THEN i ELSE e[j].next
           /\ e2[j].prev = IF j = i THEN pos
                           ELSE IF j = e[pos].next /\ j # pos THEN i ELSE e[j].prev
  <2>1. i \in DOMAIN e /\ pos \in DOMAIN e /\ i # pos
    BY <1>2
  <2>2. Cells(e2) /\ Relinked(e, e2)
    BY <1>2, <2>1, LinkAfterCells
  <2>3. \A j \in DOMAIN e :
          /\ e2[j].next = IF j = i THEN e[pos].next ELSE IF j = pos THEN i ELSE e[j].next
          /\ e2[j].prev = IF j = i THEN pos
                          ELSE IF j = e[pos].next /\ j # pos THEN i ELSE e[j].prev
    BY <1>2, <2>1, LinkAfterCells
  <2> HIDE DEF e2
  <2> QED BY <2>2, <2>3 DEF Relinked
<1>4. r2 \in [Nat -> 0 .. 2 * M + 1]
  BY <1>1, <1>2
<1>5. \A j \in L : j # i /\ j \in Nat /\ r2[j] = 2 * r[j] + 1 /\ r[j] \in Nat
  BY <1>1, <1>2
<1>6. r2[i] = 2 * r[pos]
  BY <1>2
<1> HIDE DEF e2, r2
<1>7. ASSUME NEW j \in L \union {i}
      PROVE  /\ e2[j].next # Nil =>
                  /\ e2[j].next \in L \union {i} /\ e2[e2[j].next].prev = j
                  /\ lab2[e2[j].next] = lab2[j] /\ r2[e2[j].next] < r2[j]
             /\ e2[j].prev # Nil => e2[j].prev \in L \union {i} /\ e2[e2[j].prev].next = j
  <2>1. CASE j = i
    <3>1. e2[i].next = e[pos].next /\ e2[i].prev = pos /\ e2[pos].next = i
      BY <1>2, <1>3
    <3>2. ASSUME e[pos].next # Nil
          PROVE  /\ e[pos].next \in L /\ e2[e[pos].next].prev = i
                 /\ lab[e[pos].next] = lab[pos] /\ r[e[pos].next] < r[pos]
      <4>1. e[pos].next # pos /\ e[pos].next \in L /\ lab[e[pos].next] = lab[pos]
              /\ r[e[pos].next] < r[pos]
        BY <1>1, <1>5, <3>2 DEF Links
      <4> QED BY <1>2, <1>3, <4>1
    <3>3. e[pos].next # Nil => r2[e[pos].next] < r2[i]
      <4>1. ASSUME NEW a \in Nat, NEW b \in Nat, a < b PROVE 2 * a + 1 < 2 * b
        BY <4>1
      <4> QED BY <1>5, <1>6, <3>2, <4>1
    <3> QED BY <2>1, <3>1, <3>2, <3>3
  <2>2. CASE j = pos
    <3>1. /\ e2[j].next = i /\ e2[i].prev = pos /\ lab2[i] = lab2[pos]
          /\ e2[j].prev = e[j].prev
      BY <1>2, <1>3, <2>2
    <3>2. r2[i] < r2[j]
      BY <1>5, <1>6, <2>2
    <3>3. e[j].prev # Nil => /\ e[j].prev \in L /\ e[j].prev # pos /\ e[e[j].prev].next = j
                             /\ e2[e[j].prev].next = j
      <4>1. e[j].prev # Nil => /\ e[j].prev \in L /\ e[e[j].prev].next = j
                               /\ r[j] < r[e[j].prev]
        BY <1>1, <1>2, <2>2 DEF Links
      <4>2. e[j].prev # Nil => e[j].prev # pos /\ e[j].prev # i
        BY <1>5, <2>2, <4>1
      <4> QED BY <1>2, <1>3, <4>1, <4>2
    <3> QED BY <2>2, <3>1, <3>2, <3>3
  <2>3. CASE j # i /\ j # pos
    <3>1. j \in L /\ e2[j].next = e[j].next
          /\ e2[j].prev = IF j = e[pos].next THEN i ELSE e[j].prev
      BY <1>2, <1>3, <2>3
    <3>2. e[j].next # Nil => /\ e[j].next \in L /\ e[e[j].next].prev = j
                             /\ lab[e[j].next] = lab[j] /\ r[e[j].next] < r[j]
      BY <1>1, <3>1 DEF Links
    <3>3. e[j].next # Nil => e2[e[j].next].prev = j
      <4>1. ASSUME e[j].next # Nil PROVE e[j].next # e[pos].next \/ e[j].next = pos
        <5>1. CASE e[pos].next = e[j].next
          <6>1. e[e[pos].next].prev = pos
            BY <1>1, <4>1, <5>1 DEF Links
          <6> QED BY <2>3, <3>2, <4>1, <5>1, <6>1
        <5> QED BY <5>1
      <4> QED BY <1>2, <1>3, <3>2, <4>1
    <3>4. e[j].next # Nil => r2[e[j].next] < r2[j]
      BY <1>5, <3>1, <3>2
    <3>5. CASE j = e[pos].next
      BY <1>2, <1>3, <3>1, <3>2, <3>3, <3>4, <3>5
    <3>6. CASE j # e[pos].next
      <4>1. e[j].prev # Nil => e[j].prev \in L /\ e[e[j].prev].next = j /\ e[j].prev # pos
        BY <1>1, <3>1, <3>6 DEF Links
      <4>2. e[j].prev # Nil => e2[e[j].prev].next = j
        BY <1>2, <1>3, <4>1
      <4> QED BY <3>1, <3>2, <3>3, <3>4, <3>6, <4>1, <4>2
    <3> QED BY <3>5, <3>6
  <2> QED BY <2>1, <2>2, <2>3
<1>8. Links(e2, L \union {i}, lab2, r2)
  BY <1>7 DEF Links
<1>9. Linked(e2, L \union {i}, lab2)
  BY <1>1, <1>2, <1>3, <1>4, <1>8 DEF Linked
<1> QED BY <1>9 DEF e2

(* Taking a cell out.                                                    *)
LEMMA LinkedUnlink ==
  ASSUME NEW e, NEW L, NEW lab, Linked(e, L, lab), NEW i \in L
  PROVE  Linked(Unlink(e, i), L \ {i}, lab)
<1> DEFINE e2 == Unlink(e, i)
<1>0. PICK M \in Nat : \E r \in [Nat -> 0 .. M] : Links(e, L, lab, r)
  BY DEF Linked
<1>1. PICK r \in [Nat -> 0 .. M] : Links(e, L, lab, r)
  BY <1>0
<1>2. L \subseteq DOMAIN e /\ Cells(e) /\ L \subseteq Nat \ {Nil}
  BY DEF Linked, Cells
<1>3. /\ Cells(e2) /\ DOMAIN e2 = DOMAIN e
      /\ \A j \in DOMAIN e :
           /\ e2[j].next = IF j = e[i].prev THEN e[i].next ELSE e[j].next
           /\ e2[j].prev = IF j = e[i].next /\ j # e[i].prev THEN e[i].prev ELSE e[j].prev
  BY <1>2, UnlinkCells DEF Relinked
<1> HIDE DEF e2
<1>4. \A j \in L : r[j] \in Nat
  BY <1>1, <1>2
<1>5. e[i].prev # Nil => /\ e[i].prev \in L \ {i} /\ r[i] < r[e[i].prev]
                         /\ lab[i] = lab[e[i].prev] /\ e[e[i].prev].next = i
  <2>1. e[i].prev # Nil => e[i].prev \in L /\ e[e[i].prev].next = i
    BY <1>1 DEF Links
  <2>2. e[i].prev # Nil => r[i] < r[e[i].prev] /\ lab[i] = lab[e[i].prev]
    BY <1>1, <1>2, <2>1 DEF Links
  <2> QED BY <1>4, <2>1, <2>2
<1>6. e[i].next # Nil => /\ e[i].next \in L \ {i} /\ r[e[i].next] < r[i]
                         /\ lab[i] = lab[e[i].next] /\ e[e[i].next].prev = i
  BY <1>1, <1>4 DEF Links
<1>7. e[i].prev # Nil /\ e[i].next # Nil => e[i].prev # e[i].next
  BY <1>4, <1>5, <1>6
<1>8. ASSUME NEW j \in L \ {i}
      PROVE  /\ e2[j].next # Nil =>
                  /\ e2[j].next \in L \ {i} /\ e2[e2[j].next].prev = j
                  /\ lab[e2[j].next] = lab[j] /\ r[e2[j].next] < r[j]
             /\ e2[j].prev # Nil => e2[j].prev \in L \ {i} /\ e2[e2[j].prev].next = j
  <2>1. /\ e[j].next # Nil => /\ e[j].next \in L /\ e[e[j].next].prev = j
                              /\ lab[e[j].next] = lab[j] /\ r[e[j].next] < r[j]
        /\ e[j].prev # Nil => e[j].prev \in L /\ e[e[j].prev].next = j
        /\ j \in DOMAIN e /\ j # Nil
    BY <1>1, <1>2 DEF Links
  <2>2. j = e[i].prev <=> e[j].next = i
    BY <1>2, <1>5, <2>1
  <2>3. j = e[i].next <=> e[j].prev = i
    BY <1>2, <1>6, <2>1
  <2>4. /\ e2[j].next # Nil =>
             /\ e2[j].next \in L \ {i} /\ e2[e2[j].next].prev = j
             /\ lab[e2[j].next] = lab[j] /\ r[e2[j].next] < r[j]
    <3>1. CASE j = e[i].prev
      <4>1. e2[j].next = e[i].next
        BY <1>3, <2>1, <3>1
      <4>2. e[i].next # Nil => e2[e[i].next].prev = j
        BY <1>2, <1>3, <1>6, <1>7, <2>1, <3>1
      <4> QED BY <1>4, <1>5, <1>6, <2>1, <3>1, <4>1, <4>2
    <3>2. CASE j # e[i].prev
      <4>1. e2[j].next = e[j].next
        BY <1>3, <2>1, <3>2
      <4>2. e[j].next # Nil => e[j].next # e[i].next /\ e[j].next # i
        BY <1>6, <2>1, <2>2, <3>2
      <4>3. e[j].next # Nil => e2[e[j].next].prev = j
        BY <1>2, <1>3, <2>1, <4>2
      <4> QED BY <2>1, <4>1, <4>2, <4>3
    <3> QED BY <3>1, <3>2
  <2>5. e2[j].prev # Nil => e2[j].prev \in L \ {i} /\ e2[e2[j].prev].next = j
    <3>1. CASE j = e[i].next /\ j # e[i].prev
      <4>1. e2[j].prev = e[i].prev
        BY <1>3, <2>1, <3>1
      <4> QED BY <1>2, <1>3, <1>5, <3>1, <4>1
    <3>2. CASE j # e[i].next
      <4>1. e2[j].prev = e[j].prev
        BY <1>3, <2>1, <3>2
      <4>2. e[j].prev # Nil => e[j].prev # e[i].prev /\ e[j].prev # i
        BY <1>5, <2>1, <2>3, <3>2
      <4> QED BY <1>2, <1>3, <2>1, <4>1, <4>2
    <3> QED BY <1>7, <2>1, <3>1, <3>2
  <2> QED BY <2>4, <2>5
<1>9. Links(e2, L \ {i}, lab, r)
  BY <1>8 DEF Links
<1>10. Linked(e2, L \ {i}, lab)
  BY Zenon, <1>1, <1>2, <1>3, <1>9 DEF Linked
<1> QED BY <1>10 DEF e2
-----------------------------------------------------------------------------
(* Arrays of cells: finding, placing and freeing a cell.                 *)

(* The cells in use.                                                     *)
Used(e) == {i \in DOMAIN e : e[i].use}

(* Scan finds a free cell above low, or the end of the array.            *)
LEMMA ScanFacts ==
  ASSUME NEW C, NEW s \in Seq(C), NEW low \in Nat, low <= Len(s), NEW finder \in Nat
  PROVE  /\ Scan(s, low, finder) \in low + 1 .. Len(s) + 1
         /\ Scan(s, low, finder) \notin Used(s)
<1> DEFINE free == {i \in low + 1 .. Len(s) : ~s[i].use}
           turn == [i \in free |-> (i - finder - 1) % (Len(s) - low)]
<1>1. Len(s) \in Nat /\ DOMAIN s = 1 .. Len(s)
  OBVIOUS
<1>2. CASE free = {}
  <2>1. Scan(s, low, finder) = Len(s) + 1
    BY <1>2 DEF Scan
  <2> QED BY <1>1, <2>1 DEF Used
<1>3. CASE free # {}
  <2>1. \A i \in free : turn[i] \in Nat
    <3>1. ASSUME NEW a \in Int, NEW b \in Nat, b # 0 PROVE a % b \in Nat
      BY <3>1
    <3>2. ASSUME NEW i \in free
          PROVE  i - finder - 1 \in Int /\ Len(s) - low \in Nat /\ Len(s) - low # 0
      <4>1. i \in low + 1 .. Len(s)
        OBVIOUS
      <4>2. i \in Int /\ low < i /\ i <= Len(s)
        BY <1>1, <4>1
      <4>3. i - finder - 1 \in Int
        BY <4>2
      <4>4. Len(s) - low \in Nat /\ Len(s) - low # 0
        <5>1. ASSUME NEW n \in Nat, NEW l \in Nat, NEW m \in Int, l < m, m <= n
              PROVE  n - l \in Nat /\ n - l # 0
          BY <5>1
        <5> QED BY Zenon, <1>1, <4>2, <5>1
      <4> QED BY <4>3, <4>4
    <3> QED BY <3>1, <3>2
  <2>2. \E i \in free : \A j \in free : turn[i] <= turn[j]
    <3> HIDE DEF free, turn
    <3> QED BY <1>3, <2>1, LeastOf
  <2>3. Scan(s, low, finder) = CHOOSE i \in free : \A j \in free : turn[i] <= turn[j]
    <3>1. Scan(s, low, finder) =
            CHOOSE i \in free : \A j \in free :
              (i - finder - 1) % (Len(s) - low) <= (j - finder - 1) % (Len(s) - low)
      BY Zenon, <1>3 DEF Scan
    <3> QED BY Zenon, <3>1
  <2>4. Scan(s, low, finder) \in free
    <3> HIDE DEF free, turn
    <3> QED BY <2>2, <2>3
  <2> QED BY <1>1, <2>4 DEF Used
<1> QED BY <1>2, <1>3

(* A new cell x, in the array grown where it has to be.                  *)
LEMMA EnlargedFacts ==
  ASSUME NEW C, NEW s \in Seq(C), NEW blank \in C, NEW i \in 1 .. Len(s) + 1
  PROVE  /\ Enlarged(s, i, blank) \in Seq(C)
         /\ DOMAIN s \subseteq DOMAIN Enlarged(s, i, blank)
         /\ i \in DOMAIN Enlarged(s, i, blank)
         /\ \A j \in DOMAIN Enlarged(s, i, blank) :
              Enlarged(s, i, blank)[j] = IF j \in DOMAIN s THEN s[j] ELSE blank
<1>1. Len(s) \in Nat /\ DOMAIN s = 1 .. Len(s) /\ Grow \in Nat \ {0}
  BY RankDBAssumption
<1>2. CASE i <= Len(s)
  <2>1. Enlarged(s, i, blank) = s
    BY <1>2 DEF Enlarged
  <2> QED BY <1>1, <1>2, <2>1
<1>3. CASE ~(i <= Len(s))
  <2> DEFINE e == [j \in 1 .. Len(s) + Grow |-> IF j <= Len(s) THEN s[j] ELSE blank]
  <2>1. Enlarged(s, i, blank) = e
    BY <1>3 DEF Enlarged
  <2>2. \A j \in 1 .. Len(s) + Grow : e[j] \in C
    BY <1>1
  <2>3. e \in Seq(C)
    <3>1. Len(s) + Grow \in Nat
      BY <1>1
    <3>2. e \in [1 .. Len(s) + Grow -> C]
      BY <2>2
    <3> HIDE DEF e
    <3> QED BY <3>1, <3>2
  <2> QED BY <1>1, <2>1, <2>3
<1> QED BY <1>2, <1>3

(* A cell is put where Scan says.                                        *)
Placed(s, i, x, blank) == [Enlarged(s, i, blank) EXCEPT ![i] = x]

(* e2 has one cell in use more than e.                                   *)
OneMore(C, e, low, i, x, blank, e2) ==
  /\ e2 \in Seq(C) /\ i \in Nat /\ i > low /\ DOMAIN e \subseteq DOMAIN e2
  /\ i \in DOMAIN e2 /\ e2[i] = x /\ i \notin Used(e) /\ Used(e2) = Used(e) \union {i}
  /\ \A j \in Used(e) : e2[j] = e[j]
  /\ \A j \in DOMAIN e2 \ {i} : e2[j] = IF j \in DOMAIN e THEN e[j] ELSE blank

(* What is in an array after a cell is placed.                           *)
LEMMA PlacedFacts ==
  ASSUME NEW C, NEW s \in Seq(C), NEW blank \in C, ~blank.use, NEW low \in Nat, low <= Len(s),
         NEW finder \in Nat, NEW i, i = Scan(s, low, finder), NEW x \in C, x.use
  PROVE  OneMore(C, s, low, i, x, blank, Placed(s, i, x, blank))
<1> DEFINE e == Enlarged(s, i, blank)
           e2 == Placed(s, i, x, blank)
<1>1. i \in low + 1 .. Len(s) + 1 /\ i \notin Used(s) /\ i \in 1 .. Len(s) + 1
  BY ScanFacts
<1>2. /\ e \in Seq(C) /\ DOMAIN s \subseteq DOMAIN e /\ i \in DOMAIN e
      /\ \A j \in DOMAIN e : e[j] = IF j \in DOMAIN s THEN s[j] ELSE blank
  BY Zenon, <1>1, EnlargedFacts
<1>3. e2 = [e EXCEPT ![i] = x]
  BY DEF Placed
<1> HIDE DEF e, e2
<1>4. e2 \in Seq(C) /\ DOMAIN e2 = DOMAIN e /\ e2[i] = x
  BY <1>2, <1>3
<1>5. \A j \in DOMAIN e2 \ {i} : e2[j] = IF j \in DOMAIN s THEN s[j] ELSE blank
  BY <1>2, <1>3
<1>6. Used(e2) = Used(s) \union {i} /\ \A j \in Used(s) : e2[j] = s[j]
  BY <1>1, <1>2, <1>4, <1>5 DEF Used
<1>7. OneMore(C, s, low, i, x, blank, e2)
  BY <1>1, <1>2, <1>4, <1>5, <1>6 DEF OneMore
<1> QED BY <1>7 DEF e2

-----------------------------------------------------------------------------
(* Nodes and hash entries are cells.                                     *)
LEMMA SeqCells ==
  ASSUME NEW e, e \in Seq(Node) \/ e \in Seq(Hashed)
  PROVE  Cells(e) /\ DOMAIN e = 1 .. Len(e) /\ Len(e) \in Nat
<1>1. CASE e \in Seq(Node)
  <2>1. \A i \in DOMAIN e : e[i] \in Node
    BY <1>1
  <2>2. \A i \in DOMAIN e : {"prev", "next"} \subseteq DOMAIN e[i]
    BY <2>1 DEF Node
  <2>3. DOMAIN e \subseteq Nat \ {Nil}
    BY <1>1 DEF Nil
  <2> QED BY <1>1, <2>2, <2>3 DEF Cells
<1>2. CASE e \in Seq(Hashed)
  <2>1. \A i \in DOMAIN e : e[i] \in Hashed
    BY <1>2
  <2>2. \A i \in DOMAIN e : {"prev", "next"} \subseteq DOMAIN e[i]
    BY <2>1 DEF Hashed
  <2>3. DOMAIN e \subseteq Nat \ {Nil}
    BY <1>2 DEF Nil
  <2> QED BY <1>2, <2>2, <2>3 DEF Cells
<1> QED BY <1>1, <1>2

(* The links of a cell of type C may be changed.                         *)
Relinkable(C) ==
  /\ \A x \in C : /\ {"prev", "next", "use"} \subseteq DOMAIN x
                  /\ x.prev \in Nat /\ x.next \in Nat
  /\ \A x \in C, p \in Nat : [x EXCEPT !.prev = p] \in C /\ [x EXCEPT !.next = p] \in C

(* Nodes and hash entries can be relinked.                               *)
LEMMA CellTypes == Relinkable(Node) /\ Relinkable(Hashed)
<1>1. Relinkable(Node)
  BY DEF Relinkable, Node
<1>2. Relinkable(Hashed)
  BY DEF Relinkable, Hashed
<1> QED BY <1>1, <1>2

(* LinkAfter and Unlink keep the type.                                   *)
LEMMA LinkAfterType ==
  ASSUME NEW C, Relinkable(C), NEW e \in Seq(C), NEW i \in DOMAIN e, NEW pos \in DOMAIN e
  PROVE  LinkAfter(e, i, pos) \in Seq(C)
<1> DEFINE nx == e[pos].next
<1>1. pos \in Nat /\ nx \in Nat /\ i \in Nat /\ Len(e) \in Nat /\ DOMAIN e = 1 .. Len(e)
  BY DEF Relinkable
<1> HIDE DEF nx
<1>2. ASSUME NEW j \in DOMAIN e
      PROVE  LinkAfter(e, i, pos)[j] \in C
  <2>0. e[j] \in C
    OBVIOUS
  <2>1. [e[j] EXCEPT !.prev = pos] \in C
    BY Zenon, <1>1, <2>0 DEF Relinkable
  <2>2. [[e[j] EXCEPT !.prev = pos] EXCEPT !.next = nx] \in C
    BY Zenon, <1>1, <2>1 DEF Relinkable
  <2>3. [e[j] EXCEPT !.next = i] \in C /\ [e[j] EXCEPT !.prev = i] \in C /\ e[j] \in C
    BY Zenon, <1>1, <2>0 DEF Relinkable
  <2>4. [e[j] EXCEPT !.prev = pos, !.next = nx] = [[e[j] EXCEPT !.prev = pos] EXCEPT !.next = nx]
    OBVIOUS
  <2>5. \/ LinkAfter(e, i, pos)[j] = [e[j] EXCEPT !.prev = pos, !.next = nx]
        \/ LinkAfter(e, i, pos)[j] = [e[j] EXCEPT !.next = i]
        \/ LinkAfter(e, i, pos)[j] = [e[j] EXCEPT !.prev = i]
        \/ LinkAfter(e, i, pos)[j] = e[j]
    BY DEF LinkAfter, nx
  <2> QED BY <2>2, <2>3, <2>4, <2>5
<1>3. LinkAfter(e, i, pos) = [j \in DOMAIN e |-> LinkAfter(e, i, pos)[j]]
  BY DEF LinkAfter
<1> QED BY <1>1, <1>2, <1>3

(* Unlink keeps the type of a list.                                      *)
LEMMA UnlinkType ==
  ASSUME NEW C, Relinkable(C), NEW e \in Seq(C), NEW i \in DOMAIN e
  PROVE  Unlink(e, i) \in Seq(C)
<1> DEFINE p == e[i].prev
           n == e[i].next
<1>1. p \in Nat /\ n \in Nat /\ Len(e) \in Nat /\ DOMAIN e = 1 .. Len(e)
  BY DEF Relinkable
<1> HIDE DEF p, n
<1>2. ASSUME NEW j \in DOMAIN e
      PROVE  Unlink(e, i)[j] \in C
  <2>0. e[j] \in C
    OBVIOUS
  <2>1. [e[j] EXCEPT !.next = n] \in C /\ [e[j] EXCEPT !.prev = p] \in C /\ e[j] \in C
    BY Zenon, <1>1, <2>0 DEF Relinkable
  <2>2. \/ Unlink(e, i)[j] = [e[j] EXCEPT !.next = n]
        \/ Unlink(e, i)[j] = [e[j] EXCEPT !.prev = p]
        \/ Unlink(e, i)[j] = e[j]
    BY DEF Unlink, n, p
  <2> QED BY <2>1, <2>2
<1>3. Unlink(e, i) = [j \in DOMAIN e |-> Unlink(e, i)[j]]
  BY DEF Unlink
<1> QED BY <1>1, <1>2, <1>3

(* e2 is e without the cell i, linked past it.                           *)
OneLess(C, e, lab, i, blank, e2) ==
  /\ e2 \in Seq(C) /\ Cells(e2) /\ DOMAIN e2 = DOMAIN e
  /\ Used(e2) = Used(e) \ {i} /\ e2[i] = blank
  /\ Linked(e2, Used(e) \ {i}, lab)
  /\ \A j \in DOMAIN e \ {i} :
       /\ \A x \in DOMAIN e[j] \ {"prev", "next"} : e2[j][x] = e[j][x]
       /\ e2[j].next = IF j = e[i].prev THEN e[i].next ELSE e[j].next
       /\ e2[j].prev = IF j = e[i].next /\ j # e[i].prev THEN e[i].prev ELSE e[j].prev
       /\ j # e[i].next /\ j # e[i].prev => e2[j] = e[j]
  /\ \A j \in DOMAIN e \ Used(e) : e2[j] = e[j]

(* A cell that was unlinked and blanked is gone.                         *)
LEMMA FreedFacts ==
  ASSUME NEW C, Relinkable(C), NEW e \in Seq(C), Cells(e), NEW i \in Used(e),
         NEW blank \in C, ~blank.use, NEW lab, Linked(e, Used(e), lab)
  PROVE  OneLess(C, e, lab, i, blank, Freed(e, i, blank))
<1> DEFINE u == Unlink(e, i)
           e2 == Freed(e, i, blank)
<1>1. i \in DOMAIN e
  BY DEF Used
<1>2. /\ u \in Seq(C) /\ Cells(u) /\ Relinked(e, u)
      /\ \A j \in DOMAIN e :
           /\ u[j].next = IF j = e[i].prev THEN e[i].next ELSE e[j].next
           /\ u[j].prev = IF j = e[i].next /\ j # e[i].prev THEN e[i].prev ELSE e[j].prev
  BY <1>1, UnlinkCells, UnlinkType
<1>3. Linked(u, Used(e) \ {i}, lab)
  BY LinkedUnlink
<1>4. \A j \in DOMAIN e \ Used(e) : u[j] = e[j]
  <2>1. e[i].prev \in Used(e) \union {Nil} /\ e[i].next \in Used(e) \union {Nil}
    BY Zenon DEF Linked, Links
  <2> QED BY <2>1 DEF Unlink
<1>5. e2 = [j \in DOMAIN e |-> IF j = i THEN blank ELSE u[j]]
  BY DEF Freed
<1> HIDE DEF u, e2
<1>6. DOMAIN e2 = DOMAIN e /\ e2[i] = blank /\ \A j \in DOMAIN e \ {i} : e2[j] = u[j]
  BY <1>1, <1>5
<1>7. e2 \in Seq(C)
  <2>1. \A j \in DOMAIN e : e2[j] \in C
    <3>1. \A j \in DOMAIN e : u[j] \in C
      BY <1>2 DEF Relinked
    <3> QED BY <1>6, <3>1
  <2>2. Len(e) \in Nat /\ DOMAIN e = 1 .. Len(e)
    OBVIOUS
  <2>3. e2 \in [1 .. Len(e) -> C]
    BY <1>5, <2>1, <2>2
  <2> QED BY <2>2, <2>3
<1>8. Cells(e2)
  <2>1. {"prev", "next"} \subseteq DOMAIN blank
    BY DEF Relinkable
  <2> QED BY <1>2, <1>6, <2>1 DEF Cells, Relinked
<1>9. Used(e2) = Used(e) \ {i}
  <2>1. \A j \in DOMAIN e : "use" \in DOMAIN e[j]
    BY DEF Relinkable
  <2>2. \A j \in DOMAIN e \ {i} : e2[j].use = e[j].use
    BY <1>2, <1>6, <2>1 DEF Relinked
  <2> QED BY <1>6, <2>2 DEF Used
<1>10. Linked(e2, Used(e) \ {i}, lab)
  <2>1. \A j \in Used(e) \ {i} : e2[j].next = u[j].next /\ e2[j].prev = u[j].prev
    BY <1>6 DEF Used
  <2>2. Used(e) \ {i} \subseteq DOMAIN e2
    BY <1>6 DEF Used
  <2> QED BY <1>3, <1>8, <2>1, <2>2, LinkedSame
<1>11. \A j \in DOMAIN e \ {i} :
         /\ \A x \in DOMAIN e[j] \ {"prev", "next"} : e2[j][x] = e[j][x]
         /\ e2[j].next = IF j = e[i].prev THEN e[i].next ELSE e[j].next
         /\ e2[j].prev = IF j = e[i].next /\ j # e[i].prev THEN e[i].prev ELSE e[j].prev
  BY <1>2, <1>6 DEF Relinked
<1>13. \A j \in DOMAIN e \ {i} : j # e[i].next /\ j # e[i].prev => e2[j] = e[j]
  <2>1. \A j \in DOMAIN e : j # e[i].next /\ j # e[i].prev => u[j] = e[j]
    BY DEF u, Unlink
  <2> QED BY <1>6, <2>1
<1>12. \A j \in DOMAIN e \ Used(e) : e2[j] = e[j]
  BY <1>4, <1>6
<1>14. OneLess(C, e, lab, i, blank, e2)
  BY <1>6, <1>7, <1>8, <1>9, <1>10, <1>11, <1>12, <1>13 DEF OneLess
<1> QED BY <1>14 DEF e2
-----------------------------------------------------------------------------
(* The hash table of a table, and what tableGetEntry finds.              *)

(* The hash table h. c says which chain an entry is on: c[i] is the      *)
(* primary entry its chain starts at, 0 when that was deleted under it.  *)
(* The keys of the entries that are on a chain differ.                   *)
OnChain(h, c, i, k) == i \in Used(h) /\ c[i] # 0 /\ h[i].key = k

Chains(h, c) ==
  /\ h \in Seq(Hashed) /\ Prime <= Len(h) /\ Linked(h, Used(h), c)
  /\ \A i \in DOMAIN h \ Used(h) : h[i] = NoHash
  /\ \A i \in Used(h) :
       /\ h[i].key \in Keys
       /\ i <= Prime => c[i] = i /\ h[i].prev = Nil
       /\ c[i] # 0 => c[i] = Hash[h[i].key] /\ (h[i].prev = Nil => i = c[i])
  /\ \A i, j \in Used(h) : OnChain(h, c, i, h[i].key) /\ OnChain(h, c, j, h[i].key) => i = j

(* The primary entry of a key.                                           *)
LEMMA PrimaryFacts ==
  ASSUME NEW h, NEW c, Chains(h, c), NEW k \in Keys
  PROVE  /\ Hash[k] \in 1 .. Prime /\ Hash[k] \in DOMAIN h /\ Hash[k] # Nil /\ Hash[k] # 0
         /\ Hash[k] \in Nat
         /\ DOMAIN h = 1 .. Len(h) /\ Len(h) \in Nat /\ Prime \in Nat \ {0} /\ Cells(h)
         /\ Hash[k] \in Used(h) => /\ c[Hash[k]] = Hash[k]
                                   /\ h[Hash[k]].prev = Nil
<1>1. Hash[k] \in 1 .. Prime /\ Prime \in Nat \ {0}
  BY RankDBAssumption
<1>2. DOMAIN h = 1 .. Len(h) /\ Len(h) \in Nat /\ Prime <= Len(h) /\ Cells(h)
  BY SeqCells DEF Chains
<1>3. Hash[k] \in Used(h) => c[Hash[k]] = Hash[k] /\ h[Hash[k]].prev = Nil
  BY <1>1 DEF Chains
<1> QED BY <1>1, <1>2, <1>3 DEF Nil

(* What tableGetEntry finds.                                             *)
LEMMA GetEntryFacts ==
  ASSUME NEW tab, NEW c, Chains(tab.hash, c), NEW k \in Keys
  PROVE  IF tableGetEntry(tab, k) = Nil THEN \A i : ~OnChain(tab.hash, c, i, k)
                                        ELSE OnChain(tab.hash, c, tableGetEntry(tab, k), k)
<1> DEFINE h == tab.hash
           D == {Nil} \union DOMAIN h
           st == {i \in D : i = Nil \/ (h[i].use /\ h[i].key = k)}
           nx == [i \in D |-> h[i].next]
           IsFind(f) == f = [i \in D |-> IF i = Nil THEN Nil
                                         ELSE IF h[i].use /\ h[i].key = k THEN i
                                         ELSE f[h[i].next]]
           p == Hash[k]
<1>0. /\ p \in DOMAIN h /\ p # Nil /\ p # 0
      /\ p \in Used(h) => c[p] = p /\ h[p].prev = Nil
      /\ DOMAIN h \subseteq Nat \ {Nil}
  BY PrimaryFacts DEF Nil
<1>1. tableGetEntry(tab, k) = IF h[p].use THEN (CHOOSE f : IsFind(f))[p] ELSE Nil
  BY DEF tableGetEntry
<1>2. ASSUME NEW f PROVE IsFind(f) <=> Walk(D, st, nx, f)
  <2>1. ASSUME NEW i \in D
        PROVE  (IF i = Nil THEN Nil ELSE IF h[i].use /\ h[i].key = k THEN i ELSE f[h[i].next])
                 = (IF i \in st THEN i ELSE f[nx[i]])
    OBVIOUS
  <2> QED BY Zenon, <2>1 DEF Walk
<1>3. PICK M \in Nat : \E r \in [Nat -> 0 .. M] : Links(h, Used(h), c, r)
  BY Zenon DEF Chains, Linked
<1>4. PICK r \in [Nat -> 0 .. M] : Links(h, Used(h), c, r)
  BY <1>3
<1>5. \A i \in DOMAIN h : ~h[i].use => h[i].next = Nil
  <2> SUFFICES ASSUME NEW i \in DOMAIN h, ~h[i].use PROVE h[i].next = Nil
    OBVIOUS
  <2>1. h[i] = NoHash
    BY Zenon DEF Chains, Used
  <2> QED BY <2>1 DEF NoHash
<1>6. \A i \in DOMAIN h : h[i].next # Nil =>
        /\ i \in Used(h) /\ h[i].next \in Used(h) /\ h[i].next \in D
        /\ r[h[i].next] < r[i] /\ c[h[i].next] = c[i] /\ h[h[i].next].prev = i
  BY <1>4, <1>5 DEF Used, Links
<1>7. \A i \in DOMAIN h : r[i] \in Nat /\ r[i] \in 0 .. M
  BY <1>0, <1>4
<1> DEFINE s == [i \in D |-> IF i = Nil THEN 0 ELSE r[i] + 1]
<1>8. Falls(D, st, nx, s, M + 1)
  <2>1. \A i \in D : s[i] \in 0 .. M + 1
    BY <1>3, <1>7
  <2>2. ASSUME NEW i \in D, i \notin st
        PROVE  nx[i] \in D /\ s[nx[i]] < s[i]
    <3>1. i # Nil /\ i \in DOMAIN h /\ nx[i] = h[i].next
      BY <2>2
    <3>2. CASE h[i].next = Nil
      BY <1>7, <3>1, <3>2
    <3>3. CASE h[i].next # Nil
      <4>1. h[i].next \in DOMAIN h /\ r[h[i].next] < r[i]
        BY <1>6, <3>1, <3>3 DEF Used
      <4> QED BY <1>7, <3>1, <3>3, <4>1
    <3> QED BY <3>2, <3>3
  <2> QED BY Zenon, <2>1, <2>2 DEF Falls
<1>9. PICK f : IsFind(f) /\ Walk(D, st, nx, f) /\ f = CHOOSE g : IsFind(g)
  <2>1. \E g : Walk(D, st, nx, g)
    <3>1. M + 1 \in Nat
      BY <1>3
    <3> HIDE DEF D, st, nx, s
    <3> QED BY <1>8, <3>1, WalkExists
  <2> HIDE DEF IsFind
  <2> QED BY Zenon, <1>2, <2>1
<1>10. tableGetEntry(tab, k) = IF p \in Used(h) THEN f[p] ELSE Nil
  BY Zenon, <1>0, <1>1, <1>9 DEF Used
<1>11. CASE p \notin Used(h)
  <2>1. \A i : ~OnChain(h, c, i, k)
    <3> SUFFICES ASSUME NEW i, OnChain(h, c, i, k) PROVE FALSE
      OBVIOUS
    <3> DEFINE S == {j \in Used(h) : c[j] = p}
    <3>1. i \in S
      BY Zenon DEF OnChain, Chains
    <3>2. PICK j \in S : \A x \in S : M - r[j] <= M - r[x]
      <4> DEFINE q == [x \in S |-> M - r[x]]
      <4>1. \A x \in S : q[x] \in Nat
        BY <1>3, <1>7 DEF Used
      <4>2. PICK j \in S : \A x \in S : q[j] <= q[x]
        <5> HIDE DEF S, q
        <5> QED BY <3>1, <4>1, LeastOf
      <4> QED BY <4>2
    <3>3. CASE h[j].prev = Nil
      <4>1. j \in Used(h) /\ c[j] = p
        BY <3>2
      <4>2. j = p
        BY Zenon, <1>0, <3>3, <4>1 DEF Chains
      <4> QED BY <1>11, <4>1, <4>2
    <3>4. CASE h[j].prev # Nil
      <4>1. h[j].prev \in Used(h) /\ h[h[j].prev].next = j
        BY <1>4, <3>2, <3>4 DEF Links
      <4>2. c[h[j].prev] = c[j] /\ r[j] < r[h[j].prev]
        BY <1>0, <1>4, <4>1 DEF Links, Used
      <4>3. h[j].prev \in S
        BY <3>2, <4>1, <4>2
      <4> QED BY <1>3, <1>7, <3>2, <4>1, <4>2, <4>3 DEF Used
    <3> QED BY <3>3, <3>4
  <2> QED BY <1>10, <1>11, <2>1
<1>12. CASE p \in Used(h)
  <2> DEFINE T == {i \in D : i = Nil \/ (i \in Used(h) /\ c[i] = p)}
  <2>1. f[p] \in T /\ f[p] \in st
    <3>1. p \in T /\ T \subseteq D
      BY <1>0, <1>12
    <3>2. \A i \in T : s[i] \in Nat
      BY <1>7
    <3>3. ASSUME NEW i \in T, i \notin st
          PROVE  nx[i] \in T /\ s[nx[i]] < s[i]
      <4>1. i \in D /\ nx[i] \in D /\ s[nx[i]] < s[i] /\ nx[i] = h[i].next
        BY Zenon, <1>8, <3>3 DEF Falls
      <4>2. h[i].next # Nil => h[i].next \in Used(h) /\ c[h[i].next] = c[i]
        <5>1. i # Nil /\ i \in DOMAIN h
          BY <3>3
        <5> QED BY <1>6, <5>1
      <4> QED BY <3>3, <4>1, <4>2
    <3>4. Stays(T, st, nx, s)
      BY Zenon, <3>2, <3>3 DEF Stays
    <3>5. Walk(D, st, nx, f)
      BY <1>9
    <3> HIDE DEF T, D, st, nx, s
    <3> QED BY <3>1, <3>4, <3>5, WalkEnds
  <2>2. CASE f[p] # Nil
    BY <1>0, <1>10, <1>12, <2>1, <2>2 DEF OnChain, Used
  <2>3. CASE f[p] = Nil
    <3>1. ASSUME NEW j, OnChain(h, c, j, k) PROVE FALSE
      <4> DEFINE S == {i \in Used(h) : c[i] = p /\ f[i] = j}
      <4>1. j \in Used(h) /\ c[j] = p /\ j \in D /\ j # Nil /\ h[j].use /\ h[j].key = k
        BY Zenon, <1>0, <3>1 DEF OnChain, Chains, Used
      <4>2. j \in S
        BY <1>9, <4>1
      <4>3. PICK i \in S : \A x \in S : M - r[i] <= M - r[x]
        <5> DEFINE q == [x \in S |-> M - r[x]]
        <5>1. \A x \in S : q[x] \in Nat
          BY <1>3, <1>7 DEF Used
        <5>2. PICK i \in S : \A x \in S : q[i] <= q[x]
          <6> HIDE DEF S, q
          <6> QED BY <4>2, <5>1, LeastOf
        <5> QED BY Zenon, <5>2
      <4>4. CASE h[i].prev = Nil
        <5>1. i \in Used(h) /\ c[i] = p /\ f[i] = j
          BY <4>3
        <5>2. i = p
          BY Zenon, <1>0, <4>4, <5>1 DEF Chains
        <5> QED BY <2>3, <4>1, <5>1, <5>2
      <4>5. CASE h[i].prev # Nil
        <5> DEFINE b == h[i].prev
        <5>1. b \in Used(h) /\ h[b].next = i
          BY <1>4, <4>3, <4>5 DEF Links
        <5>2. c[b] = p /\ r[i] < r[b] /\ b \in DOMAIN h /\ b # Nil
          BY <1>0, <1>4, <4>3, <5>1 DEF Links, Used
        <5>3. f[b] = j
          <6>1. f[b] = IF h[b].use /\ h[b].key = k THEN b ELSE f[h[b].next]
            BY Zenon, <1>9, <5>2
          <6>2. h[b].key = k => b = j
            BY Zenon, <1>0, <4>1, <5>1, <5>2 DEF Chains, OnChain
          <6>3. f[i] = j
            BY <4>3
          <6> QED BY <4>1, <5>1, <6>1, <6>2, <6>3
        <5>4. b \in S
          BY <5>1, <5>2, <5>3
        <5> QED BY <1>3, <1>7, <4>3, <5>1, <5>2, <5>4 DEF Used
      <4> QED BY <4>4, <4>5
    <3> QED BY <1>10, <1>12, <2>3, <3>1
  <2> QED BY <2>2, <2>3
<1> QED BY <1>11, <1>12
-----------------------------------------------------------------------------
(* Inserting into a hash table.                                          *)

TableType == [top : Nat, hash : Seq(Hashed), finder : Nat, updated : BOOLEAN]

(* h2 has one entry more than h, which leads from key k to the node ind. *)
Inserted(h, c, h2, c2, i, k, ind) ==
  /\ Chains(h2, c2) /\ i \notin Used(h) /\ Used(h2) = Used(h) \union {i}
  /\ OnChain(h2, c2, i, k) /\ h2[i].dbind = ind
  /\ \A j \in Used(h) : h2[j].key = h[j].key /\ h2[j].dbind = h[j].dbind /\ c2[j] = c[j]

(* What changes in the cells.                                            *)
More(h, c, h2, c2, i, k, ind) ==
  /\ h2 \in Seq(Hashed) /\ i \in Nat /\ Prime <= Len(h2) /\ Linked(h2, Used(h2), c2)
  /\ i \notin Used(h) /\ Used(h2) = Used(h) \union {i}
  /\ \A j \in DOMAIN h2 \ Used(h2) : h2[j] = NoHash
  /\ h2[i].key = k /\ h2[i].dbind = ind /\ c2[i] = Hash[k]
  /\ i <= Prime => i = Hash[k]
  /\ h2[i].prev = IF i <= Prime THEN Nil ELSE Hash[k]
  /\ \A j \in Used(h) : /\ h2[j].key = h[j].key /\ h2[j].dbind = h[j].dbind
                        /\ c2[j] = c[j] /\ (h2[j].prev = h[j].prev \/ h2[j].prev = i)
                        /\ (h[j].prev = Nil => h2[j].prev = Nil)

(* Chains of a table with one entry more.                                *)
LEMMA ChainsMore ==
  ASSUME NEW h, NEW c, Chains(h, c), NEW k \in Keys, \A j : ~OnChain(h, c, j, k),
         NEW h2, NEW c2, NEW i, NEW ind, More(h, c, h2, c2, i, k, ind)
  PROVE  Inserted(h, c, h2, c2, i, k, ind)
<1> USE DEF More
<1>0. Hash[k] # Nil /\ Hash[k] # 0
  BY PrimaryFacts
<1>1. ASSUME NEW j \in Used(h2)
      PROVE  /\ h2[j].key \in Keys
             /\ j <= Prime => c2[j] = j /\ h2[j].prev = Nil
             /\ c2[j] # 0 => c2[j] = Hash[h2[j].key] /\ (h2[j].prev = Nil => j = c2[j])
  <2>1. CASE j = i
    BY <1>0, <2>1
  <2>2. CASE j \in Used(h)
    <3>1. /\ h[j].key \in Keys
          /\ j <= Prime => c[j] = j /\ h[j].prev = Nil
          /\ c[j] # 0 => c[j] = Hash[h[j].key] /\ (h[j].prev = Nil => j = c[j])
      BY <2>2 DEF Chains
    <3>2. i # Nil
      BY SeqCells, <1>0 DEF Used, Nil
    <3>3. h2[j].prev = Nil => h[j].prev = Nil
      BY <2>2, <3>2
    <3> QED BY <2>2, <3>1, <3>3
  <2> QED BY <2>1, <2>2
<1>2. ASSUME NEW a \in Used(h2), NEW b \in Used(h2),
             OnChain(h2, c2, a, h2[a].key), OnChain(h2, c2, b, h2[a].key)
      PROVE  a = b
  <2>1. CASE a \in Used(h) /\ b \in Used(h)
    <3>1. OnChain(h, c, a, h[a].key) /\ OnChain(h, c, b, h[a].key)
      BY <1>2, <2>1 DEF OnChain
    <3> QED BY <2>1, <3>1 DEF Chains
  <2>2. CASE a = i /\ b \in Used(h)
    <3>1. OnChain(h, c, b, k)
      BY <1>2, <2>2 DEF OnChain
    <3> QED BY <3>1
  <2>3. CASE a \in Used(h) /\ b = i
    <3>1. OnChain(h, c, a, k)
      BY <1>2, <2>3 DEF OnChain
    <3> QED BY <3>1
  <2> QED BY <2>1, <2>2, <2>3
<1>3. Chains(h2, c2)
  BY <1>1, <1>2 DEF Chains
<1>4. OnChain(h2, c2, i, k)
  BY <1>0 DEF OnChain
<1> QED BY <1>3, <1>4 DEF Inserted

(* An entry that is linked.                                              *)
WithLinks(x, p, n) == [x EXCEPT !.prev = p, !.next = n]
(* A hash entry is a blank one with its links.                           *)
LEMMA EntryLinks ==
  ASSUME NEW k, NEW ind, NEW p, NEW n, NEW x, x = HashEntry(k, ind, Nil, Nil)
  PROVE  WithLinks(x, p, n) = HashEntry(k, ind, p, n)
<1> DEFINE Entries(b, a) ==
             [use : {TRUE}, key : {k}, dbind : {ind}, prev : {b}, next : {a}]
<1>1. x \in Entries(Nil, Nil)
  BY DEF HashEntry
<1>2. WithLinks(x, p, n) \in Entries(p, n)
  BY Zenon, <1>1 DEF WithLinks
<1>3. ASSUME NEW y \in Entries(p, n) PROVE y = HashEntry(k, ind, p, n)
  BY Zenon DEF HashEntry
<1> HIDE DEF Entries
<1> QED BY <1>2, <1>3

(* The place of a new entry.                                             *)
LEMMA EntryPlace ==
  ASSUME NEW h \in Seq(Hashed), Prime <= Len(h), NEW finder \in Nat, NEW new \in Hashed, new.use,
         NEW i, i = Scan(h, Prime, finder), NEW e, e = Placed(h, i, new, NoHash)
  PROVE  OneMore(Hashed, h, Prime, i, new, NoHash, e)
<1>1. NoHash \in Hashed /\ ~NoHash.use
  <2>1. NoHash.use = FALSE
    BY DEF NoHash
  <2> QED BY <2>1 DEF NoHash, Hashed, Nil
<1>2. Prime \in Nat
  BY RankDBAssumption
<1> QED BY <1>1, <1>2, PlacedFacts

(* tableInsertNode, for a key that is not found.                         *)
LEMMA InsertNodeFacts ==
  ASSUME NEW tab \in TableType, NEW c, Chains(tab.hash, c), NEW k \in Keys,
         \A j : ~OnChain(tab.hash, c, j, k), NEW ind \in Nat
  PROVE  /\ tableInsertNode(tab, k, ind) \in TableType
         /\ tableInsertNode(tab, k, ind).top = tab.top
         /\ \E c2, i : Inserted(tab.hash, c, tableInsertNode(tab, k, ind).hash, c2, i, k, ind)
<1> DEFINE h == tab.hash
           p == Hash[k]
           tab2 == tableInsertNode(tab, k, ind)
           new == HashEntry(k, ind, Nil, Nil)
<1>0. /\ p \in 1 .. Prime /\ p \in DOMAIN h /\ p # Nil /\ p # 0 /\ p \in Nat
      /\ DOMAIN h = 1 .. Len(h) /\ Len(h) \in Nat /\ Prime \in Nat \ {0} /\ Prime <= Len(h)
      /\ Cells(h) /\ h \in Seq(Hashed) /\ tab.finder \in Nat
      /\ p \in Used(h) => c[p] = p /\ h[p].prev = Nil
  BY PrimaryFacts DEF Chains, TableType
<1>1. new \in Hashed /\ new.use /\ new.key = k /\ new.dbind = ind /\ new.prev = Nil /\ new.next = Nil
  BY DEF HashEntry, Hashed, Nil
<1>2. CASE p \notin Used(h)
  <2> DEFINE h2 == [h EXCEPT ![p] = new]
             c2 == [j \in Nat |-> IF j = p THEN p ELSE c[j]]
  <2>1. tab2 = [tab EXCEPT !.hash[p] = new]
    BY <1>0, <1>2 DEF tableInsertNode, Used
  <2>2. h2 \in Seq(Hashed) /\ DOMAIN h2 = DOMAIN h /\ Len(h2) = Len(h)
    BY <1>0, <1>1
  <2>3. tab2 = [tab EXCEPT !.hash = h2] /\ tab2.hash = h2 /\ tab2.top = tab.top /\ tab2 \in TableType
    BY Zenon, <2>1, <2>2 DEF TableType
  <2>4. h2[p] = new /\ \A j \in DOMAIN h \ {p} : h2[j] = h[j]
    BY <1>0
  <2> HIDE DEF h2
  <2>5. Used(h2) = Used(h) \union {p}
    BY <1>0, <1>1, <2>2, <2>4 DEF Used
  <2>6. \A j \in Used(h) : j \in DOMAIN h \ {p} /\ h2[j] = h[j] /\ c2[j] = c[j]
    BY <1>0, <1>2, <2>4 DEF Used
  <2>7. Linked(h2, Used(h) \union {p}, c2)
    <3>1. Linked(h, Used(h), c)
      BY DEF Chains
    <3>2. Cells(h2)
      BY <2>2, SeqCells
    <3>3. /\ Used(h) \subseteq DOMAIN h2 /\ p \in DOMAIN h2 \ Used(h)
          /\ h2[p].next = Nil /\ h2[p].prev = Nil
          /\ \A j \in Used(h) : h2[j].next = h[j].next /\ h2[j].prev = h[j].prev
          /\ \A j \in Used(h) : c2[j] = c[j]
      BY Zenon, <1>0, <1>1, <1>2, <2>2, <2>4, <2>6
    <3> HIDE DEF c2
    <3> QED BY <3>1, <3>2, <3>3, LinkedLone
  <2>8. c2[p] = p
    BY <1>0
  <2>9. \A j \in DOMAIN h2 \ Used(h2) : h2[j] = NoHash
    BY <2>2, <2>4, <2>5 DEF Chains
  <2> HIDE DEF c2
  <2>10. Inserted(h, c, h2, c2, p, k, ind)
    <3>1. h2[p].key = k /\ h2[p].dbind = ind /\ h2[p].prev = Nil /\ p <= Prime
      BY <1>0, <1>1, <2>4
    <3> HIDE DEF new
    <3>2. More(h, c, h2, c2, p, k, ind)
      BY <1>0, <1>2, <2>2, <2>5, <2>6, <2>7, <2>8, <2>9, <3>1 DEF More
    <3> QED BY <3>2, ChainsMore
  <2> QED BY <2>3, <2>10
<1>3. CASE p \in Used(h)
  <2> DEFINE i == Scan(h, Prime, tab.finder)
             e == Placed(h, i, new, NoHash)
             h2 == LinkAfter(e, i, p)
             nx == h[p].next
             c2 == [j \in Nat |-> IF j = i THEN p ELSE c[j]]
             enl == Enlarged(h, i, NoHash)
             h3 == [j \in 1 .. Len(enl) |->
                      IF j = i THEN HashEntry(k, ind, p, nx)
                      ELSE IF j = p THEN [h[j] EXCEPT !.next = i]
                      ELSE IF j = nx THEN [h[j] EXCEPT !.prev = i]
                      ELSE enl[j]]
  <2>1. tab2 = [tab EXCEPT !.finder = i, !.hash = h3]
    BY <1>0, <1>3 DEF tableInsertNode, Used
  <2>2. NoHash \in Hashed /\ ~NoHash.use
    <3>1. NoHash.use = FALSE
      BY DEF NoHash
    <3> QED BY <3>1 DEF NoHash, Hashed, Nil
  <2>3. /\ e \in Seq(Hashed) /\ i \in Nat /\ i > Prime
        /\ DOMAIN h \subseteq DOMAIN e /\ i \in DOMAIN e /\ e[i] = new
        /\ i \notin Used(h) /\ Used(e) = Used(h) \union {i}
        /\ \A j \in Used(h) : e[j] = h[j]
        /\ \A j \in DOMAIN e \ {i} : e[j] = IF j \in DOMAIN h THEN h[j] ELSE NoHash
    <3>1. i = Scan(h, Prime, tab.finder) /\ e = Placed(h, i, new, NoHash)
      OBVIOUS
    <3> HIDE DEF new, i, e, h
    <3>2. OneMore(Hashed, h, Prime, i, new, NoHash, e)
      BY <1>0, <1>1, <3>1, EntryPlace
    <3> QED BY <3>2 DEF OneMore
  <2>4. nx # Nil => nx \in Used(h) /\ h[nx].prev = p
    BY Zenon, <1>3 DEF Chains, Linked, Links
  <2>5. h3 = h2
    <3>1. enl \in Seq(Hashed) /\ DOMAIN enl = 1 .. Len(enl) /\ DOMAIN e = DOMAIN enl
          /\ \A j \in DOMAIN enl \ {i} : e[j] = enl[j]
      <4>1. i \in 1 .. Len(h) + 1
        <5>1. i \in Prime + 1 .. Len(h) + 1
          BY Zenon, <1>0, ScanFacts
        <5> HIDE DEF i
        <5> QED BY <1>0, <5>1
      <4>2. enl \in Seq(Hashed)
        BY <1>0, <2>2, <4>1, EnlargedFacts
      <4>3. e = [enl EXCEPT ![i] = new]
        BY DEF Placed
      <4> HIDE DEF enl, e, new
      <4> QED BY <4>2, <4>3
    <3>2. h2 = [j \in DOMAIN e |->
                  IF j = i THEN [e[j] EXCEPT !.prev = p, !.next = nx]
                  ELSE IF j = p THEN [e[j] EXCEPT !.next = i]
                  ELSE IF j = nx THEN [e[j] EXCEPT !.prev = i]
                  ELSE e[j]]
      BY Zenon, <1>3, <2>3 DEF LinkAfter
    <3>3. [new EXCEPT !.prev = p, !.next = nx] = HashEntry(k, ind, p, nx)
      <4>1. new = HashEntry(k, ind, Nil, Nil)
        OBVIOUS
      <4> HIDE DEF new, p, nx
      <4>2. WithLinks(new, p, nx) = HashEntry(k, ind, p, nx)
        BY <4>1, EntryLinks
      <4> QED BY <4>2 DEF WithLinks
    <3>4. ASSUME NEW j \in DOMAIN e
          PROVE  (IF j = i THEN [e[j] EXCEPT !.prev = p, !.next = nx]
                  ELSE IF j = p THEN [e[j] EXCEPT !.next = i]
                  ELSE IF j = nx THEN [e[j] EXCEPT !.prev = i]
                  ELSE e[j])
                 = (IF j = i THEN HashEntry(k, ind, p, nx)
                    ELSE IF j = p THEN [h[j] EXCEPT !.next = i]
                    ELSE IF j = nx THEN [h[j] EXCEPT !.prev = i]
                    ELSE enl[j])
      <4>1. CASE j = i
        BY Zenon, <2>3, <3>3, <4>1
      <4>2. CASE j # i /\ (j = p \/ j = nx)
        <5>1. j \in Used(h)
          <6>1. j # Nil
            BY <2>3, SeqCells DEF Cells
          <6> QED BY <1>3, <2>4, <4>2, <6>1
        <5>2. e[j] = h[j]
          BY <2>3, <5>1
        <5> QED BY <4>2, <5>2
      <4>3. CASE j # i /\ j # p /\ j # nx
        BY <3>1, <4>3
      <4> QED BY <4>1, <4>2, <4>3
    <3> HIDE DEF enl, e, new, i, p, nx
    <3> QED BY Zenon, <3>1, <3>2, <3>4
  <2>6. h2 \in Seq(Hashed)
    BY <1>3, <2>3, LinkAfterType, CellTypes DEF Used
  <2>7. /\ DOMAIN h2 = DOMAIN e /\ Cells(h2)
        /\ \A j \in DOMAIN e : /\ h2[j].use = e[j].use /\ h2[j].key = e[j].key
                               /\ h2[j].dbind = e[j].dbind
                               /\ h2[j].prev = IF j = i THEN p
                                               ELSE IF j = e[p].next /\ j # p THEN i ELSE e[j].prev
    <3>1. Cells(e) /\ p \in DOMAIN e /\ p # i
      BY <1>0, <1>3, <2>3, SeqCells
    <3>2. /\ Cells(h2) /\ Relinked(e, h2)
          /\ \A j \in DOMAIN e :
               h2[j].prev = IF j = i THEN p
                            ELSE IF j = e[p].next /\ j # p THEN i ELSE e[j].prev
      BY <2>3, <3>1, LinkAfterCells
    <3>3. \A j \in DOMAIN e : {"use", "key", "dbind"} \subseteq DOMAIN e[j]
      <4>1. \A j \in DOMAIN e : e[j] \in Hashed
        BY <2>3
      <4>2. \A x \in Hashed : {"use", "key", "dbind"} \subseteq DOMAIN x
        BY DEF Hashed
      <4> HIDE DEF e
      <4> QED BY <4>1, <4>2
    <3> HIDE DEF h2, e
    <3> QED BY <3>2, <3>3 DEF Relinked
  <2>8. tab2 \in TableType /\ tab2.hash = h2 /\ tab2.top = tab.top
    <3> HIDE DEF h2, h3, i
    <3> QED BY Zenon, <2>1, <2>3, <2>5, <2>6 DEF TableType
  <2>9. Used(h2) = Used(h) \union {i}
    BY <2>3, <2>7 DEF Used
  <2>10. \A j \in DOMAIN h2 \ Used(h2) : h2[j] = NoHash
    <3>1. ASSUME NEW j \in DOMAIN h2 \ Used(h2) PROVE h2[j] = NoHash
      <4>1. j \in DOMAIN e /\ j # i /\ j \notin Used(h) /\ j # Nil
        BY <2>7, <2>9 DEF Cells
      <4>2. e[j] = NoHash
        BY <2>3, <4>1 DEF Chains
      <4>3. e[p].next = nx /\ j # nx /\ j # p
        BY <1>3, <2>3, <2>4, <4>1
      <4>4. h2[j] = e[j]
        BY <4>1, <4>3 DEF LinkAfter
      <4> QED BY <4>2, <4>4
    <3> QED BY <3>1
  <2>11. Linked(h2, Used(h) \union {i}, c2)
    <3>1. Linked(e, Used(h), c)
      <4>1. Linked(h, Used(h), c)
        BY DEF Chains
      <4>2. Cells(e) /\ Used(h) \subseteq DOMAIN e
        BY <2>3, SeqCells DEF Used
      <4>3. \A j \in Used(h) : e[j].next = h[j].next /\ e[j].prev = h[j].prev
        BY <2>3
      <4> HIDE DEF e
      <4> QED BY <4>1, <4>2, <4>3, LinkedSame
    <3>2. i \in DOMAIN e \ Used(h)
      BY <2>3
    <3>3. (\A j \in Used(h) : c2[j] = c[j]) /\ c2[i] = c[p]
      BY <1>0, <1>3, <2>3 DEF Used
    <3> HIDE DEF e, i, c2
    <3> QED BY <1>3, <3>1, <3>2, <3>3, LinkedAfter
  <2>12. Prime <= Len(h2) /\ c2[i] = p
    <3>1. DOMAIN h2 = 1 .. Len(h2) /\ Len(h2) \in Nat /\ DOMAIN h \subseteq DOMAIN h2
      BY <2>3, <2>6, <2>7, SeqCells
    <3> HIDE DEF h2, i
    <3> QED BY <1>0, <2>3, <3>1
  <2>13. h2[i].key = k /\ h2[i].dbind = ind /\ h2[i].prev = p
    BY <1>1, <2>3, <2>7
  <2>14. \A j \in Used(h) : /\ h2[j].key = h[j].key /\ h2[j].dbind = h[j].dbind
                            /\ c2[j] = c[j] /\ (h2[j].prev = h[j].prev \/ h2[j].prev = i)
                            /\ (h[j].prev = Nil => h2[j].prev = Nil)
    <3>1. ASSUME NEW j \in Used(h)
          PROVE  /\ h2[j].key = h[j].key /\ h2[j].dbind = h[j].dbind
                 /\ c2[j] = c[j] /\ (h2[j].prev = h[j].prev \/ h2[j].prev = i)
                 /\ (h[j].prev = Nil => h2[j].prev = Nil)
      <4>1. j \in DOMAIN e /\ j # i /\ e[j] = h[j] /\ e[p] = h[p] /\ j \in Nat /\ j # Nil
        BY <1>0, <1>3, <2>3 DEF Used, Cells
      <4>2. h2[j].prev = IF j = nx /\ j # p THEN i ELSE h[j].prev
        BY <2>7, <4>1
      <4>3. j = nx => h[j].prev # Nil
        BY <1>0, <2>4, <4>1
      <4>4. h2[j].key = h[j].key /\ h2[j].dbind = h[j].dbind
        BY <2>7, <4>1
      <4>5. c2[j] = c[j]
        BY <4>1
      <4> HIDE DEF h2, nx, c2, i
      <4> QED BY <4>2, <4>3, <4>4, <4>5
    <3> QED BY <3>1
  <2>15. Inserted(h, c, h2, c2, i, k, ind)
    <3>1. ~(i <= Prime)
      BY <1>0, <2>3
    <3> HIDE DEF h2, c2, i, e, new
    <3>2. More(h, c, h2, c2, i, k, ind)
      BY <2>3, <2>6, <2>9, <2>10, <2>11, <2>12, <2>13, <2>14, <3>1 DEF More
    <3> QED BY <3>2, ChainsMore
  <2> QED BY <2>8, <2>15
<1> QED BY <1>2, <1>3
-----------------------------------------------------------------------------
(* Releasing a hash entry.                                               *)

(* h2 is h without the entry i and, where i is a primary entry, with the *)
(* rest of its chain cut off.                                            *)
Released(h, c, h2, c2, i) ==
  /\ Chains(h2, c2) /\ Used(h2) = Used(h) \ {i}
  /\ \A j \in Used(h2) : /\ h2[j].key = h[j].key /\ h2[j].dbind = h[j].dbind
                         /\ c2[j] = IF c[j] = i THEN 0 ELSE c[j]

(* tableReleaseNode.                                                     *)
LEMMA ReleaseFacts ==
  ASSUME NEW tab \in TableType, NEW c, Chains(tab.hash, c), NEW i \in Used(tab.hash)
  PROVE  /\ tableReleaseNode(tab, i) \in TableType
         /\ tableReleaseNode(tab, i).top = tab.top
         /\ \E c2 : Released(tab.hash, c, tableReleaseNode(tab, i).hash, c2, i)
<1> DEFINE h == tab.hash
           h2 == Freed(h, i, NoHash)
           c2 == [j \in Nat |-> IF c[j] = i THEN 0 ELSE c[j]]
<1>1. h \in Seq(Hashed) /\ Cells(h) /\ Linked(h, Used(h), c) /\ DOMAIN h = 1 .. Len(h)
      /\ Used(h) \subseteq DOMAIN h /\ Used(h) \subseteq Nat \ {Nil} /\ i \in Used(h)
  BY SeqCells DEF Chains, Used, Nil
<1>2. NoHash \in Hashed /\ ~NoHash.use
  <2>1. NoHash.use = FALSE
    BY DEF NoHash
  <2> QED BY <2>1 DEF NoHash, Hashed, Nil
<1>3. /\ h2 \in Seq(Hashed) /\ Cells(h2) /\ DOMAIN h2 = DOMAIN h
      /\ Used(h2) = Used(h) \ {i} /\ h2[i] = NoHash
      /\ Linked(h2, Used(h) \ {i}, c)
      /\ \A j \in DOMAIN h \ {i} :
           /\ \A x \in DOMAIN h[j] \ {"prev", "next"} : h2[j][x] = h[j][x]
           /\ h2[j].prev = IF j = h[i].next /\ j # h[i].prev THEN h[i].prev ELSE h[j].prev
      /\ \A j \in DOMAIN h \ Used(h) : h2[j] = h[j]
  <2>1. Relinkable(Hashed)
    BY CellTypes
  <2> HIDE DEF h
  <2>2. OneLess(Hashed, h, c, i, NoHash, h2)
    BY <1>1, <1>2, <2>1, FreedFacts
  <2> HIDE DEF h2
  <2> QED BY <2>2 DEF OneLess
<1>4. tableReleaseNode(tab, i) = [tab EXCEPT !.hash = h2]
  BY DEF tableReleaseNode
<1> HIDE DEF h2
<1>5. /\ tableReleaseNode(tab, i) \in TableType /\ tableReleaseNode(tab, i).top = tab.top
      /\ tableReleaseNode(tab, i).hash = h2
  BY <1>3, <1>4 DEF TableType
<1>6. \A j \in Used(h) \ {i} : h2[j].key = h[j].key /\ h2[j].dbind = h[j].dbind
  <2>1. \A x \in Hashed : {"use", "key", "dbind"} \subseteq DOMAIN x
    BY DEF Hashed
  <2>2. \A j \in DOMAIN h : h[j] \in Hashed
    BY <1>1
  <2> HIDE DEF h
  <2> QED BY <1>1, <1>3, <2>1, <2>2
<1>7. \A j \in Used(h) : c2[j] = IF c[j] = i THEN 0 ELSE c[j]
  BY <1>1
<1>8. Linked(h2, Used(h2), c2)
  <2>1. \A j, x \in Used(h2) : c[j] = c[x] => c2[j] = c2[x]
    BY <1>3, <1>7
  <2>2. Used(h2) \subseteq DOMAIN h2
    BY DEF Used
  <2>3. Linked(h2, Used(h2), c)
    BY <1>3
  <2> HIDE DEF c2, h
  <2> QED BY <1>3, <2>1, <2>2, <2>3, LinkedSame
<1> HIDE DEF c2
<1>9. \A j \in DOMAIN h2 \ Used(h2) : h2[j] = NoHash
  BY <1>3 DEF Chains
<1>10. ASSUME NEW j \in Used(h2)
       PROVE  /\ h2[j].key \in Keys
              /\ j <= Prime => c2[j] = j /\ h2[j].prev = Nil
              /\ c2[j] # 0 => c2[j] = Hash[h2[j].key] /\ (h2[j].prev = Nil => j = c2[j])
  <2>1. /\ j \in Used(h) /\ j # i /\ j \in DOMAIN h \ {i} /\ h2[j].key = h[j].key
        /\ c2[j] = IF c[j] = i THEN 0 ELSE c[j]
        /\ h[j].key \in Keys
        /\ j <= Prime => c[j] = j /\ h[j].prev = Nil
        /\ c[j] # 0 => c[j] = Hash[h[j].key] /\ (h[j].prev = Nil => j = c[j])
    BY <1>1, <1>3, <1>6, <1>7 DEF Chains
  <2>2. h2[j].prev = IF j = h[i].next /\ j # h[i].prev THEN h[i].prev ELSE h[j].prev
    BY <1>3, <2>1
  <2>3. h[i].next # Nil => h[h[i].next].prev = i /\ c[h[i].next] = c[i]
    BY Zenon, <1>1 DEF Linked, Links
  <2>4. c[i] # 0 => (h[i].prev = Nil => i = c[i])
    BY DEF Chains
  <2>5. j # Nil /\ i # Nil
    BY <1>1, <2>1
  <2> QED BY <2>1, <2>2, <2>3, <2>4, <2>5
<1>11. ASSUME NEW a \in Used(h2), NEW b \in Used(h2),
              OnChain(h2, c2, a, h2[a].key), OnChain(h2, c2, b, h2[a].key)
       PROVE  a = b
  <2>1. OnChain(h, c, a, h[a].key) /\ OnChain(h, c, b, h[a].key)
    BY <1>3, <1>6, <1>7, <1>11 DEF OnChain
  <2>2. a \in Used(h) /\ b \in Used(h)
    BY <1>3
  <2> QED BY <2>1, <2>2 DEF Chains
<1>12. Prime <= Len(h2)
  <2>1. Len(h2) = Len(h)
    BY <1>1, <1>3
  <2> QED BY <2>1 DEF Chains
<1>13. Chains(h2, c2)
  BY <1>3, <1>8, <1>9, <1>10, <1>11, <1>12 DEF Chains
<1>14. Released(h, c, h2, c2, i)
  BY <1>3, <1>6, <1>7, <1>13 DEF Released
<1> QED BY <1>5, <1>14
-----------------------------------------------------------------------------
(* The memory: what is sound, and what is read from it.                  *)

(* The nodes of a table: o[i] is the table the node i belongs to.        *)
Mine(e, o, t) == {i \in Used(e) : o[i] = t}

(* The hash entries of a table point at its nodes, all but the top node, *)
(* one each.                                                             *)
Joined(e, o, t, tb) ==
  /\ \A j \in Used(tb.hash) : /\ tb.hash[j].dbind \in Mine(e, o, t) \ {tb.top}
                              /\ e[tb.hash[j].dbind].key = tb.hash[j].key
  /\ \A j, x \in Used(tb.hash) : tb.hash[j].dbind = tb.hash[x].dbind => j = x
  /\ \A i \in Mine(e, o, t) \ {tb.top} : \E j \in Used(tb.hash) : tb.hash[j].dbind = i

(* The list of a table.                                                  *)
Ranked(e, o, t, top) ==
  \A i \in Mine(e, o, t) :
    /\ e[i].prev = Nil <=> i = top
    /\ i # top => e[i].key \in Keys /\ e[i].ivalue \in Values
    /\ t \in IntTables /\ e[i].next # Nil => e[e[i].next].ivalue <= e[i].ivalue

Owned(e, o, t, tb, c) ==
  /\ tb \in TableType
  /\ tb.top = Nil => Mine(e, o, t) = {} /\ tb.hash = <<>>
  /\ tb.top # Nil => tb.top \in Mine(e, o, t) /\ e[tb.top].ivalue = Above /\ Chains(tb.hash, c)
  /\ Ranked(e, o, t, tb.top) /\ Joined(e, o, t, tb)

(* The pool of nodes.                                                    *)
Pool(e, o) ==
  /\ e \in Seq(Node) /\ Linked(e, Used(e), o)
  /\ \A i \in DOMAIN e \ Used(e) : e[i] = NoEntry
  /\ \A i \in Used(e) : o[i] \in Tables

DBType == [entry : Seq(Node), finder : Nat, table : [Tables -> TableType]]

Sound(d, o, c) ==
  /\ d \in DBType /\ Pool(d.entry, o)
  /\ \A t \in Tables : Owned(d.entry, o, t, d.table[t], c[t])

DbOK(d) == \E o, c : Sound(d, o, c)

(* The nodes of the tables other than t are the same.                    *)
Beyond(e, o, t, e2, o2) ==
  /\ \A i : i \in Used(e2) /\ o2[i] # t <=> i \in Used(e) /\ o[i] # t
  /\ \A i \in Used(e) : o[i] # t => e2[i] = e[i] /\ o2[i] = o[i]

(* The values are natural numbers, and the top node is above them.       *)
LEMMA AboveFacts == /\ Above \in Nat /\ Values \subseteq Nat /\ \A v \in Values : v < Above
                    /\ Absent \notin Values
<1>1. Values \subseteq Nat
  BY RankDBAssumption
<1>2. PICK m \in Values : /\ \A v \in Values : v <= m
                          /\ m = CHOOSE n \in Values : \A v \in Values : v <= n
  BY Zenon, RankDBAssumption
<1>3. Above = 1 + m
  BY <1>2 DEF Above
<1>4. \A v \in Values : v < Above
  <2>1. ASSUME NEW v \in Values PROVE v < 1 + m
    <3>1. v \in Nat /\ m \in Nat /\ v <= m
      BY Zenon, <1>1, <1>2
    <3> QED BY <3>1
  <2> QED BY <1>3, <2>1
<1>5. Above \in Nat
  <2>1. m \in Nat
    BY <1>1
  <2> QED BY <1>3, <2>1
<1>6. Absent \notin Nat
  BY DEF Absent
<1> QED BY Zenon, <1>1, <1>4, <1>5, <1>6

(* A node in use, its links and its neighbours.                          *)
LEMMA PoolFacts ==
  ASSUME NEW e, NEW o, Pool(e, o)
  PROVE  /\ Cells(e) /\ DOMAIN e = 1 .. Len(e) /\ Len(e) \in Nat
         /\ Used(e) \subseteq DOMAIN e /\ Used(e) \subseteq Nat \ {Nil}
         /\ \A i \in DOMAIN e : /\ e[i] \in Node /\ e[i].ivalue \in Nat
                                /\ e[i].prev \in Nat /\ e[i].next \in Nat
         /\ \A i \in DOMAIN e \ Used(e) : e[i].next = Nil /\ e[i].prev = Nil
         /\ \A i \in Used(e) :
              /\ e[i].next # Nil => /\ e[i].next \in Used(e) /\ e[e[i].next].prev = i
                                    /\ o[e[i].next] = o[i] /\ e[i].next # i
              /\ e[i].prev # Nil => /\ e[i].prev \in Used(e) /\ e[e[i].prev].next = i
                                    /\ o[e[i].prev] = o[i] /\ e[i].prev # i
<1>1. /\ Cells(e) /\ DOMAIN e = 1 .. Len(e) /\ Len(e) \in Nat
      /\ Used(e) \subseteq DOMAIN e /\ Used(e) \subseteq Nat \ {Nil}
  BY SeqCells DEF Pool, Used, Nil
<1>2. \A i \in DOMAIN e : /\ e[i] \in Node /\ e[i].ivalue \in Nat
                          /\ e[i].prev \in Nat /\ e[i].next \in Nat
  <2>1. \A i \in DOMAIN e : e[i] \in Node
    BY DEF Pool
  <2>2. \A x \in Node : x.ivalue \in Nat /\ x.prev \in Nat /\ x.next \in Nat
    <3>1. Values \union {0, Above} \subseteq Nat
      BY AboveFacts
    <3> QED BY <3>1 DEF Node
  <2> QED BY <2>1, <2>2
<1>3. \A i \in DOMAIN e \ Used(e) : e[i].next = Nil /\ e[i].prev = Nil
  <2>1. NoEntry.next = Nil /\ NoEntry.prev = Nil
    BY DEF NoEntry
  <2> QED BY <2>1 DEF Pool
<1>4. PICK M \in Nat : \E r \in [Nat -> 0 .. M] : Links(e, Used(e), o, r)
  BY Zenon DEF Pool, Linked
<1>5. PICK r \in [Nat -> 0 .. M] : Links(e, Used(e), o, r)
  BY <1>4
<1>6. \A i \in Used(e) : r[i] \in Nat
  BY <1>1, <1>5
<1>7. \A i \in Used(e) :
        e[i].next # Nil => /\ e[i].next \in Used(e) /\ e[e[i].next].prev = i
                           /\ o[e[i].next] = o[i] /\ e[i].next # i
  BY <1>5, <1>6 DEF Links
<1>8. \A i \in Used(e) :
        e[i].prev # Nil => /\ e[i].prev \in Used(e) /\ e[e[i].prev].next = i
  BY <1>5 DEF Links
<1>9. \A i \in Used(e) :
        e[i].prev # Nil => /\ o[e[i].prev] = o[i] /\ e[i].prev # i
  <2>1. ASSUME NEW i \in Used(e), e[i].prev # Nil
        PROVE  o[e[i].prev] = o[i] /\ e[i].prev # i
    <3> DEFINE j == e[i].prev
    <3>1. j \in Used(e) /\ e[j].next = i /\ i # Nil
      BY <1>1, <1>8, <2>1
    <3> HIDE DEF j
    <3>2. o[i] = o[j] /\ i # j
      BY <1>7, <3>1
    <3> QED BY <3>2 DEF j
  <2> QED BY <2>1
<1> QED BY Zenon, <1>1, <1>2, <1>3, <1>7, <1>8, <1>9

(* A table is as it was when its nodes are.                              *)
LEMMA OwnedBeyond ==
  ASSUME NEW e, NEW o, Pool(e, o), NEW t, NEW e2, NEW o2, Beyond(e, o, t, e2, o2),
         NEW x, x # t, NEW tb, NEW c, Owned(e, o, x, tb, c)
  PROVE  Owned(e2, o2, x, tb, c)
<1>1. Mine(e2, o2, x) = Mine(e, o, x)
  BY DEF Mine, Beyond
<1>2. \A i \in Mine(e, o, x) : e2[i] = e[i]
  BY DEF Mine, Beyond
<1>3. \A i \in Mine(e, o, x) : e[i].next # Nil => e[i].next \in Mine(e, o, x)
  BY PoolFacts DEF Mine
<1>4. Ranked(e2, o2, x, tb.top)
  BY <1>1, <1>2, <1>3 DEF Owned, Ranked
<1>5. Joined(e2, o2, x, tb)
  BY <1>1, <1>2 DEF Owned, Joined
<1>6. tb.top # Nil => e2[tb.top] = e[tb.top]
  BY <1>2 DEF Owned
<1> QED BY <1>1, <1>4, <1>5, <1>6 DEF Owned

(* A step on the table t keeps the memory sound.                         *)
Worked(d, o, t, d2, o2) ==
  /\ Beyond(d.entry, o, t, d2.entry, o2)
  /\ \A x \in Tables \ {t} : d2.table[x] = d.table[x]

Stepped(d, o, c, t, d2, o2, c2) ==
  /\ d2 \in DBType /\ Pool(d2.entry, o2) /\ Worked(d, o, t, d2, o2)
  /\ Owned(d2.entry, o2, t, d2.table[t], c2[t])
  /\ \A x \in Tables \ {t} : c2[x] = c[x]

(* Such a step keeps the memory sound: the other tables are as they      *)
(* were.                                                                 *)
LEMMA SoundStep ==
  ASSUME NEW d, NEW o, NEW c, Sound(d, o, c), NEW t \in Tables,
         NEW d2, NEW o2, NEW c2, Stepped(d, o, c, t, d2, o2, c2)
  PROVE  Sound(d2, o2, c2)
<1>1. ASSUME NEW x \in Tables
      PROVE  Owned(d2.entry, o2, x, d2.table[x], c2[x])
  <2>1. CASE x = t
    BY <2>1 DEF Stepped
  <2>2. CASE x # t
    <3>1. d2.table[x] = d.table[x] /\ c2[x] = c[x]
      BY <2>2 DEF Worked, Stepped
    <3>2. Owned(d2.entry, o2, x, d.table[x], c[x])
      BY <2>2, OwnedBeyond DEF Sound, Worked, Stepped
    <3> QED BY <3>1, <3>2
  <2> QED BY <2>1, <2>2
<1> QED BY <1>1 DEF Sound, Stepped

(* What is read from the other tables is what it was.                    *)
LEMMA GetBeyond ==
  ASSUME NEW d, NEW o, NEW c, Sound(d, o, c), NEW t, NEW d2, NEW o2, Worked(d, o, t, d2, o2),
         NEW x \in Tables, x # t, NEW k \in Keys
  PROVE  Get(d2, x, k) = Get(d, x, k)
<1>1. d2.table[x] = d.table[x]
  BY DEF Worked
<1>2. CASE d.table[x].top = Nil
  BY <1>1, <1>2 DEF Get
<1>3. CASE d.table[x].top # Nil
  <2> DEFINE h == tableGetEntry(d.table[x], k)
  <2>1. Chains(d.table[x].hash, c[x]) /\ Owned(d.entry, o, x, d.table[x], c[x])
    BY <1>3 DEF Sound, Owned
  <2>2. h # Nil => h \in Used(d.table[x].hash)
    BY Zenon, <2>1, GetEntryFacts DEF OnChain
  <2>3. h # Nil => d2.entry[d.table[x].hash[h].dbind] = d.entry[d.table[x].hash[h].dbind]
    BY <2>1, <2>2 DEF Owned, Joined, Mine, Worked, Beyond
  <2> HIDE DEF h
  <2>4. Get(d2, x, k) = IF h = Nil THEN Absent ELSE d2.entry[d.table[x].hash[h].dbind].ivalue
    BY <1>1, <1>3 DEF Get, h
  <2>5. Get(d, x, k) = IF h = Nil THEN Absent ELSE d.entry[d.table[x].hash[h].dbind].ivalue
    BY <1>3 DEF Get, h
  <2>6. CASE h = Nil
    BY <2>4, <2>5, <2>6
  <2>7. CASE h # Nil
    <3> DEFINE node == d.entry[d.table[x].hash[h].dbind]
    <3>1. Get(d, x, k) = node.ivalue
      BY <2>5, <2>7
    <3>2. d2.entry[d.table[x].hash[h].dbind] = node
      BY <2>3, <2>7
    <3> HIDE DEF node
    <3>3. Get(d2, x, k) = node.ivalue
      BY <2>4, <2>7, <3>2
    <3> QED BY <3>1, <3>3
  <2> QED BY <2>6, <2>7
<1> QED BY <1>2, <1>3

(* What is read is the value of the node the on-chain entry of the key   *)
(* names.                                                                *)
Reads(d, c, t, k) ==
  LET tb == d.table[t] IN
  /\ tb.top = Nil => Get(d, t, k) = Absent
  /\ tb.top # Nil /\ (\A j : ~OnChain(tb.hash, c[t], j, k))
       => Get(d, t, k) = Absent /\ tableGetEntry(tb, k) = Nil
  /\ \A j : tb.top # Nil /\ OnChain(tb.hash, c[t], j, k) =>
       /\ Get(d, t, k) = d.entry[tb.hash[j].dbind].ivalue
       /\ Get(d, t, k) \in Values /\ tableGetEntry(tb, k) = j

(* dbGetEntryInt reads exactly that.                                     *)
LEMMA GetFacts ==
  ASSUME NEW d, NEW o, NEW c, Sound(d, o, c), NEW t \in Tables, NEW k \in Keys
  PROVE  Reads(d, c, t, k)
<1> DEFINE tb == d.table[t]
           h == tableGetEntry(tb, k)
<1>1. Owned(d.entry, o, t, tb, c[t])
  BY DEF Sound
<1>2. CASE tb.top = Nil
  BY <1>2 DEF Get, Reads
<1>3. CASE tb.top # Nil
  <2>1. Chains(tb.hash, c[t])
    BY <1>1, <1>3 DEF Owned
  <2>2. IF h = Nil THEN \A j : ~OnChain(tb.hash, c[t], j, k) ELSE OnChain(tb.hash, c[t], h, k)
    BY Zenon, <2>1, GetEntryFacts
  <2>3. Get(d, t, k) = IF h = Nil THEN Absent ELSE d.entry[tb.hash[h].dbind].ivalue
    BY <1>3 DEF Get
  <2>4. ASSUME NEW j, OnChain(tb.hash, c[t], j, k)
        PROVE  h = j /\ h # Nil /\ d.entry[tb.hash[j].dbind].ivalue \in Values
    <3>1. h # Nil
      BY <2>2, <2>4
    <3>2. h = j
      BY <2>1, <2>2, <2>4, <3>1 DEF OnChain, Chains
    <3>3. tb.hash[j].dbind \in Mine(d.entry, o, t) \ {tb.top}
      BY <1>1, <2>4 DEF Owned, Joined, OnChain
    <3> QED BY <1>1, <3>1, <3>2, <3>3 DEF Owned, Ranked
  <2> HIDE DEF h
  <2>5. h = Nil \/ \E j : OnChain(tb.hash, c[t], j, k)
    BY <2>2
  <2> QED BY Zenon, <1>3, <2>2, <2>3, <2>4, <2>5 DEF h, Reads
<1> QED BY <1>2, <1>3
-----------------------------------------------------------------------------
(* Creating a table.                                                     *)

(* Blank cells and new nodes.                                            *)
LEMMA NodeFacts ==
  /\ NoEntry \in Node /\ ~NoEntry.use
  /\ NoHash \in Hashed /\ ~NoHash.use
  /\ \A v \in Values \union {Above}, k \in Keys \union {TopKey} :
       /\ DBEntry(v, k) \in Node /\ DBEntry(v, k).use
       /\ DBEntry(v, k).ivalue = v /\ DBEntry(v, k).key = k
       /\ DBEntry(v, k).prev = Nil /\ DBEntry(v, k).next = Nil
<1>1. NoEntry.use = FALSE /\ NoHash.use = FALSE
  BY DEF NoEntry, NoHash
<1>2. NoEntry \in Node
  BY DEF NoEntry, Node, Nil
<1>3. NoHash \in Hashed
  BY DEF NoHash, Hashed, Nil
<1>4. ASSUME NEW v \in Values \union {Above}, NEW k \in Keys \union {TopKey}
      PROVE  /\ DBEntry(v, k) \in Node /\ DBEntry(v, k).use
             /\ DBEntry(v, k).ivalue = v /\ DBEntry(v, k).key = k
             /\ DBEntry(v, k).prev = Nil /\ DBEntry(v, k).next = Nil
  <2>1. DBEntry(v, k) \in Node
    BY DEF DBEntry, Node, Nil
  <2>2. DBEntry(v, k).use
    BY DEF DBEntry
  <2> QED BY <2>1, <2>2 DEF DBEntry
<1> QED BY <1>1, <1>2, <1>3, <1>4

(* The place of a new node.                                              *)
LEMMA NodePlace ==
  ASSUME NEW e, NEW o, Pool(e, o), NEW finder \in Nat, NEW x \in Node, x.use,
         NEW i, i = Scan(e, 0, finder), NEW e2, e2 = Placed(e, i, x, NoEntry)
  PROVE  OneMore(Node, e, 0, i, x, NoEntry, e2)
<1>1. e \in Seq(Node) /\ Len(e) \in Nat /\ 0 \in Nat /\ 0 <= Len(e)
  BY PoolFacts DEF Pool
<1> QED BY <1>1, NodeFacts, PlacedFacts

(* The memory with a new node.                                           *)
LEMMA WithNodeFacts ==
  ASSUME NEW d \in DBType, NEW i \in Nat, NEW x, Placed(d.entry, i, x, NoEntry) \in Seq(Node)
  PROVE  /\ WithNode(d, i, x) \in DBType
         /\ WithNode(d, i, x).entry = Placed(d.entry, i, x, NoEntry)
         /\ WithNode(d, i, x).table = d.table
<1> DEFINE e2 == Placed(d.entry, i, x, NoEntry)
<1>1. WithNode(d, i, x) = [d EXCEPT !.entry = e2, !.finder = i]
  BY DEF WithNode, Placed, DBType
<1> HIDE DEF e2
<1> QED BY Zenon, <1>1 DEF DBType, e2

(* d2 has the table t, empty where d did not have it.                    *)
Created(d, o, t, d2, o2) ==
  /\ Worked(d, o, t, d2, o2) /\ d2.table[t].top # Nil
  /\ d.table[t].top # Nil => d2 = d /\ o2 = o
  /\ d.table[t].top = Nil => Mine(d2.entry, o2, t) = {d2.table[t].top}
  /\ \A k \in Keys : Get(d2, t, k) = Get(d, t, k)

(* A step that changes nothing.                                          *)
LEMMA WorkedSame == \A d, o, t : Worked(d, o, t, d, o)
  BY DEF Worked, Beyond

(* The hash table of a new table.                                        *)
LEMMA EmptyChains ==
  LET h == [j \in 1 .. Prime + Grow |-> NoHash] IN
  h \in Seq(Hashed) /\ Used(h) = {} /\ \A c : Chains(h, c)
<1> DEFINE h == [j \in 1 .. Prime + Grow |-> NoHash]
<1>1. Prime + Grow \in Nat /\ Prime <= Prime + Grow
  BY RankDBAssumption
<1>2. h \in Seq(Hashed) /\ Len(h) = Prime + Grow
  BY <1>1, NodeFacts
<1>3. Used(h) = {}
  BY NodeFacts DEF Used
<1>4. \A j \in DOMAIN h : h[j] = NoHash
  OBVIOUS
<1> HIDE DEF h
<1>5. ASSUME NEW c PROVE Chains(h, c)
  <2>1. Linked(h, {}, c)
    <3>1. Links(h, {}, c, [n \in Nat |-> 0])
      BY DEF Links
    <3>2. [n \in Nat |-> 0] \in [Nat -> 0 .. 0]
      OBVIOUS
    <3> QED BY <1>2, <3>1, <3>2, SeqCells DEF Linked
  <2> QED BY <1>1, <1>2, <1>3, <1>4, <2>1 DEF Chains
<1> QED BY Zenon, <1>2, <1>3, <1>5 DEF h

(* dbGetTableIndex.                                                      *)
LEMMA CreateFacts ==
  ASSUME NEW d, NEW o, NEW c, Sound(d, o, c), NEW t \in Tables
  PROVE  \E o2, c2 : /\ Sound(dbGetTableIndex(d, t), o2, c2)
                     /\ Created(d, o, t, dbGetTableIndex(d, t), o2)
<1>1. CASE d.table[t].top # Nil
  <2>1. dbGetTableIndex(d, t) = d
    BY <1>1 DEF dbGetTableIndex
  <2>2. Created(d, o, t, d, o)
    BY <1>1, WorkedSame DEF Created
  <2> QED BY <2>1, <2>2
<1>2. CASE d.table[t].top = Nil
  <2> DEFINE e == d.entry
             i == dbAllocNode(d)
             x == DBEntry(Above, TopKey)
             e2 == Placed(e, i, x, NoEntry)
             h2 == [j \in 1 .. Prime + Grow |-> NoHash]
             tb2 == [top |-> i, hash |-> h2, finder |-> Prime + 1, updated |-> FALSE]
             d2 == dbGetTableIndex(d, t)
             o2 == [j \in Nat |-> IF j = i THEN t ELSE o[j]]
  <2>1. d \in DBType /\ Pool(e, o) /\ Owned(e, o, t, d.table[t], c[t])
    BY DEF Sound
  <2>2. x \in Node /\ x.use /\ x.ivalue = Above /\ x.prev = Nil /\ x.next = Nil
    BY NodeFacts
  <2>3. OneMore(Node, e, 0, i, x, NoEntry, e2)
    <3>1. i = Scan(e, 0, d.finder) /\ e2 = Placed(e, i, x, NoEntry) /\ d.finder \in Nat
      BY <2>1 DEF dbAllocNode, DBType
    <3> HIDE DEF e2, x, i, e
    <3> QED BY <2>1, <2>2, <3>1, NodePlace
  <2>4. d2 = [WithNode(d, i, x) EXCEPT !.table[t] = tb2]
    BY <1>2 DEF dbGetTableIndex
  <2>5. h2 \in Seq(Hashed) /\ Used(h2) = {} /\ \A cc : Chains(h2, cc)
    BY Zenon, EmptyChains
  <2>6. i \in Nat \ {Nil}
    BY <2>3 DEF OneMore, Nil
  <2> HIDE DEF e2, h2, i, d2, x
  <2>7. tb2 \in TableType
    <3>1. Prime + 1 \in Nat
      BY RankDBAssumption
    <3> QED BY <2>5, <2>6, <3>1 DEF TableType
  <2>8. d2 \in DBType /\ d2.entry = e2 /\ d2.table = [d.table EXCEPT ![t] = tb2]
    <3>1. /\ WithNode(d, i, x) \in DBType /\ WithNode(d, i, x).entry = e2
          /\ WithNode(d, i, x).table = d.table
      BY <2>1, <2>3, <2>6, WithNodeFacts DEF OneMore, e2
    <3> HIDE DEF tb2
    <3> QED BY <2>4, <2>7, <3>1 DEF DBType
  <2>9. d2.table[t] = tb2 /\ \A y \in Tables \ {t} : d2.table[y] = d.table[y]
    BY <2>1, <2>8 DEF DBType
  <2>10. Used(e2) = Used(e) \union {i} /\ i \notin Used(e) /\ e2[i] = x
         /\ \A j \in Used(e) : e2[j] = e[j] /\ o2[j] = o[j] /\ j # i
    BY <2>1, <2>3, PoolFacts DEF OneMore
  <2>11. o2[i] = t
    BY <2>6
  <2> HIDE DEF o2, tb2
  <2>12. Pool(e2, o2)
    <3>1. Linked(e2, Used(e) \union {i}, o2)
      <4>1. Linked(e, Used(e), o)
        BY <2>1 DEF Pool
      <4>2. e2 \in Seq(Node) /\ i \in DOMAIN e2
        BY <2>3 DEF OneMore
      <4>3. Cells(e2) /\ Used(e) \subseteq DOMAIN e2
        BY <2>10, <4>2, SeqCells DEF Used
      <4>4. i \in DOMAIN e2 \ Used(e) /\ e2[i].next = Nil /\ e2[i].prev = Nil
        BY <2>2, <2>10, <4>2
      <4>5. /\ \A j \in Used(e) : e2[j].next = e[j].next /\ e2[j].prev = e[j].prev
            /\ \A j \in Used(e) : o2[j] = o[j]
        BY <2>10
      <4> HIDE DEF e
      <4> QED BY <4>1, <4>3, <4>4, <4>5, LinkedLone
    <3>2. \A j \in DOMAIN e2 \ Used(e2) : e2[j] = NoEntry
      <4>1. \A j \in DOMAIN e \ Used(e) : e[j] = NoEntry
        BY <2>1 DEF Pool
      <4> HIDE DEF e
      <4> QED BY <2>3, <2>10, <4>1 DEF OneMore
    <3>3. \A j \in Used(e2) : o2[j] \in Tables
      BY <2>1, <2>10, <2>11 DEF Pool
    <3>4. e2 \in Seq(Node)
      BY <2>3 DEF OneMore
    <3> QED BY <2>10, <3>1, <3>2, <3>3, <3>4 DEF Pool
  <2>13. Worked(d, o, t, d2, o2)
    <3>1. Beyond(e, o, t, e2, o2)
      BY <2>10, <2>11 DEF Beyond
    <3> QED BY <2>8, <2>9, <3>1 DEF Worked
  <2>14. Mine(e2, o2, t) = {i}
    <3>1. Mine(e, o, t) = {}
      BY <1>2, <2>1 DEF Owned
    <3> QED BY <2>10, <2>11, <3>1 DEF Mine
  <2>15. tb2.top = i /\ tb2.hash = h2
    BY DEF tb2
  <2>16. Owned(e2, o2, t, tb2, c[t])
    <3>1. Ranked(e2, o2, t, i)
      BY <2>2, <2>10, <2>14 DEF Ranked
    <3>2. Joined(e2, o2, t, tb2)
      BY <2>5, <2>14, <2>15 DEF Joined
    <3> QED BY <2>2, <2>5, <2>6, <2>7, <2>10, <2>14, <2>15, <3>1, <3>2 DEF Owned
  <2> DEFINE c2 == c
  <2>17. Sound(d2, o2, c2)
    <3>1. Pool(d2.entry, o2) /\ Owned(d2.entry, o2, t, d2.table[t], c2[t])
      BY <2>8, <2>9, <2>12, <2>16
    <3>2. Stepped(d, o, c, t, d2, o2, c2)
      BY <2>8, <2>13, <3>1 DEF Stepped
    <3> HIDE DEF c2
    <3> QED BY <3>2, SoundStep
  <2>18. ASSUME NEW k \in Keys PROVE Get(d2, t, k) = Get(d, t, k)
    <3>1. Get(d, t, k) = Absent
      BY <1>2 DEF Get
    <3>2. \A j : ~OnChain(d2.table[t].hash, c2[t], j, k)
      BY <2>5, <2>9, <2>15 DEF OnChain
    <3>3. d2.table[t].top # Nil
      BY <2>6, <2>9, <2>15
    <3> HIDE DEF c2
    <3> QED BY <2>17, <3>1, <3>2, <3>3, GetFacts DEF Reads
  <2>19. Created(d, o, t, d2, o2)
    BY <1>2, <2>6, <2>8, <2>9, <2>13, <2>14, <2>15, <2>18 DEF Created
  <2> QED BY <2>17, <2>19 DEF d2
<1> QED BY <1>1, <1>2
-----------------------------------------------------------------------------
(* A new node.                                                           *)

(* e2 is e with a node i behind the node pos of the table t.             *)
NodeAdded(e, o, t, pos, k, v, e2, o2, i) ==
  /\ Pool(e2, o2) /\ Beyond(e, o, t, e2, o2)
  /\ i \in Nat \ {Nil} /\ i \notin Used(e) /\ Mine(e2, o2, t) = Mine(e, o, t) \union {i}
  /\ e2[i].key = k /\ e2[i].ivalue = v /\ e2[i].prev = pos /\ e2[i].next = e[pos].next
  /\ \A j \in Mine(e, o, t) : /\ e2[j].key = e[j].key /\ e2[j].ivalue = e[j].ivalue
                              /\ e2[j].next = IF j = pos THEN i ELSE e[j].next
                              /\ e2[j].prev = Nil <=> e[j].prev = Nil

(* A node that is linked differently keeps its key and its value.        *)
LEMMA RelinkedNodes ==
  ASSUME NEW e \in Seq(Node), NEW e2, Relinked(e, e2)
  PROVE  /\ DOMAIN e2 = DOMAIN e
         /\ \A j \in DOMAIN e : /\ e2[j].key = e[j].key /\ e2[j].ivalue = e[j].ivalue
                                /\ e2[j].use = e[j].use
<1>1. \A x \in Node : {"use", "key", "ivalue"} \subseteq DOMAIN x
  BY DEF Node
<1>2. \A j \in DOMAIN e : e[j] \in Node
  OBVIOUS
<1> QED BY <1>1, <1>2 DEF Relinked

(* Linking a new node behind pos adds it to the table.                   *)
LEMMA AddNode ==
  ASSUME NEW e, NEW o, Pool(e, o), NEW t \in Tables, NEW finder \in Nat, NEW k \in Keys,
         NEW v \in Values, NEW pos \in Mine(e, o, t), NEW i, i = Scan(e, 0, finder),
         NEW e2, e2 = LinkAfter(Placed(e, i, DBEntry(v, k), NoEntry), i, pos),
         NEW o2, o2 = [j \in Nat |-> IF j = i THEN t ELSE o[j]]
  PROVE  NodeAdded(e, o, t, pos, k, v, e2, o2, i)
<1> DEFINE x == DBEntry(v, k)
           e1 == Placed(e, i, x, NoEntry)
<1>1. x \in Node /\ x.use /\ x.key = k /\ x.ivalue = v
  BY NodeFacts
<1>2. OneMore(Node, e, 0, i, x, NoEntry, e1)
  <2>1. e1 = Placed(e, i, x, NoEntry)
    OBVIOUS
  <2> HIDE DEF e1, x
  <2> QED BY <1>1, <2>1, NodePlace
<1>3. e2 = LinkAfter(e1, i, pos)
  OBVIOUS
<1> HIDE DEF x, e1
<1>4. /\ Cells(e) /\ Used(e) \subseteq DOMAIN e /\ Used(e) \subseteq Nat \ {Nil}
      /\ Linked(e, Used(e), o) /\ pos \in Used(e) /\ o[pos] = t
  BY PoolFacts DEF Pool, Mine
<1>5. /\ e1 \in Seq(Node) /\ i \in Nat \ {Nil} /\ i \in DOMAIN e1 /\ e1[i] = x
      /\ i \notin Used(e) /\ Used(e1) = Used(e) \union {i} /\ \A j \in Used(e) : e1[j] = e[j]
      /\ \A j \in DOMAIN e1 \ {i} : e1[j] = IF j \in DOMAIN e THEN e[j] ELSE NoEntry
      /\ pos \in DOMAIN e1 /\ pos # i /\ DOMAIN e \subseteq DOMAIN e1
  BY <1>2, <1>4 DEF OneMore, Nil
<1>6. Cells(e1)
  BY <1>5, SeqCells
<1>7. o2[i] = t /\ \A j \in Used(e) : o2[j] = o[j] /\ j # i
  BY <1>4, <1>5
<1>8. e2 \in Seq(Node)
  BY <1>3, <1>5, CellTypes, LinkAfterType
<1>9. /\ Relinked(e1, e2) /\ Cells(e2)
      /\ \A j \in DOMAIN e1 :
           /\ e2[j].next = IF j = i THEN e1[pos].next ELSE IF j = pos THEN i ELSE e1[j].next
           /\ e2[j].prev = IF j = i THEN pos
                           ELSE IF j = e1[pos].next /\ j # pos THEN i ELSE e1[j].prev
  BY <1>3, <1>5, <1>6, LinkAfterCells
<1>10. /\ DOMAIN e2 = DOMAIN e1
       /\ \A j \in DOMAIN e1 : /\ e2[j].key = e1[j].key /\ e2[j].ivalue = e1[j].ivalue
                               /\ e2[j].use = e1[j].use
  BY <1>5, <1>9, RelinkedNodes
<1>11. Used(e2) = Used(e) \union {i}
  BY <1>5, <1>10 DEF Used
<1>12. \A j \in DOMAIN e1 : j # i /\ j # pos /\ j # e1[pos].next => e2[j] = e1[j]
  BY <1>3 DEF LinkAfter
<1>13. e1[pos].next = e[pos].next
       /\ (e[pos].next # Nil => e[pos].next \in Used(e) /\ o[e[pos].next] = t
                                /\ e[e[pos].next].prev = pos)
  BY <1>4, <1>5, PoolFacts
<1>14. Linked(e2, Used(e) \union {i}, o2)
  <2>1. Linked(e1, Used(e), o)
    <3>1. Used(e) \subseteq DOMAIN e1
      BY <1>4, <1>5
    <3>2. \A j \in Used(e) : e1[j].next = e[j].next /\ e1[j].prev = e[j].prev
      BY <1>5
    <3> QED BY <1>4, <1>6, <3>1, <3>2, LinkedSame
  <2>2. i \in DOMAIN e1 \ Used(e) /\ o2[i] = o[pos]
    BY <1>4, <1>5, <1>7
  <2>3. \A j \in Used(e) : o2[j] = o[j]
    BY <1>7
  <2> QED BY <1>3, <1>4, <2>1, <2>2, <2>3, LinkedAfter
<1>15. Pool(e2, o2)
  <2>1. ASSUME NEW j \in DOMAIN e2 \ Used(e2) PROVE e2[j] = NoEntry
    <3>1. j \in DOMAIN e1 /\ j # i /\ j # pos /\ j \notin Used(e)
      BY <1>4, <1>10, <1>11, <2>1
    <3>2. j # e1[pos].next
      <4>1. Cells(e2) => j # Nil
        BY <2>1 DEF Cells
      <4> QED BY <1>9, <1>13, <3>1, <4>1
    <3>3. e2[j] = e1[j]
      BY <1>12, <3>1, <3>2
    <3>4. e1[j] = NoEntry
      BY <1>5, <3>1 DEF Pool
    <3> QED BY <3>3, <3>4
  <2>2. \A j \in Used(e2) : o2[j] \in Tables
    BY <1>7, <1>11 DEF Pool
  <2> QED BY Zenon, <1>8, <1>11, <1>14, <2>1, <2>2 DEF Pool
<1>16. Beyond(e, o, t, e2, o2)
  <2>1. ASSUME NEW j \in Used(e), o[j] # t PROVE e2[j] = e[j] /\ o2[j] = o[j]
    <3>1. j # i /\ j # pos /\ j \in DOMAIN e1 /\ e1[j] = e[j] /\ j # Nil
      BY <1>4, <1>5, <1>7, <2>1
    <3>2. j # e1[pos].next
      BY <1>13, <2>1, <3>1
    <3> QED BY <1>7, <1>12, <2>1, <3>1, <3>2
  <2>2. \A j : j \in Used(e2) /\ o2[j] # t <=> j \in Used(e) /\ o[j] # t
    BY <1>7, <1>11
  <2> QED BY <2>1, <2>2 DEF Beyond
<1>17. Mine(e2, o2, t) = Mine(e, o, t) \union {i}
  BY <1>7, <1>11 DEF Mine
<1>18. e2[i].key = k /\ e2[i].ivalue = v /\ e2[i].prev = pos /\ e2[i].next = e[pos].next
  BY <1>1, <1>5, <1>9, <1>10, <1>13
<1>19. ASSUME NEW j \in Mine(e, o, t)
       PROVE  /\ e2[j].key = e[j].key /\ e2[j].ivalue = e[j].ivalue
              /\ e2[j].next = IF j = pos THEN i ELSE e[j].next
              /\ e2[j].prev = Nil <=> e[j].prev = Nil
  <2>1. j \in Used(e) /\ j \in DOMAIN e1 /\ j # i /\ e1[j] = e[j] /\ j # Nil
    BY <1>4, <1>5, <1>7 DEF Mine
  <2>2. e2[j].prev = IF j = e[pos].next /\ j # pos THEN i ELSE e[j].prev
    BY <1>9, <1>13, <2>1
  <2>3. e2[j].prev = Nil <=> e[j].prev = Nil
    BY <1>4, <1>5, <1>13, <2>1, <2>2
  <2> QED BY <1>9, <1>10, <2>1, <2>3
<1> QED BY <1>5, <1>15, <1>16, <1>17, <1>18, <1>19 DEF NodeAdded

(* The place for the value v in the list of t.                           *)
Fits(e, o, t, v, pos) ==
  /\ pos \in Mine(e, o, t)
  /\ t \in IntTables => /\ v <= e[pos].ivalue
                        /\ e[pos].next # Nil => e[e[pos].next].ivalue <= v

(* A node that fits where it is added leaves the table sorted.           *)
LEMMA AddedRanked ==
  ASSUME NEW e, NEW o, Pool(e, o), NEW t, NEW top, Ranked(e, o, t, top), NEW k \in Keys,
         NEW v \in Values, NEW pos, Fits(e, o, t, v, pos), NEW e2, NEW o2, NEW i,
         NodeAdded(e, o, t, pos, k, v, e2, o2, i), top \in Used(e)
  PROVE  Ranked(e2, o2, t, top)
<1> SUFFICES ASSUME NEW j \in Mine(e2, o2, t)
             PROVE  /\ e2[j].prev = Nil <=> j = top
                    /\ j # top => e2[j].key \in Keys /\ e2[j].ivalue \in Values
                    /\ t \in IntTables /\ e2[j].next # Nil => e2[e2[j].next].ivalue <= e2[j].ivalue
  BY DEF Ranked
<1>1. /\ Mine(e2, o2, t) = Mine(e, o, t) \union {i} /\ i \notin Used(e) /\ i # Nil
      /\ e2[i].key = k /\ e2[i].ivalue = v /\ e2[i].prev = pos /\ e2[i].next = e[pos].next
      /\ \A x \in Mine(e, o, t) : /\ e2[x].key = e[x].key /\ e2[x].ivalue = e[x].ivalue
                                  /\ e2[x].next = IF x = pos THEN i ELSE e[x].next
                                  /\ e2[x].prev = Nil <=> e[x].prev = Nil
  BY DEF NodeAdded
<1>2. pos \in Mine(e, o, t) /\ pos # Nil
  BY PoolFacts DEF Fits, Mine
<1>3. \A x \in Mine(e, o, t) : e[x].next # Nil => e[x].next \in Mine(e, o, t)
  BY PoolFacts DEF Mine
<1>4. CASE j = i
  <2>1. t \in IntTables /\ e[pos].next # Nil => e2[e[pos].next].ivalue <= v
    BY <1>1, <1>2, <1>3 DEF Fits
  <2> QED BY <1>1, <1>2, <1>4, <2>1
<1>5. CASE j \in Mine(e, o, t)
  <2>1. /\ e[j].prev = Nil <=> j = top
        /\ j # top => e[j].key \in Keys /\ e[j].ivalue \in Values
        /\ t \in IntTables /\ e[j].next # Nil => e[e[j].next].ivalue <= e[j].ivalue
    BY <1>5 DEF Ranked
  <2>2. CASE j = pos
    <3>1. e2[j].next = i /\ (t \in IntTables => e2[i].ivalue <= e2[j].ivalue)
      BY <1>1, <1>5, <2>2 DEF Fits
    <3> QED BY <1>1, <1>5, <2>1, <3>1
  <2>3. CASE j # pos
    <3>1. e2[j].next = e[j].next
      BY <1>1, <1>5, <2>3
    <3>2. e[j].next # Nil => e2[e[j].next].ivalue = e[e[j].next].ivalue
      BY <1>1, <1>3, <1>5
    <3> QED BY <1>1, <1>5, <2>1, <3>1, <3>2
  <2> QED BY <2>2, <2>3
<1> QED BY <1>1, <1>4, <1>5
-----------------------------------------------------------------------------
(* A new key.                                                            *)

(* A table with one hash entry more, and a node for it.                  *)
LEMMA AddedJoined ==
  ASSUME NEW e, NEW o, NEW t, NEW tb, NEW c, Owned(e, o, t, tb, c), NEW k, NEW v, NEW pos,
         NEW e2, NEW o2, NEW i, NodeAdded(e, o, t, pos, k, v, e2, o2, i), tb.top \in Mine(e, o, t),
         NEW tb2, tb2.top = tb.top, NEW c2, NEW q, Inserted(tb.hash, c, tb2.hash, c2, q, k, i)
  PROVE  Joined(e2, o2, t, tb2)
<1> DEFINE h == tb.hash
           h2 == tb2.hash
<1>1. /\ Used(h2) = Used(h) \union {q} /\ q \notin Used(h) /\ h2[q].dbind = i /\ h2[q].key = k
      /\ \A j \in Used(h) : h2[j].key = h[j].key /\ h2[j].dbind = h[j].dbind
  BY DEF Inserted, OnChain
<1>2. /\ Mine(e2, o2, t) = Mine(e, o, t) \union {i} /\ i \notin Mine(e, o, t) /\ e2[i].key = k
      /\ \A x \in Mine(e, o, t) : e2[x].key = e[x].key
  BY DEF NodeAdded, Mine
<1>3. /\ \A j \in Used(h) : /\ h[j].dbind \in Mine(e, o, t) \ {tb.top}
                            /\ e[h[j].dbind].key = h[j].key
      /\ \A j, x \in Used(h) : h[j].dbind = h[x].dbind => j = x
      /\ \A x \in Mine(e, o, t) \ {tb.top} : \E j \in Used(h) : h[j].dbind = x
  BY DEF Owned, Joined
<1> HIDE DEF h, h2
<1>4. ASSUME NEW j \in Used(h2)
      PROVE  h2[j].dbind \in Mine(e2, o2, t) \ {tb.top} /\ e2[h2[j].dbind].key = h2[j].key
  BY <1>1, <1>2, <1>3
<1>5. ASSUME NEW j \in Used(h2), NEW x \in Used(h2), h2[j].dbind = h2[x].dbind
      PROVE  j = x
  BY <1>1, <1>2, <1>3, <1>5
<1>6. ASSUME NEW x \in Mine(e2, o2, t) \ {tb.top}
      PROVE  \E j \in Used(h2) : h2[j].dbind = x
  BY <1>1, <1>2, <1>3
<1> QED BY <1>4, <1>5, <1>6 DEF Joined, h2

(* d2 reads v for the key k of t, and for the others what d reads.       *)
NowReads(d, t, k, v, d2) ==
  /\ Get(d2, t, k) = v
  /\ \A x \in Keys \ {k} : Get(d2, t, x) = Get(d, t, x)

(* NewEntry, for a key that is not found, at a place that fits.          *)
Added(d, o, t, pos, k, v, d2, o2, i) ==
  /\ Worked(d, o, t, d2, o2) /\ d2.table[t].top = d.table[t].top
  /\ NodeAdded(d.entry, o, t, pos, k, v, d2.entry, o2, i)
  /\ NowReads(d, t, k, v, d2)

(* The parts of the memory after NewEntry.                               *)
LEMMA NewEntryFields ==
  ASSUME NEW d \in DBType, NEW t \in Tables, NEW k, NEW v, NEW pos,
         NEW i, i = dbAllocNode(d), i \in Nat,
         NEW e2, e2 = LinkAfter(Placed(d.entry, i, DBEntry(v, k), NoEntry), i, pos),
         e2 \in Seq(Node), Placed(d.entry, i, DBEntry(v, k), NoEntry) \in Seq(Node),
         NEW tb, tb = tableInsertNode(d.table[t], k, i), tb \in TableType
  PROVE  /\ NewEntry(d, t, k, v, pos) \in DBType
         /\ NewEntry(d, t, k, v, pos).entry = e2
         /\ NewEntry(d, t, k, v, pos).table[t] \in TableType
         /\ NewEntry(d, t, k, v, pos).table[t].hash = tb.hash
         /\ NewEntry(d, t, k, v, pos).table[t].top = tb.top
         /\ \A x \in Tables \ {t} : NewEntry(d, t, k, v, pos).table[x] = d.table[x]
<1> DEFINE g == WithNode(d, i, DBEntry(v, k))
           d2 == NewEntry(d, t, k, v, pos)
<1>1. g \in DBType /\ g.entry = Placed(d.entry, i, DBEntry(v, k), NoEntry) /\ g.table = d.table
  BY WithNodeFacts
<1>2. d2 = [g EXCEPT !.entry = LinkAfter(@, i, pos),
                     !.table[t] = [tableInsertNode(@, k, i) EXCEPT !.updated = TRUE]]
  BY DEF NewEntry
<1> HIDE DEF g
<1>3. LinkAfter(g.entry, i, pos) = e2 /\ tableInsertNode(g.table[t], k, i) = tb
  BY <1>1
<1>4. d2 = [g EXCEPT !.entry = e2, !.table = [g.table EXCEPT ![t] = [tb EXCEPT !.updated = TRUE]]]
  BY Zenon, <1>1, <1>2, <1>3 DEF DBType
<1> DEFINE u == [tb EXCEPT !.updated = TRUE]
<1>5. u \in TableType /\ u.hash = tb.hash /\ u.top = tb.top
  BY Zenon DEF TableType
<1> HIDE DEF d2, u
<1>6. d2 = [g EXCEPT !.entry = e2, !.table = [g.table EXCEPT ![t] = u]]
  BY <1>4 DEF u
<1>7. d2.entry = e2 /\ d2.table = [g.table EXCEPT ![t] = u] /\ d2 \in DBType
  BY Zenon, <1>1, <1>5, <1>6 DEF DBType
<1>8. d2.table[t] = u /\ \A x \in Tables \ {t} : d2.table[x] = d.table[x]
  BY <1>1, <1>7 DEF DBType
<1> QED BY <1>5, <1>7, <1>8 DEF d2

(* A new key: the memory stays sound, the key reads as its value and no  *)
(* other key changes.                                                    *)
LEMMA NewEntryFacts ==
  ASSUME NEW d, NEW o, NEW c, Sound(d, o, c), NEW t \in Tables, NEW k \in Keys, NEW v \in Values,
         d.table[t].top # Nil, \A j : ~OnChain(d.table[t].hash, c[t], j, k),
         NEW pos, Fits(d.entry, o, t, v, pos)
  PROVE  \E o2, c2, i : /\ Sound(NewEntry(d, t, k, v, pos), o2, c2)
                        /\ Added(d, o, t, pos, k, v, NewEntry(d, t, k, v, pos), o2, i)
<1> DEFINE e == d.entry
           tb == d.table[t]
           i == dbAllocNode(d)
           e2 == LinkAfter(Placed(e, i, DBEntry(v, k), NoEntry), i, pos)
           tb2 == tableInsertNode(tb, k, i)
           d2 == NewEntry(d, t, k, v, pos)
           o2 == [j \in Nat |-> IF j = i THEN t ELSE o[j]]
<1>1. /\ d \in DBType /\ Pool(e, o) /\ Owned(e, o, t, tb, c[t]) /\ Chains(tb.hash, c[t])
      /\ tb.top \in Mine(e, o, t) /\ tb \in TableType /\ pos \in Mine(e, o, t)
      /\ d.finder \in Nat /\ Ranked(e, o, t, tb.top) /\ e[tb.top].ivalue = Above
      /\ Fits(e, o, t, v, pos)
  BY DEF Sound, Owned, Fits, DBType
<1>2. i = Scan(e, 0, d.finder)
  BY DEF dbAllocNode
<1>3. NodeAdded(e, o, t, pos, k, v, e2, o2, i)
  <2>1. e2 = LinkAfter(Placed(e, i, DBEntry(v, k), NoEntry), i, pos)
        /\ o2 = [j \in Nat |-> IF j = i THEN t ELSE o[j]]
    OBVIOUS
  <2> HIDE DEF e, e2, i, o2
  <2> QED BY <1>1, <1>2, <2>1, AddNode
<1>4. Placed(e, i, DBEntry(v, k), NoEntry) \in Seq(Node)
  <2>1. DBEntry(v, k) \in Node /\ DBEntry(v, k).use
    BY NodeFacts
  <2> DEFINE x == DBEntry(v, k)
             e1 == Placed(e, i, x, NoEntry)
  <2>2. e1 = Placed(e, i, x, NoEntry)
    OBVIOUS
  <2> HIDE DEF x, e1, i, e
  <2>3. OneMore(Node, e, 0, i, x, NoEntry, e1)
    BY <1>1, <1>2, <2>1, <2>2, NodePlace DEF x
  <2> QED BY <2>3 DEF OneMore, e1, x
<1>5. i \in Nat /\ e2 \in Seq(Node)
  BY <1>3 DEF NodeAdded, Pool
<1> HIDE DEF e2, o2, i
<1>6. /\ tb2 \in TableType /\ tb2.top = tb.top
      /\ \E c1, q : Inserted(tb.hash, c[t], tb2.hash, c1, q, k, i)
  <2>1. \A j : ~OnChain(tb.hash, c[t], j, k)
    OBVIOUS
  <2> HIDE DEF tb
  <2> QED BY Zenon, <1>1, <1>5, <2>1, InsertNodeFacts
<1>7. PICK c1, q : Inserted(tb.hash, c[t], tb2.hash, c1, q, k, i)
  BY <1>6
<1> HIDE DEF tb2, d2
<1>8. /\ d2 \in DBType /\ d2.entry = e2 /\ d2.table[t] \in TableType
      /\ d2.table[t].hash = tb2.hash /\ d2.table[t].top = tb2.top
      /\ \A x \in Tables \ {t} : d2.table[x] = d.table[x]
  BY <1>1, <1>4, <1>5, <1>6, NewEntryFields DEF d2, e2, tb2, i
<1>9. Worked(d, o, t, d2, o2) /\ Pool(e2, o2)
  BY <1>3, <1>8 DEF Worked, NodeAdded
<1>10. Owned(e2, o2, t, d2.table[t], c1)
  <2>1. Ranked(e2, o2, t, tb.top)
    <3>1. tb.top \in Used(e)
      BY <1>1 DEF Mine
    <3> HIDE DEF e, tb
    <3> QED BY <1>1, <1>3, <3>1, AddedRanked
  <2>2. Joined(e2, o2, t, d2.table[t])
    <3>1. d2.table[t].top = tb.top /\ Inserted(tb.hash, c[t], d2.table[t].hash, c1, q, k, i)
      BY <1>6, <1>7, <1>8
    <3> HIDE DEF e, tb
    <3> QED BY <1>1, <1>3, <3>1, AddedJoined
  <2>3. tb.top \in Mine(e2, o2, t) /\ e2[tb.top].ivalue = Above
    BY <1>1, <1>3 DEF NodeAdded
  <2>4. Chains(d2.table[t].hash, c1)
    BY <1>7, <1>8 DEF Inserted
  <2> QED BY <1>6, <1>8, <2>1, <2>2, <2>3, <2>4 DEF Owned
<1> DEFINE c2 == [x \in Tables |-> IF x = t THEN c1 ELSE c[x]]
<1>11. c2[t] = c1 /\ \A x \in Tables \ {t} : c2[x] = c[x]
  OBVIOUS
<1> HIDE DEF c2
<1>12. Sound(d2, o2, c2)
  <2>1. Stepped(d, o, c, t, d2, o2, c2)
    BY <1>8, <1>9, <1>10, <1>11 DEF Stepped
  <2> QED BY <2>1, SoundStep
<1>13. NowReads(d, t, k, v, d2)
  <2>1. d2.table[t].top # Nil
    BY <1>6, <1>8
  <2>2. Get(d2, t, k) = v
    <3>1. OnChain(d2.table[t].hash, c2[t], q, k) /\ d2.table[t].hash[q].dbind = i
      BY <1>7, <1>8, <1>11 DEF Inserted
    <3>2. d2.entry[i].ivalue = v
      BY <1>3, <1>8 DEF NodeAdded
    <3> QED BY <1>12, <2>1, <3>1, <3>2, GetFacts DEF Reads
  <2>3. ASSUME NEW x \in Keys \ {k} PROVE Get(d2, t, x) = Get(d, t, x)
    <3>1. CASE \E j : OnChain(tb.hash, c[t], j, x)
      <4>1. PICK j : OnChain(tb.hash, c[t], j, x)
        BY <3>1
      <4>2. OnChain(d2.table[t].hash, c2[t], j, x)
            /\ d2.table[t].hash[j].dbind = tb.hash[j].dbind
        BY <1>7, <1>8, <1>11, <4>1 DEF Inserted, OnChain
      <4>3. d2.entry[tb.hash[j].dbind].ivalue = e[tb.hash[j].dbind].ivalue
        <5>1. tb.hash[j].dbind \in Mine(e, o, t)
          BY <1>1, <4>1 DEF Owned, Joined, OnChain
        <5> QED BY <1>3, <1>8, <5>1 DEF NodeAdded
      <4>4. Get(d2, t, x) = d2.entry[d2.table[t].hash[j].dbind].ivalue
        <5>1. Reads(d2, c2, t, x)
          BY <1>12, GetFacts
        <5> QED BY Zenon, <2>1, <4>2, <5>1 DEF Reads
      <4>5. Get(d, t, x) = e[tb.hash[j].dbind].ivalue
        <5>1. Reads(d, c, t, x)
          BY GetFacts
        <5> QED BY <4>1, <5>1 DEF Reads
      <4> QED BY <4>2, <4>3, <4>4, <4>5
    <3>2. CASE \A j : ~OnChain(tb.hash, c[t], j, x)
      <4>1. \A j : ~OnChain(d2.table[t].hash, c2[t], j, x)
        BY <1>7, <1>8, <1>11, <3>2 DEF Inserted, OnChain
      <4>2. Get(d2, t, x) = Absent
        BY <1>12, <2>1, <4>1, GetFacts DEF Reads
      <4>3. Get(d, t, x) = Absent
        BY <3>2, GetFacts DEF Reads
      <4> QED BY <4>2, <4>3
    <3> QED BY <3>1, <3>2
  <2> QED BY <2>2, <2>3 DEF NowReads
<1>14. Added(d, o, t, pos, k, v, d2, o2, i)
  BY <1>3, <1>6, <1>8, <1>9, <1>13 DEF Added
<1>15. \E o3, c3, i3 : Sound(d2, o3, c3) /\ Added(d, o, t, pos, k, v, d2, o3, i3)
  BY <1>12, <1>14
<1> QED BY <1>15 DEF d2
-----------------------------------------------------------------------------
(* Walking a list.                                                       *)

(* A rank of the nodes that falls along the lists.                       *)
Graded(e, r, M) ==
  \A i \in DOMAIN e :
    /\ r[i] \in Nat /\ r[i] <= M
    /\ e[i].next # Nil => e[i].next \in Used(e) /\ r[e[i].next] < r[i]
    /\ e[i].prev # Nil => e[i].prev \in Used(e) /\ r[i] < r[e[i].prev]

(* The ranks of a pool give the nodes such grades.                       *)
LEMMA PoolGraded ==
  ASSUME NEW e, NEW o, Pool(e, o)
  PROVE  \E M \in Nat : \E r : Graded(e, r, M)
<1>1. PICK M \in Nat : \E r \in [Nat -> 0 .. M] : Links(e, Used(e), o, r)
  BY Zenon DEF Pool, Linked
<1>2. PICK r \in [Nat -> 0 .. M] : Links(e, Used(e), o, r)
  BY <1>1
<1>3. DOMAIN e \subseteq Nat
  BY PoolFacts, SMTT(30)
<1>4. ASSUME NEW i \in DOMAIN e
      PROVE  /\ r[i] \in Nat /\ r[i] <= M
             /\ e[i].next # Nil => e[i].next \in Used(e) /\ r[e[i].next] < r[i]
             /\ e[i].prev # Nil => e[i].prev \in Used(e) /\ r[i] < r[e[i].prev]
  <2>1. r[i] \in 0 .. M
    BY <1>2, <1>3
  <2>2. r[i] \in Nat /\ r[i] <= M
    BY <2>1
  <2>3. CASE i \in Used(e)
    <3>1. e[i].next # Nil => e[i].next \in Used(e) /\ r[e[i].next] < r[i]
      BY <1>2, <2>3 DEF Links
    <3>2. e[i].prev # Nil => e[i].prev \in Used(e) /\ e[e[i].prev].next = i
      BY <1>2, <2>3 DEF Links
    <3>3. e[i].prev # Nil => r[i] < r[e[i].prev]
      <4>1. i # Nil
        BY <2>3, PoolFacts
      <4> QED BY <1>2, <3>2, <4>1 DEF Links
    <3> QED BY <2>2, <3>1, <3>2, <3>3
  <2>4. CASE i \notin Used(e)
    <3>1. e[i].next = Nil /\ e[i].prev = Nil
      BY <2>4, PoolFacts
    <3> QED BY <2>2, <3>1
  <2> QED BY <2>3, <2>4
<1>5. Graded(e, r, M)
  BY <1>4 DEF Graded
<1> QED BY <1>5

NextEnd(e, st, a) == LET w[i \in DOMAIN e] == IF i \in st THEN i ELSE w[e[i].next] IN w[a]
PrevEnd(e, st, a) == LET w[i \in DOMAIN e] == IF i \in st THEN i ELSE w[e[i].prev] IN w[a]

(* A search along next or along prev ends, inside a set T it cannot step *)
(* out of.                                                               *)
LEMMA NextWalk ==
  ASSUME NEW e, NEW o, Pool(e, o), NEW st, \A i \in DOMAIN e : e[i].next = Nil => i \in st,
         NEW T, T \subseteq DOMAIN e, \A i \in T : i \notin st => e[i].next \in T, NEW a \in T
  PROVE  NextEnd(e, st, a) \in T /\ NextEnd(e, st, a) \in st
<1> DEFINE D == DOMAIN e
           nx == [i \in D |-> e[i].next]
           IsFind(f) == f = [i \in D |-> IF i \in st THEN i ELSE f[e[i].next]]
<1>1. PICK M \in Nat : \E r : Graded(e, r, M)
  BY PoolGraded
<1>2. PICK r : Graded(e, r, M)
  BY <1>1
<1>3. ASSUME NEW f PROVE IsFind(f) <=> Walk(D, st, nx, f)
  BY DEF Walk
<1>4. Falls(D, st, nx, r, M)
  <2>1. \A i \in D : r[i] \in 0 .. M
    BY <1>2 DEF Graded
  <2>2. ASSUME NEW i \in D, i \notin st PROVE nx[i] \in D /\ r[nx[i]] < r[i]
    BY <1>2, <2>2 DEF Graded, Used
  <2> QED BY <2>1, <2>2 DEF Falls
<1>5. Stays(T, st, nx, r)
  <2>1. \A i \in T : i \in D
    OBVIOUS
  <2>2. \A i \in T : i \notin st => nx[i] \in T
    OBVIOUS
  <2>3. \A i \in D : r[i] \in Nat
    BY <1>2 DEF Graded
  <2> HIDE DEF D, nx
  <2> QED BY <1>4, <2>1, <2>2, <2>3 DEF Stays, Falls
<1>6. PICK f : IsFind(f) /\ f = CHOOSE g : IsFind(g)
  <2>1. \E g : Walk(D, st, nx, g)
    <3> HIDE DEF D, nx
    <3> QED BY <1>1, <1>4, WalkExists
  <2> HIDE DEF IsFind
  <2> QED BY <1>3, <2>1
<1>7. f[a] \in T /\ f[a] \in st
  <2>1. Walk(D, st, nx, f)
    BY <1>3, <1>6
  <2>2. T \subseteq D
    OBVIOUS
  <2> HIDE DEF D, nx
  <2> QED BY <1>5, <2>1, <2>2, WalkEnds
<1>8. (CHOOSE g : IsFind(g))[a] \in T /\ (CHOOSE g : IsFind(g))[a] \in st
  BY Zenon, <1>6, <1>7
<1> QED BY <1>8 DEF NextEnd

(* The same, walking towards the top node.                               *)
LEMMA PrevWalk ==
  ASSUME NEW e, NEW o, Pool(e, o), NEW st, \A i \in DOMAIN e : e[i].prev = Nil => i \in st,
         NEW T, T \subseteq DOMAIN e, \A i \in T : i \notin st => e[i].prev \in T, NEW a \in T
  PROVE  PrevEnd(e, st, a) \in T /\ PrevEnd(e, st, a) \in st
<1> DEFINE D == DOMAIN e
           nx == [i \in D |-> e[i].prev]
           IsFind(f) == f = [i \in D |-> IF i \in st THEN i ELSE f[e[i].prev]]
<1>1. PICK M \in Nat : \E r : Graded(e, r, M)
  BY PoolGraded
<1>2. PICK r : Graded(e, r, M)
  BY <1>1
<1> DEFINE s == [i \in D |-> M - r[i]]
<1>3. ASSUME NEW f PROVE IsFind(f) <=> Walk(D, st, nx, f)
  BY DEF Walk
<1>4. Falls(D, st, nx, s, M)
  <2>1. \A i \in D : s[i] \in 0 .. M
    <3>1. ASSUME NEW n \in Nat, n <= M PROVE M - n \in 0 .. M
      BY <1>1, <3>1
    <3> QED BY <1>2, <3>1 DEF Graded
  <2>2. ASSUME NEW i \in D, i \notin st PROVE nx[i] \in D /\ s[nx[i]] < s[i]
    <3>1. /\ e[i].prev \in D /\ r[i] \in Nat /\ r[e[i].prev] \in Nat
          /\ r[i] < r[e[i].prev]
      BY <1>2, <2>2 DEF Graded, Used
    <3>2. s[nx[i]] = M - r[e[i].prev] /\ s[i] = M - r[i] /\ nx[i] = e[i].prev
      BY <3>1
    <3> HIDE DEF s, nx
    <3>3. M - r[e[i].prev] < M - r[i]
      BY <1>1, <3>1
    <3> QED BY <3>1, <3>2, <3>3
  <2> HIDE DEF s, nx
  <2> QED BY <2>1, <2>2 DEF Falls
<1>5. Stays(T, st, nx, s)
  <2>1. \A i \in T : i \in D
    OBVIOUS
  <2>2. \A i \in T : i \notin st => nx[i] \in T
    OBVIOUS
  <2>3. \A i \in D : s[i] \in Nat
    BY <1>4 DEF Falls
  <2> HIDE DEF D, nx, s
  <2> QED BY <1>4, <2>1, <2>2, <2>3 DEF Stays, Falls
<1>6. PICK f : IsFind(f) /\ f = CHOOSE g : IsFind(g)
  <2>1. \E g : Walk(D, st, nx, g)
    <3> HIDE DEF D, nx, s
    <3> QED BY <1>1, <1>4, WalkExists
  <2> HIDE DEF IsFind
  <2> QED BY <1>3, <2>1
<1>7. f[a] \in T /\ f[a] \in st
  <2>1. Walk(D, st, nx, f)
    BY <1>3, <1>6
  <2>2. T \subseteq D
    OBVIOUS
  <2> HIDE DEF D, nx, s
  <2> QED BY <1>5, <2>1, <2>2, WalkEnds
<1>8. (CHOOSE g : IsFind(g))[a] \in T /\ (CHOOSE g : IsFind(g))[a] \in st
  BY Zenon, <1>6, <1>7
<1> QED BY <1>8 DEF PrevEnd

(* InsertPosition finds the place for a new value.                       *)
LEMMA InsertPositionFits ==
  ASSUME NEW e, NEW o, Pool(e, o), NEW t, NEW top \in Mine(e, o, t), NEW v \in Nat,
         v <= e[top].ivalue
  PROVE  LET p == InsertPosition(e, top, v) IN
         /\ Fits(e, o, t, v, p)
         /\ (\A i \in Mine(e, o, t) : v <= e[i].ivalue) => e[p].next = Nil
<1> DEFINE st == {c \in DOMAIN e : e[c].next = Nil \/ e[e[c].next].ivalue < v}
           T == {c \in Mine(e, o, t) : v <= e[c].ivalue}
           p == InsertPosition(e, top, v)
<1>1. T \subseteq DOMAIN e /\ top \in T
  BY DEF Mine, Used
<1>2. ASSUME NEW i \in T, i \notin st PROVE e[i].next \in T
  <2>1. i \in Used(e) /\ o[i] = t /\ i \in DOMAIN e
    BY DEF Mine, Used
  <2>2. e[i].next # Nil /\ ~(e[e[i].next].ivalue < v)
    BY <1>2, <2>1
  <2>3. e[i].next \in Used(e) /\ o[e[i].next] = t
    BY <2>1, <2>2, PoolFacts
  <2>4. e[e[i].next].ivalue \in Nat
    BY <2>3, PoolFacts DEF Used
  <2> QED BY <2>2, <2>3, <2>4 DEF Mine
<1>3. \A i \in DOMAIN e : e[i].next = Nil => i \in st
  OBVIOUS
<1>4. p = NextEnd(e, st, top)
  <2> DEFINE A(f) == f = [i \in DOMAIN e |-> IF e[i].next = Nil \/ e[e[i].next].ivalue < v
                                             THEN i ELSE f[e[i].next]]
             B(f) == f = [i \in DOMAIN e |-> IF i \in st THEN i ELSE f[e[i].next]]
  <2>1. ASSUME NEW f PROVE A(f) <=> B(f)
    OBVIOUS
  <2>2. p = (CHOOSE f : A(f))[top]
    BY DEF InsertPosition
  <2>3. (CHOOSE f : A(f)) = (CHOOSE f : B(f))
    <3> HIDE DEF A, B
    <3> QED BY <2>1
  <2> QED BY <2>2, <2>3 DEF NextEnd
<1>5. p \in T /\ p \in st
  <2> HIDE DEF T, st, p
  <2> QED BY <1>1, <1>2, <1>3, <1>4, NextWalk
<1>6. e[p].next # Nil => e[e[p].next].ivalue <= v
  <2>1. ASSUME e[p].next # Nil PROVE e[e[p].next].ivalue <= v
    <3>1. e[e[p].next].ivalue < v
      BY <1>5, <2>1
    <3>2. e[p].next \in Used(e)
      BY <1>5, <2>1, PoolFacts DEF Mine
    <3>3. e[e[p].next].ivalue \in Nat
      BY <3>2, PoolFacts DEF Used
    <3> QED BY <3>1, <3>3
  <2> QED BY <2>1
<1>7. ASSUME \A i \in Mine(e, o, t) : v <= e[i].ivalue, e[p].next # Nil PROVE FALSE
  <2>1. e[e[p].next].ivalue < v
    BY <1>5, <1>7
  <2>2. e[p].next \in Mine(e, o, t)
    BY <1>5, <1>7, PoolFacts DEF Mine
  <2>3. e[e[p].next].ivalue \in Nat /\ v <= e[e[p].next].ivalue
    BY Zenon, <1>7, <2>2, PoolFacts DEF Mine, Used
  <2> QED BY <2>1, <2>3
<1> QED BY <1>5, <1>6, <1>7 DEF Fits
-----------------------------------------------------------------------------
(* Setting the value of a node and moving it.                            *)

(* The node i of t gets another value.                                   *)
Revalued(e, o, t, i, v, f) ==
  /\ Pool(f, o) /\ Beyond(e, o, t, f, o) /\ Used(f) = Used(e) /\ DOMAIN f = DOMAIN e
  /\ \A j \in DOMAIN e : /\ f[j].key = e[j].key /\ f[j].next = e[j].next
                         /\ f[j].prev = e[j].prev
                         /\ f[j].ivalue = IF j = i THEN v ELSE e[j].ivalue

SetValue(e, i, v, f) ==
  /\ f \in Seq(Node) /\ DOMAIN f = DOMAIN e /\ Used(f) = Used(e)
  /\ \A j \in DOMAIN e \ {i} : f[j] = e[j]
  /\ \A j \in DOMAIN e : /\ f[j].key = e[j].key /\ f[j].next = e[j].next
                          /\ f[j].prev = e[j].prev
                          /\ f[j].ivalue = IF j = i THEN v ELSE e[j].ivalue

(* Setting the value of a node changes no link.                          *)
LEMMA SetValueFacts ==
  ASSUME NEW e \in Seq(Node), NEW i \in DOMAIN e, NEW v \in Values
  PROVE  SetValue(e, i, v, [e EXCEPT ![i].ivalue = v])
<1> DEFINE x == [e[i] EXCEPT !.ivalue = v]
           f == [e EXCEPT ![i].ivalue = v]
<1>1. e[i] \in Node
  OBVIOUS
<1>2. /\ x \in Node /\ x.use = e[i].use /\ x.key = e[i].key /\ x.next = e[i].next
      /\ x.prev = e[i].prev /\ x.ivalue = v
  BY Zenon, <1>1 DEF Node
<1>3. f = [e EXCEPT ![i] = x]
  OBVIOUS
<1> HIDE DEF x, f
<1>4. f \in Seq(Node) /\ DOMAIN f = DOMAIN e /\ f[i] = x /\ \A j \in DOMAIN e \ {i} : f[j] = e[j]
  BY <1>1, <1>2, <1>3
<1>5. Used(f) = Used(e)
  BY <1>1, <1>2, <1>4 DEF Used
<1>6. \A j \in DOMAIN e : /\ f[j].key = e[j].key /\ f[j].next = e[j].next
                          /\ f[j].prev = e[j].prev
                          /\ f[j].ivalue = IF j = i THEN v ELSE e[j].ivalue
  BY <1>2, <1>4
<1>7. SetValue(e, i, v, f)
  BY <1>4, <1>5, <1>6 DEF SetValue
<1> QED BY <1>7 DEF f

(* Nor does it disturb the pool.                                         *)
LEMMA Revalue ==
  ASSUME NEW e, NEW o, Pool(e, o), NEW t, NEW i \in Mine(e, o, t), NEW v \in Values,
         NEW f, SetValue(e, i, v, f)
  PROVE  Revalued(e, o, t, i, v, f)
<1>1. /\ e \in Seq(Node) /\ i \in Used(e) /\ i \in DOMAIN e /\ o[i] = t
      /\ Linked(e, Used(e), o) /\ Used(e) \subseteq DOMAIN e
      /\ \A j \in DOMAIN e \ Used(e) : e[j] = NoEntry
      /\ \A j \in Used(e) : o[j] \in Tables
  BY PoolFacts DEF Pool, Mine
<1>2. /\ f \in Seq(Node) /\ DOMAIN f = DOMAIN e /\ Used(f) = Used(e)
      /\ \A j \in DOMAIN e \ {i} : f[j] = e[j]
      /\ \A j \in DOMAIN e : /\ f[j].key = e[j].key /\ f[j].next = e[j].next
                              /\ f[j].prev = e[j].prev
                              /\ f[j].ivalue = IF j = i THEN v ELSE e[j].ivalue
  BY DEF SetValue
<1>3. Linked(f, Used(f), o)
  <2>1. Cells(f)
    BY <1>2, SeqCells
  <2>2. Used(e) \subseteq DOMAIN f
    BY <1>1, <1>2
  <2>3. \A j \in Used(e) : f[j].next = e[j].next /\ f[j].prev = e[j].prev
    BY <1>1, <1>2
  <2>4. Linked(f, Used(e), o)
    BY <1>1, <2>1, <2>2, <2>3, LinkedSame
  <2> QED BY <1>2, <2>4
<1>4. Pool(f, o)
  BY <1>1, <1>2, <1>3 DEF Pool
<1>5. Beyond(e, o, t, f, o)
  BY <1>1, <1>2 DEF Beyond
<1> QED BY <1>2, <1>4, <1>5 DEF Revalued

(* The node i of t is linked elsewhere, behind pos.                      *)
Past(f, i, j) == IF j = f[i].prev THEN f[i].next ELSE f[j].next

Shifted(f, o, t, i, pos, e2) ==
  /\ Pool(e2, o) /\ Beyond(f, o, t, e2, o) /\ Used(e2) = Used(f)
  /\ \A j \in Mine(f, o, t) :
       /\ e2[j].key = f[j].key /\ e2[j].ivalue = f[j].ivalue
       /\ e2[j].prev = Nil <=> f[j].prev = Nil
       /\ e2[j].next = IF j = i THEN Past(f, i, pos) ELSE IF j = pos THEN i ELSE Past(f, i, j)

(* Linking a node of the list behind another one moves it there.         *)
LEMMA Shift ==
  ASSUME NEW f, NEW o, Pool(f, o), NEW t, NEW i \in Mine(f, o, t), f[i].prev # Nil,
         NEW pos \in Mine(f, o, t), pos # i, NEW e2, e2 = LinkAfter(Unlink(f, i), i, pos)
  PROVE  Shifted(f, o, t, i, pos, e2)
<1> DEFINE u == Unlink(f, i)
           p == f[i].prev
           n == f[i].next
<1>1. /\ f \in Seq(Node) /\ i \in Used(f) /\ pos \in Used(f) /\ o[i] = t /\ o[pos] = t
      /\ Linked(f, Used(f), o) /\ Used(f) \subseteq DOMAIN f /\ Used(f) \subseteq Nat \ {Nil}
      /\ \A j \in DOMAIN f \ Used(f) : f[j] = NoEntry
      /\ \A j \in Used(f) : o[j] \in Tables
      /\ Cells(f)
  BY PoolFacts DEF Pool, Mine
<1>2. /\ p \in Used(f) /\ o[p] = t /\ f[p].next = i /\ p # i /\ p # Nil
      /\ n # Nil => n \in Used(f) /\ o[n] = t /\ f[n].prev = i /\ n # i
  BY <1>1, PoolFacts
<1>3. /\ Cells(u) /\ Relinked(f, u) /\ DOMAIN u = DOMAIN f
      /\ \A j \in DOMAIN f : /\ u[j].next = IF j = p THEN n ELSE f[j].next
                             /\ u[j].prev = IF j = n /\ j # p THEN p ELSE f[j].prev
  <2>1. i \in DOMAIN f
    BY <1>1
  <2> QED BY <1>1, <2>1, UnlinkCells DEF Relinked
<1>4. u \in Seq(Node)
  BY <1>1, CellTypes, UnlinkType
<1>5. \A j \in DOMAIN f : j # Nil /\ j # p /\ j # n => u[j] = f[j]
  BY DEF Unlink
<1>6. Linked(u, Used(f) \ {i}, o)
  BY <1>1, LinkedUnlink
<1>7. \A j \in DOMAIN f : u[j].key = f[j].key /\ u[j].ivalue = f[j].ivalue /\ u[j].use = f[j].use
  BY <1>1, <1>3, RelinkedNodes
<1>8. e2 = LinkAfter(u, i, pos)
  OBVIOUS
<1> HIDE DEF u, p, n
<1>9. i \in DOMAIN u /\ pos \in DOMAIN u
  BY <1>1, <1>3
<1>10. /\ Relinked(u, e2) /\ Cells(e2)
       /\ \A j \in DOMAIN u :
            /\ e2[j].next = IF j = i THEN u[pos].next ELSE IF j = pos THEN i ELSE u[j].next
            /\ e2[j].prev = IF j = i THEN pos
                            ELSE IF j = u[pos].next /\ j # pos THEN i ELSE u[j].prev
  BY <1>3, <1>8, <1>9, LinkAfterCells
<1>11. e2 \in Seq(Node)
  BY <1>4, <1>8, <1>9, CellTypes, LinkAfterType
<1>12. /\ DOMAIN e2 = DOMAIN f
       /\ \A j \in DOMAIN f : /\ e2[j].key = f[j].key /\ e2[j].ivalue = f[j].ivalue
                              /\ e2[j].use = f[j].use
  <2>1. /\ DOMAIN e2 = DOMAIN u
        /\ \A j \in DOMAIN u : /\ e2[j].key = u[j].key /\ e2[j].ivalue = u[j].ivalue
                               /\ e2[j].use = u[j].use
    BY <1>4, <1>10, RelinkedNodes
  <2> QED BY <1>3, <1>7, <2>1
<1>13. Used(e2) = Used(f)
  BY <1>12 DEF Used
<1>14. Linked(e2, Used(f), o)
  <2>1. i \in DOMAIN u \ (Used(f) \ {i}) /\ pos \in Used(f) \ {i} /\ o[i] = o[pos]
    BY <1>1, <1>9
  <2>2. \A j \in Used(f) \ {i} : o[j] = o[j]
    OBVIOUS
  <2>3. Linked(e2, (Used(f) \ {i}) \union {i}, o)
    BY <1>6, <1>8, <2>1, <2>2, LinkedAfter
  <2>4. (Used(f) \ {i}) \union {i} = Used(f)
    BY <1>1
  <2> QED BY <2>3, <2>4
<1>15. u[pos].next # Nil => u[pos].next \in Used(f) \ {i} /\ o[u[pos].next] = t
                            /\ u[u[pos].next].prev = pos
  BY Zenon, <1>1, <1>6 DEF Linked, Links
<1>16. \A j \in DOMAIN f : j # Nil /\ j # i /\ j # pos /\ j # p /\ j # n /\ j # u[pos].next
                           => e2[j] = f[j]
  <2>1. \A j \in DOMAIN u : j # i /\ j # pos /\ j # u[pos].next => e2[j] = u[j]
    BY <1>8 DEF LinkAfter
  <2> QED BY <1>3, <1>5, <2>1
<1>17. Pool(e2, o)
  <2>1. ASSUME NEW j \in DOMAIN e2 \ Used(e2) PROVE e2[j] = NoEntry
    <3>1. j \in DOMAIN f /\ j \notin Used(f) /\ j # Nil
      BY <1>10, <1>12, <1>13, <2>1 DEF Cells
    <3>2. j # i /\ j # pos /\ j # p /\ j # n /\ j # u[pos].next
      BY <1>1, <1>2, <1>15, <3>1
    <3> QED BY <1>1, <1>16, <3>1, <3>2
  <2> QED BY <1>1, <1>11, <1>13, <1>14, <2>1 DEF Pool
<1>18. Beyond(f, o, t, e2, o)
  <2>1. ASSUME NEW j \in Used(f), o[j] # t PROVE e2[j] = f[j]
    <3>1. j \in DOMAIN f /\ j # Nil /\ j # i /\ j # pos /\ j # p /\ j # n /\ j # u[pos].next
      BY <1>1, <1>2, <1>15, <2>1
    <3> QED BY <1>16, <3>1
  <2> QED BY <1>13, <2>1 DEF Beyond
<1>19. ASSUME NEW j \in Mine(f, o, t)
       PROVE  /\ e2[j].key = f[j].key /\ e2[j].ivalue = f[j].ivalue
              /\ e2[j].prev = Nil <=> f[j].prev = Nil
              /\ e2[j].next = IF j = i THEN Past(f, i, pos)
                              ELSE IF j = pos THEN i ELSE Past(f, i, j)
  <2>1. j \in Used(f) /\ j \in DOMAIN f /\ j \in DOMAIN u /\ j # Nil /\ pos # Nil /\ i # Nil
    BY <1>1, <1>3 DEF Mine
  <2>2. e2[j].next = IF j = i THEN u[pos].next ELSE IF j = pos THEN i ELSE u[j].next
    BY <1>10, <2>1
  <2>3. u[pos].next = Past(f, i, pos) /\ u[j].next = Past(f, i, j)
    BY <1>1, <1>3, <2>1 DEF Past, p, n
  <2>4. /\ e2[j].prev = IF j = i THEN pos
                        ELSE IF j = u[pos].next /\ j # pos THEN i ELSE u[j].prev
        /\ u[j].prev = IF j = n /\ j # p THEN p ELSE f[j].prev
    BY <1>3, <1>10, <2>1
  <2>7. e2[j].prev = Nil <=> f[j].prev = Nil
    <3>1. CASE j = i
      BY <1>2, <2>1, <2>4, <3>1 DEF p
    <3>2. CASE j # i /\ f[j].prev = Nil
      <4>1. j # n
        BY <1>2, <2>1, <3>2
      <4>2. u[j].prev = Nil
        BY <2>4, <3>2, <4>1
      <4>3. j # u[pos].next
        BY <1>15, <2>1, <4>2
      <4> QED BY <2>4, <3>2, <4>2, <4>3
    <3>3. CASE j # i /\ f[j].prev # Nil
      BY <1>2, <2>1, <2>4, <3>3
    <3> QED BY <3>1, <3>2, <3>3
  <2> QED BY <1>12, <2>1, <2>2, <2>3, <2>7
<1> QED BY <1>13, <1>17, <1>18, <1>19 DEF Shifted
-----------------------------------------------------------------------------
(* dbUpdateEntryInt moves a node to where its value belongs.             *)

(* The node i of t has the value v, and the list of t is in order.       *)
Revised(e, o, t, top, i, v, e2) ==
  /\ Pool(e2, o) /\ Beyond(e, o, t, e2, o) /\ Used(e2) = Used(e)
  /\ \A j \in Mine(e, o, t) : /\ e2[j].key = e[j].key
                              /\ e2[j].ivalue = IF j = i THEN v ELSE e[j].ivalue
  /\ Ranked(e2, o, t, top)

(* Where the walks of dbUpdateEntryInt end.                              *)
LEMMA UpFacts ==
  ASSUME NEW f, NEW o, Pool(f, o), NEW t, NEW i \in Mine(f, o, t), NEW v \in Nat,
         \A j \in Mine(f, o, t) : f[j].prev = Nil => v < f[j].ivalue
  PROVE  LET up == UpPosition(f, i, v)
             pos == f[up].prev
         IN  /\ up \in Mine(f, o, t)
             /\ pos # Nil => v <= f[pos].ivalue
             /\ up = i \/ (f[up].ivalue < v /\ pos # i)
<1> DEFINE st == {p \in DOMAIN f : f[p].prev = Nil \/ v <= f[f[p].prev].ivalue}
           up == UpPosition(f, i, v)
           pos == f[up].prev
<1>1. PICK M \in Nat : \E r : Graded(f, r, M)
  BY PoolGraded
<1>2. PICK r : Graded(f, r, M)
  BY <1>1
<1> DEFINE T == {p \in Mine(f, o, t) : p = i \/ (f[p].ivalue < v /\ r[i] < r[p])}
<1>3. T \subseteq DOMAIN f /\ i \in T /\ \A p \in DOMAIN f : r[p] \in Nat
  BY <1>2 DEF Mine, Used, Graded
<1>4. ASSUME NEW p \in T, p \notin st PROVE f[p].prev \in T
  <2>1. p \in Used(f) /\ o[p] = t /\ p \in DOMAIN f
    BY DEF Mine, Used
  <2>2. f[p].prev # Nil /\ ~(v <= f[f[p].prev].ivalue)
    BY <1>4, <2>1
  <2>3. f[p].prev \in Used(f) /\ o[f[p].prev] = t /\ f[p].prev \in DOMAIN f
    BY <2>1, <2>2, PoolFacts DEF Used
  <2>4. f[f[p].prev].ivalue \in Nat
    BY <2>3, PoolFacts
  <2>5. r[p] < r[f[p].prev]
    BY <1>2, <2>1, <2>2 DEF Graded
  <2>6. f[f[p].prev].ivalue < v
    BY <2>2, <2>4
  <2>7. r[i] < r[f[p].prev]
    <3>1. p = i \/ r[i] < r[p]
      OBVIOUS
    <3>2. r[i] \in Nat /\ r[p] \in Nat /\ r[f[p].prev] \in Nat
      BY <1>3, <2>1, <2>3
    <3> HIDE DEF T
    <3> QED BY <2>5, <3>1, <3>2
  <2> QED BY <2>3, <2>6, <2>7 DEF Mine
<1>5. up = PrevEnd(f, st, i)
  <2> DEFINE A(w) == w = [p \in DOMAIN f |-> IF f[p].prev = Nil \/ v <= f[f[p].prev].ivalue
                                             THEN p ELSE w[f[p].prev]]
             B(w) == w = [p \in DOMAIN f |-> IF p \in st THEN p ELSE w[f[p].prev]]
  <2>1. ASSUME NEW w PROVE A(w) <=> B(w)
    OBVIOUS
  <2>2. up = (CHOOSE w : A(w))[i]
    BY DEF UpPosition
  <2>3. (CHOOSE w : A(w)) = (CHOOSE w : B(w))
    <3> HIDE DEF A, B
    <3> QED BY <2>1
  <2> QED BY <2>2, <2>3 DEF PrevEnd
<1>6. up \in T /\ up \in st
  <2>1. \A p \in DOMAIN f : f[p].prev = Nil => p \in st
    OBVIOUS
  <2> HIDE DEF T, st, up
  <2> QED BY <1>3, <1>4, <1>5, <2>1, PrevWalk
<1>7. pos # Nil => v <= f[pos].ivalue
  BY <1>6
<1>8. ASSUME up # i PROVE f[up].ivalue < v /\ pos # i
  <2>1. f[up].ivalue < v /\ r[i] < r[up] /\ up \in Mine(f, o, t)
    BY <1>6, <1>8
  <2>2. up \in DOMAIN f /\ f[up].ivalue \in Nat /\ i \in DOMAIN f
    BY <2>1, PoolFacts DEF Mine, Used
  <2>3. pos # Nil
    <3>1. pos = Nil => v < f[up].ivalue
      BY <2>1
    <3> HIDE DEF up, pos
    <3> QED BY <2>1, <2>2, <3>1
  <2>4. r[up] < r[pos]
    BY <1>2, <2>2, <2>3 DEF Graded
  <2>5. r[i] \in Nat /\ r[up] \in Nat
    BY <1>3, <2>2
  <2> HIDE DEF up, pos
  <2> QED BY <2>1, <2>4, <2>5
<1> HIDE DEF up, pos, st
<1>9. up \in Mine(f, o, t)
  BY <1>6
<1> QED BY <1>7, <1>8, <1>9 DEF up, pos

(* Where dbUpdateEntryInt takes a node down.                             *)
LEMMA DownFacts ==
  ASSUME NEW f, NEW o, Pool(f, o), NEW t, NEW i \in Mine(f, o, t), NEW v \in Nat
  PROVE  LET down == DownPosition(f, i, v)
             nx == f[down].next
         IN  /\ down \in Mine(f, o, t)
             /\ nx # Nil => f[nx].ivalue <= v
             /\ down = i \/ (v < f[down].ivalue /\ down # f[i].prev)
<1> DEFINE st == {p \in DOMAIN f : f[p].next = Nil \/ v >= f[f[p].next].ivalue}
           down == DownPosition(f, i, v)
           nx == f[down].next
<1>1. PICK M \in Nat : \E r : Graded(f, r, M)
  BY PoolGraded
<1>2. PICK r : Graded(f, r, M)
  BY <1>1
<1> DEFINE T == {p \in Mine(f, o, t) : p = i \/ (v < f[p].ivalue /\ r[p] < r[i])}
<1>3. T \subseteq DOMAIN f /\ i \in T /\ \A p \in DOMAIN f : r[p] \in Nat
  BY <1>2 DEF Mine, Used, Graded
<1>4. ASSUME NEW p \in T, p \notin st PROVE f[p].next \in T
  <2>1. p \in Used(f) /\ o[p] = t /\ p \in DOMAIN f
    BY DEF Mine, Used
  <2>2. f[p].next # Nil /\ ~(v >= f[f[p].next].ivalue)
    BY <1>4, <2>1
  <2>3. f[p].next \in Used(f) /\ o[f[p].next] = t /\ f[p].next \in DOMAIN f
    BY <2>1, <2>2, PoolFacts DEF Used
  <2>4. f[f[p].next].ivalue \in Nat
    BY <2>3, PoolFacts
  <2>5. r[f[p].next] < r[p]
    BY <1>2, <2>1, <2>2 DEF Graded
  <2>6. v < f[f[p].next].ivalue
    BY <2>2, <2>4
  <2>7. r[f[p].next] < r[i]
    <3>1. p = i \/ r[p] < r[i]
      OBVIOUS
    <3>2. r[i] \in Nat /\ r[p] \in Nat /\ r[f[p].next] \in Nat
      BY <1>3, <2>1, <2>3
    <3> HIDE DEF T
    <3> QED BY <2>5, <3>1, <3>2
  <2> QED BY <2>3, <2>6, <2>7 DEF Mine
<1>5. down = NextEnd(f, st, i)
  <2> DEFINE A(w) == w = [p \in DOMAIN f |-> IF f[p].next = Nil \/ v >= f[f[p].next].ivalue
                                             THEN p ELSE w[f[p].next]]
             B(w) == w = [p \in DOMAIN f |-> IF p \in st THEN p ELSE w[f[p].next]]
  <2>1. ASSUME NEW w PROVE A(w) <=> B(w)
    OBVIOUS
  <2>2. down = (CHOOSE w : A(w))[i]
    BY DEF DownPosition
  <2>3. (CHOOSE w : A(w)) = (CHOOSE w : B(w))
    <3> HIDE DEF A, B
    <3> QED BY <2>1
  <2> QED BY <2>2, <2>3 DEF NextEnd
<1>6. down \in T /\ down \in st
  <2>1. \A p \in DOMAIN f : f[p].next = Nil => p \in st
    OBVIOUS
  <2> HIDE DEF T, st, down
  <2> QED BY <1>3, <1>4, <1>5, <2>1, NextWalk
<1>7. ASSUME nx # Nil PROVE f[nx].ivalue <= v
  <2>1. v >= f[nx].ivalue
    BY <1>6, <1>7
  <2>2. nx \in Used(f)
    BY <1>6, <1>7, PoolFacts DEF Mine
  <2>3. f[nx].ivalue \in Nat
    BY <2>2, PoolFacts DEF Used
  <2> HIDE DEF nx
  <2> QED BY <2>1, <2>3
<1>8. ASSUME down # i PROVE v < f[down].ivalue /\ down # f[i].prev
  <2>1. v < f[down].ivalue /\ r[down] < r[i] /\ down \in Mine(f, o, t)
    BY <1>6, <1>8
  <2>2. down \in DOMAIN f /\ i \in DOMAIN f /\ r[down] \in Nat /\ r[i] \in Nat
    BY <1>3, <2>1 DEF Mine, Used
  <2>3. f[i].prev # Nil => r[i] < r[f[i].prev]
    BY <1>2, <2>2 DEF Graded
  <2>4. down # Nil
    BY <2>1, PoolFacts DEF Mine
  <2> HIDE DEF down
  <2> QED BY <2>1, <2>2, <2>3, <2>4
<1> HIDE DEF down, nx, st
<1>9. down \in Mine(f, o, t)
  BY <1>6
<1> QED BY <1>7, <1>8, <1>9 DEF down, nx

(* A node that keeps its place.                                          *)
LEMMA RevisedInPlace ==
  ASSUME NEW e, NEW o, Pool(e, o), NEW t, NEW top, Ranked(e, o, t, top),
         NEW i \in Mine(e, o, t) \ {top}, NEW v \in Values, NEW f, Revalued(e, o, t, i, v, f),
         t \in IntTables => /\ f[i].prev # Nil => v <= f[f[i].prev].ivalue
                            /\ f[i].next # Nil => f[f[i].next].ivalue <= v
  PROVE  Revised(e, o, t, top, i, v, f)
<1>1. /\ Pool(f, o) /\ Beyond(e, o, t, f, o) /\ Used(f) = Used(e) /\ Mine(f, o, t) = Mine(e, o, t)
      /\ Mine(e, o, t) \subseteq DOMAIN e
      /\ \A j \in DOMAIN e : /\ f[j].key = e[j].key /\ f[j].next = e[j].next
                             /\ f[j].prev = e[j].prev
                             /\ f[j].ivalue = IF j = i THEN v ELSE e[j].ivalue
  BY PoolFacts DEF Revalued, Mine
<1>2. \A j \in Mine(e, o, t) : e[j].next # Nil => /\ e[j].next \in Mine(e, o, t)
                                                  /\ e[e[j].next].prev = j /\ j # Nil
  BY PoolFacts DEF Mine
<1>3. ASSUME NEW j \in Mine(e, o, t)
      PROVE  /\ f[j].prev = Nil <=> j = top
             /\ j # top => f[j].key \in Keys /\ f[j].ivalue \in Values
             /\ t \in IntTables /\ f[j].next # Nil => f[f[j].next].ivalue <= f[j].ivalue
  <2>1. /\ e[j].prev = Nil <=> j = top
        /\ j # top => e[j].key \in Keys /\ e[j].ivalue \in Values
        /\ t \in IntTables /\ e[j].next # Nil => e[e[j].next].ivalue <= e[j].ivalue
    BY DEF Ranked
  <2>2. /\ f[j].prev = Nil <=> j = top
        /\ j # top => f[j].key \in Keys /\ f[j].ivalue \in Values
    BY <1>1, <2>1
  <2>3. ASSUME t \in IntTables, f[j].next # Nil
        PROVE  f[f[j].next].ivalue <= f[j].ivalue
    <3>1. /\ e[j].next \in Mine(e, o, t) /\ f[j].next = e[j].next /\ e[e[j].next].prev = j
          /\ e[j].next # Nil
      BY <1>1, <1>2, <2>3
    <3>2. CASE j = i
      BY <1>1, <2>3, <3>2
    <3>3. CASE e[j].next = i
      BY <1>1, <1>2, <2>3, <3>1, <3>3
    <3>4. CASE j # i /\ e[j].next # i
      BY <1>1, <2>1, <2>3, <3>1, <3>4
    <3> QED BY <3>2, <3>3, <3>4
  <2> QED BY <2>2, <2>3
<1>4. Ranked(f, o, t, top)
  BY <1>1, <1>3 DEF Ranked
<1>5. \A j \in Mine(e, o, t) : /\ f[j].key = e[j].key
                               /\ f[j].ivalue = IF j = i THEN v ELSE e[j].ivalue
  BY <1>1
<1> QED BY <1>1, <1>4, <1>5 DEF Revised

(* A node that is linked elsewhere.                                      *)
LEMMA RevisedElsewhere ==
  ASSUME NEW e, NEW o, Pool(e, o), NEW t, NEW top, Ranked(e, o, t, top),
         NEW i \in Mine(e, o, t) \ {top}, NEW v \in Values, NEW f, Revalued(e, o, t, i, v, f),
         NEW pos \in Mine(e, o, t), pos # i, v <= f[pos].ivalue,
         Past(f, i, pos) # Nil => f[Past(f, i, pos)].ivalue <= v,
         NEW e2, Shifted(f, o, t, i, pos, e2)
  PROVE  Revised(e, o, t, top, i, v, e2)
<1>1. /\ Pool(f, o) /\ Beyond(e, o, t, f, o) /\ Used(f) = Used(e) /\ Mine(f, o, t) = Mine(e, o, t)
      /\ Mine(e, o, t) \subseteq DOMAIN e
      /\ \A j \in DOMAIN e : /\ f[j].key = e[j].key /\ f[j].next = e[j].next
                             /\ f[j].prev = e[j].prev
                             /\ f[j].ivalue = IF j = i THEN v ELSE e[j].ivalue
  BY PoolFacts DEF Revalued, Mine
<1>2. /\ Pool(e2, o) /\ Beyond(f, o, t, e2, o) /\ Used(e2) = Used(e)
      /\ Mine(e2, o, t) = Mine(e, o, t)
      /\ \A j \in Mine(e, o, t) :
           /\ e2[j].key = f[j].key /\ e2[j].ivalue = f[j].ivalue
           /\ e2[j].prev = Nil <=> f[j].prev = Nil
           /\ e2[j].next = IF j = i THEN Past(f, i, pos) ELSE IF j = pos THEN i ELSE Past(f, i, j)
  BY <1>1 DEF Shifted, Mine
<1>3. \A j \in Mine(e, o, t) : /\ e[j].next # Nil => /\ e[j].next \in Mine(e, o, t)
                                                     /\ e[e[j].next].prev = j /\ e[j].next # j
                               /\ j # Nil
  BY PoolFacts DEF Mine
<1>4. /\ i \in Mine(e, o, t) /\ e[i].prev # Nil /\ e[i].prev \in Mine(e, o, t)
      /\ e[e[i].prev].next = i
  <2>1. e[i].prev # Nil
    BY DEF Ranked
  <2> QED BY <2>1, PoolFacts DEF Mine
<1>5. \A j \in Mine(e, o, t) : Past(f, i, j) = IF j = e[i].prev THEN e[i].next ELSE e[j].next
  BY <1>1, <1>4 DEF Past
<1>6. \A j \in Mine(e, o, t) : /\ e2[j].ivalue = IF j = i THEN v ELSE e[j].ivalue
                               /\ e2[j].key = e[j].key
                               /\ e2[j].prev = Nil <=> e[j].prev = Nil
  BY <1>1, <1>2
<1>7. ASSUME NEW j \in Mine(e, o, t)
      PROVE  /\ e2[j].prev = Nil <=> j = top
             /\ j # top => e2[j].key \in Keys /\ e2[j].ivalue \in Values
             /\ t \in IntTables /\ e2[j].next # Nil => e2[e2[j].next].ivalue <= e2[j].ivalue
  <2>1. /\ e[j].prev = Nil <=> j = top
        /\ j # top => e[j].key \in Keys /\ e[j].ivalue \in Values
        /\ t \in IntTables /\ e[j].next # Nil => e[e[j].next].ivalue <= e[j].ivalue
    BY DEF Ranked
  <2>2. /\ e2[j].prev = Nil <=> j = top
        /\ j # top => e2[j].key \in Keys /\ e2[j].ivalue \in Values
    BY <1>6, <2>1
  <2>3. ASSUME t \in IntTables, e2[j].next # Nil
        PROVE  e2[e2[j].next].ivalue <= e2[j].ivalue
    <3>1. CASE j = i
      <4>1. e2[j].next = Past(f, i, pos) /\ Past(f, i, pos) # Nil
        BY <1>2, <2>3, <3>1
      <4>2. Past(f, i, pos) \in Mine(e, o, t)
        BY <1>3, <1>4, <1>5, <4>1
      <4>3. e2[Past(f, i, pos)].ivalue = f[Past(f, i, pos)].ivalue
        BY <1>2, <4>2
      <4> QED BY <1>6, <3>1, <4>1, <4>3
    <3>2. CASE j = pos
      <4>1. e2[j].next = i /\ e2[i].ivalue = v /\ e2[j].ivalue = f[pos].ivalue
        BY <1>2, <1>4, <1>6, <3>2
      <4> QED BY <4>1
    <3>3. CASE j # i /\ j # pos /\ j = e[i].prev
      <4>1. e2[j].next = e[i].next /\ e[i].next # Nil
        BY <1>2, <1>5, <2>3, <3>3
      <4>2. e[i].next \in Mine(e, o, t) /\ e[i].next # i
        BY <1>3, <1>4, <4>1
      <4>3. e[e[i].next].ivalue <= e[i].ivalue /\ e[i].ivalue <= e[j].ivalue
        <5>1. e[e[i].next].ivalue <= e[i].ivalue
          BY <1>4, <2>3, <4>1 DEF Ranked
        <5>2. e[j].next = i /\ i # Nil
          BY <1>3, <1>4, <3>3
        <5> QED BY <2>1, <2>3, <5>1, <5>2
      <4>4. e2[e[i].next].ivalue = e[e[i].next].ivalue /\ e2[j].ivalue = e[j].ivalue
        BY <1>6, <3>3, <4>2
      <4>5. /\ e[e[i].next].ivalue \in Nat /\ e[i].ivalue \in Nat /\ e[j].ivalue \in Nat
        BY Zenon, <1>1, <1>4, <4>2, PoolFacts
      <4> QED BY <4>1, <4>3, <4>4, <4>5
    <3>4. CASE j # i /\ j # pos /\ j # e[i].prev
      <4>1. e2[j].next = e[j].next /\ e[j].next # Nil
        BY <1>2, <1>5, <2>3, <3>4
      <4>2. e[j].next \in Mine(e, o, t) /\ e[j].next # i
        BY <1>3, <3>4, <4>1
      <4> QED BY <1>6, <2>1, <2>3, <3>4, <4>1, <4>2
    <3> QED BY <3>1, <3>2, <3>3, <3>4
  <2> QED BY <2>2, <2>3
<1>8. Ranked(e2, o, t, top)
  BY <1>2, <1>7 DEF Ranked
<1>9. Beyond(e, o, t, e2, o)
  BY <1>1, <1>2 DEF Beyond
<1> QED BY <1>2, <1>6, <1>8, <1>9 DEF Revised

(* Moved keeps the list in order.                                        *)
LEMMA MovedFacts ==
  ASSUME NEW e, NEW o, Pool(e, o), NEW t, NEW top \in Mine(e, o, t), Ranked(e, o, t, top),
         e[top].ivalue = Above, NEW i \in Mine(e, o, t) \ {top}, NEW v \in Values
  PROVE  Revised(e, o, t, top, i, v, Moved(e, i, v))
<1> DEFINE f == [e EXCEPT ![i].ivalue = v]
           up == UpPosition(f, i, v)
           down == DownPosition(f, i, v)
<1>1. e \in Seq(Node) /\ i \in DOMAIN e /\ v \in Nat /\ v < Above /\ Mine(e, o, t) \subseteq DOMAIN e
  BY PoolFacts, AboveFacts DEF Pool, Mine
<1>2. Moved(e, i, v) = IF up # i THEN LinkAfter(Unlink(f, i), i, f[up].prev)
                       ELSE IF down # i THEN LinkAfter(Unlink(f, i), i, down)
                       ELSE f
  BY DEF Moved
<1>3. Revalued(e, o, t, i, v, f)
  <2>1. SetValue(e, i, v, f)
    BY <1>1, SetValueFacts
  <2>2. i \in Mine(e, o, t)
    OBVIOUS
  <2> HIDE DEF f
  <2> QED BY <2>1, <2>2, Revalue
<1> HIDE DEF f, up, down
<1>4. /\ Pool(f, o) /\ Mine(f, o, t) = Mine(e, o, t)
      /\ \A j \in DOMAIN e : /\ f[j].key = e[j].key /\ f[j].next = e[j].next
                             /\ f[j].prev = e[j].prev
                             /\ f[j].ivalue = IF j = i THEN v ELSE e[j].ivalue
  BY <1>3 DEF Revalued, Mine
<1>5. f[i].prev # Nil /\ i \in Mine(f, o, t)
  BY <1>1, <1>4 DEF Ranked
<1>6. \A j \in Mine(f, o, t) : f[j].prev = Nil => v < f[j].ivalue
  <2>1. ASSUME NEW j \in Mine(f, o, t), f[j].prev = Nil PROVE v < f[j].ivalue
    <3>1. j = top /\ j # i
      BY <1>1, <1>4, <2>1 DEF Ranked
    <3> QED BY <1>1, <1>4, <3>1
  <2> QED BY <2>1
<1>7. /\ up \in Mine(f, o, t)
      /\ f[up].prev # Nil => v <= f[f[up].prev].ivalue
      /\ up = i \/ (f[up].ivalue < v /\ f[up].prev # i)
  BY <1>1, <1>4, <1>5, <1>6, UpFacts, SMTT(30) DEF up
<1>8. /\ down \in Mine(f, o, t)
      /\ f[down].next # Nil => f[f[down].next].ivalue <= v
      /\ down = i \/ (v < f[down].ivalue /\ down # f[i].prev)
  BY <1>1, <1>4, <1>5, DownFacts DEF down
<1>9. \A j \in Mine(f, o, t) : /\ f[j].ivalue \in Nat
                               /\ f[j].prev # Nil => /\ f[j].prev \in Mine(f, o, t)
                                                     /\ f[f[j].prev].next = j
                               /\ f[j].next # Nil => /\ f[j].next \in Mine(f, o, t)
                                                     /\ f[f[j].next].prev = j
  BY <1>4, PoolFacts DEF Mine
<1>10. CASE up # i
  <2> DEFINE pos == f[up].prev
  <2>1. pos # Nil
    <3>1. f[up].prev = Nil => v < f[up].ivalue
      BY <1>6, <1>7
    <3>2. f[up].ivalue < v /\ f[up].ivalue \in Nat
      BY <1>7, <1>9, <1>10
    <3> QED BY <1>1, <3>1, <3>2
  <2>2. /\ pos \in Mine(e, o, t) /\ pos # i /\ f[pos].next = up /\ v <= f[pos].ivalue
        /\ f[up].ivalue < v /\ f[up].ivalue \in Nat
    BY <1>4, <1>7, <1>9, <1>10, <2>1
  <2>3. Past(f, i, pos) = up
    <3>1. pos # f[i].prev
      BY <1>5, <1>9, <1>10, <2>2
    <3> HIDE DEF pos
    <3> QED BY <2>2, <3>1 DEF Past
  <2> HIDE DEF pos
  <2>4. f[Past(f, i, pos)].ivalue <= v
    BY <1>1, <2>2, <2>3
  <2> DEFINE e2 == LinkAfter(Unlink(f, i), i, pos)
  <2>5. Moved(e, i, v) = e2
    BY <1>2, <1>10 DEF pos
  <2>6. Shifted(f, o, t, i, pos, e2)
    <3>1. e2 = LinkAfter(Unlink(f, i), i, pos)
      OBVIOUS
    <3> HIDE DEF e2
    <3> QED BY <1>4, <1>5, <2>2, <3>1, Shift
  <2> HIDE DEF e2
  <2>7. Revised(e, o, t, top, i, v, e2)
    BY <1>3, <2>2, <2>4, <2>6, RevisedElsewhere
  <2> QED BY <2>5, <2>7
<1>11. CASE up = i /\ down # i
  <2>1. down \in Mine(e, o, t) /\ v <= f[down].ivalue /\ down # f[i].prev
    BY <1>1, <1>4, <1>8, <1>9, <1>11
  <2>2. Past(f, i, down) = f[down].next
    BY <2>1 DEF Past
  <2>3. Past(f, i, down) # Nil => f[Past(f, i, down)].ivalue <= v
    BY <1>8, <2>2
  <2> DEFINE e2 == LinkAfter(Unlink(f, i), i, down)
  <2>4. Moved(e, i, v) = e2
    BY <1>2, <1>11
  <2>5. Shifted(f, o, t, i, down, e2)
    <3>1. e2 = LinkAfter(Unlink(f, i), i, down)
      OBVIOUS
    <3> HIDE DEF e2
    <3> QED BY <1>4, <1>5, <1>8, <1>11, <3>1, Shift
  <2> HIDE DEF e2
  <2>6. Revised(e, o, t, top, i, v, e2)
    BY <1>3, <1>11, <2>1, <2>3, <2>5, RevisedElsewhere
  <2> QED BY <2>4, <2>6
<1>12. CASE up = i /\ down = i
  <2>1. Moved(e, i, v) = f
    BY <1>2, <1>12
  <2>2. Revised(e, o, t, top, i, v, f)
    BY <1>3, <1>7, <1>8, <1>12, RevisedInPlace
  <2> QED BY <2>1, <2>2
<1> QED BY <1>10, <1>11, <1>12
-----------------------------------------------------------------------------
(* Updates and deletions of keys that are there.                         *)

(* The memory with other nodes and another table t.                      *)
Renewed(d, t, e2, tb2, d2) ==
  /\ d2 \in DBType /\ d2.entry = e2 /\ d2.table[t] \in TableType
  /\ d2.table[t].hash = tb2.hash /\ d2.table[t].top = tb2.top
  /\ \A x \in Tables \ {t} : d2.table[x] = d.table[x]

(* The operations change the memory so.                                  *)
LEMMA RenewedFacts ==
  ASSUME NEW d \in DBType, NEW t \in Tables, NEW e2 \in Seq(Node), NEW tb2 \in TableType
  PROVE  Renewed(d, t, e2, tb2,
                 [d EXCEPT !.entry = e2, !.table[t] = [tb2 EXCEPT !.updated = TRUE]])
<1> DEFINE u == [tb2 EXCEPT !.updated = TRUE]
           d2 == [d EXCEPT !.entry = e2, !.table[t] = u]
<1>1. u \in TableType /\ u.hash = tb2.hash /\ u.top = tb2.top
  BY Zenon DEF TableType
<1> HIDE DEF u
<1>2. d2 = [d EXCEPT !.entry = e2, !.table = [d.table EXCEPT ![t] = u]]
  BY DEF DBType
<1> HIDE DEF d2
<1>3. d2.entry = e2 /\ d2.table = [d.table EXCEPT ![t] = u] /\ d2 \in DBType
  BY Zenon, <1>1, <1>2 DEF DBType
<1>4. d2.table[t] = u /\ \A x \in Tables \ {t} : d2.table[x] = d.table[x]
  BY <1>3 DEF DBType
<1>5. Renewed(d, t, e2, tb2, d2)
  BY <1>1, <1>3, <1>4 DEF Renewed
<1> QED BY <1>5 DEF d2, u

(* Another value for a key that is found.                                *)
Revalues(d, o, t, k, v, d2) ==
  /\ Worked(d, o, t, d2, o) /\ d2.table[t].top = d.table[t].top
  /\ NowReads(d, t, k, v, d2)

(* A key that is there reads as its new value afterwards, and no other   *)
(* key changes.                                                          *)
LEMMA SetFacts ==
  ASSUME NEW d, NEW o, NEW c, Sound(d, o, c), NEW t \in Tables, NEW k \in Keys, NEW v \in Values,
         d.table[t].top # Nil, NEW j, OnChain(d.table[t].hash, c[t], j, k),
         NEW i, i = d.table[t].hash[j].dbind,
         NEW e2, Revised(d.entry, o, t, d.table[t].top, i, v, e2),
         NEW d2, Renewed(d, t, e2, d.table[t], d2)
  PROVE  Sound(d2, o, c) /\ Revalues(d, o, t, k, v, d2)
<1> DEFINE e == d.entry
           tb == d.table[t]
           h == tb.hash
<1>1. /\ Owned(e, o, t, tb, c[t]) /\ tb.top \in Mine(e, o, t) /\ e[tb.top].ivalue = Above
      /\ Chains(h, c[t]) /\ Joined(e, o, t, tb)
  BY DEF Sound, Owned
<1>2. /\ \A x \in Used(h) : /\ h[x].dbind \in Mine(e, o, t) \ {tb.top}
                            /\ e[h[x].dbind].key = h[x].key
      /\ \A a, b \in Used(h) : h[a].dbind = h[b].dbind => a = b
      /\ \A x \in Mine(e, o, t) \ {tb.top} : \E b \in Used(h) : h[b].dbind = x
  BY Zenon, <1>1 DEF Joined
<1>3. /\ Pool(e2, o) /\ Beyond(e, o, t, e2, o) /\ Mine(e2, o, t) = Mine(e, o, t)
      /\ \A x \in Mine(e, o, t) : /\ e2[x].key = e[x].key
                                  /\ e2[x].ivalue = IF x = i THEN v ELSE e[x].ivalue
      /\ Ranked(e2, o, t, tb.top)
  BY DEF Revised, Mine
<1>4. /\ d2 \in DBType /\ d2.entry = e2 /\ d2.table[t] \in TableType
      /\ d2.table[t].hash = h /\ d2.table[t].top = tb.top
      /\ \A x \in Tables \ {t} : d2.table[x] = d.table[x]
  BY DEF Renewed
<1>5. j \in Used(h) /\ i \in Mine(e, o, t) \ {tb.top} /\ h[j].key = k /\ h[j].dbind = i
  BY <1>2 DEF OnChain
<1>6. Joined(e2, o, t, d2.table[t])
  <2>1. \A x \in Used(h) : /\ h[x].dbind \in Mine(e2, o, t) \ {tb.top}
                           /\ e2[h[x].dbind].key = h[x].key
    BY Zenon, <1>2, <1>3
  <2>2. \A x \in Mine(e2, o, t) \ {tb.top} : \E b \in Used(h) : h[b].dbind = x
    BY Zenon, <1>2, <1>3
  <2> HIDE DEF e, h, tb
  <2> QED BY <1>2, <1>4, <2>1, <2>2 DEF Joined
<1>7. Owned(e2, o, t, d2.table[t], c[t])
  BY <1>1, <1>3, <1>4, <1>5, <1>6 DEF Owned
<1>8. Worked(d, o, t, d2, o)
  BY <1>3, <1>4 DEF Worked
<1>9. Sound(d2, o, c)
  <2>1. Stepped(d, o, c, t, d2, o, c)
    BY <1>3, <1>4, <1>7, <1>8 DEF Stepped
  <2> QED BY <2>1, SoundStep
<1>10. Get(d2, t, k) = v
  <2>1. Reads(d2, c, t, k)
    BY <1>9, GetFacts
  <2> QED BY <1>3, <1>4, <1>5, <2>1, SMTT(30) DEF Reads
<1>11. ASSUME NEW x \in Keys \ {k} PROVE Get(d2, t, x) = Get(d, t, x)
  <2>1. Reads(d2, c, t, x) /\ Reads(d, c, t, x)
    BY <1>9, GetFacts
  <2>2. CASE \A b : ~OnChain(h, c[t], b, x)
    BY Zenon, <1>4, <2>1, <2>2 DEF Reads
  <2>3. CASE \E b : OnChain(h, c[t], b, x)
    <3>1. PICK b : OnChain(h, c[t], b, x)
      BY <2>3
    <3>2. b \in Used(h) /\ h[b].key = x /\ h[b].dbind \in Mine(e, o, t)
      BY <1>2, <3>1 DEF OnChain
    <3>3. h[b].dbind # i
      BY Zenon, <1>2, <1>5, <3>2
    <3>4. e2[h[b].dbind].ivalue = e[h[b].dbind].ivalue
      BY <1>3, <3>2, <3>3
    <3>5. Get(d2, t, x) = e2[h[b].dbind].ivalue
      BY Zenon, <1>4, <2>1, <3>1 DEF Reads
    <3>6. Get(d, t, x) = e[h[b].dbind].ivalue
      BY Zenon, <2>1, <3>1 DEF Reads
    <3> QED BY Zenon, <3>4, <3>5, <3>6
  <2> QED BY <2>2, <2>3
<1>12. Revalues(d, o, t, k, v, d2)
  BY <1>4, <1>8, <1>10, <1>11 DEF Revalues, NowReads
<1> QED BY <1>9, <1>12

-----------------------------------------------------------------------------
(* A node that is taken out of its list.                                 *)
NodeRemoved(e, o, t, top, i, e2) ==
  /\ Pool(e2, o) /\ Beyond(e, o, t, e2, o) /\ Mine(e2, o, t) = Mine(e, o, t) \ {i}
  /\ \A j \in Mine(e, o, t) \ {i} : e2[j].key = e[j].key /\ e2[j].ivalue = e[j].ivalue
  /\ Ranked(e2, o, t, top)

(* A freed node is gone, and the rest of the list is as it was.          *)
LEMMA RemoveNode ==
  ASSUME NEW e, NEW o, Pool(e, o), NEW t, NEW top, Ranked(e, o, t, top),
         NEW i \in Mine(e, o, t) \ {top}, NEW e2, e2 = Freed(e, i, NoEntry)
  PROVE  NodeRemoved(e, o, t, top, i, e2)
<1> DEFINE p == e[i].prev
           n == e[i].next
<1>1. /\ e \in Seq(Node) /\ Cells(e) /\ i \in Used(e) /\ o[i] = t
      /\ Linked(e, Used(e), o) /\ Used(e) \subseteq DOMAIN e /\ Used(e) \subseteq Nat \ {Nil}
      /\ \A j \in DOMAIN e \ Used(e) : e[j] = NoEntry
      /\ \A j \in Used(e) : o[j] \in Tables
  BY PoolFacts DEF Pool, Mine
<1>2. OneLess(Node, e, o, i, NoEntry, e2)
  <2>1. Relinkable(Node) /\ NoEntry \in Node /\ ~NoEntry.use
    BY CellTypes, NodeFacts
  <2> QED BY <1>1, <2>1, FreedFacts
<1>3. /\ p # Nil /\ p \in Used(e) /\ o[p] = t /\ e[p].next = i /\ p # i
      /\ n # Nil => n \in Used(e) /\ o[n] = t /\ e[n].prev = i /\ n # i
  <2>1. e[i].prev # Nil
    BY DEF Ranked
  <2> QED BY <1>1, <2>1, PoolFacts
<1> HIDE DEF p, n
<1>4. /\ e2 \in Seq(Node) /\ DOMAIN e2 = DOMAIN e /\ Used(e2) = Used(e) \ {i} /\ e2[i] = NoEntry
      /\ Linked(e2, Used(e2), o)
      /\ \A j \in DOMAIN e \ {i} :
           /\ e2[j].next = IF j = p THEN n ELSE e[j].next
           /\ e2[j].prev = IF j = n /\ j # p THEN p ELSE e[j].prev
           /\ j # n /\ j # p => e2[j] = e[j]
      /\ \A j \in DOMAIN e \ Used(e) : e2[j] = e[j]
  BY <1>2 DEF OneLess, p, n
<1>5. \A j \in DOMAIN e \ {i} : e2[j].key = e[j].key /\ e2[j].ivalue = e[j].ivalue
  <2>1. \A x \in Node : {"key", "ivalue"} \subseteq DOMAIN x
    BY DEF Node
  <2>2. \A j \in DOMAIN e : e[j] \in Node
    BY <1>1
  <2> QED BY <1>2, <2>1, <2>2 DEF OneLess
<1>6. Pool(e2, o)
  <2>1. \A j \in DOMAIN e2 \ Used(e2) : e2[j] = NoEntry
    BY <1>1, <1>4
  <2> QED BY <1>1, <1>4, <2>1 DEF Pool
<1>7. Beyond(e, o, t, e2, o)
  <2>1. ASSUME NEW j \in Used(e), o[j] # t PROVE e2[j] = e[j]
    <3>1. j \in DOMAIN e \ {i} /\ j # Nil /\ j # n /\ j # p
      BY <1>1, <1>3, <2>1
    <3> QED BY <1>4, <3>1
  <2> QED BY <1>1, <1>4, <2>1 DEF Beyond
<1>8. Mine(e2, o, t) = Mine(e, o, t) \ {i}
  BY <1>4 DEF Mine
<1>9. ASSUME NEW j \in Mine(e, o, t) \ {i}
      PROVE  /\ e2[j].prev = Nil <=> j = top
             /\ j # top => e2[j].key \in Keys /\ e2[j].ivalue \in Values
             /\ t \in IntTables /\ e2[j].next # Nil => e2[e2[j].next].ivalue <= e2[j].ivalue
  <2>1. /\ e[j].prev = Nil <=> j = top
        /\ j # top => e[j].key \in Keys /\ e[j].ivalue \in Values
        /\ t \in IntTables /\ e[j].next # Nil => e[e[j].next].ivalue <= e[j].ivalue
    BY DEF Ranked
  <2>2. /\ j \in DOMAIN e \ {i} /\ j \in Used(e) /\ j # Nil /\ o[j] = t
        /\ e2[j].key = e[j].key /\ e2[j].ivalue = e[j].ivalue
        /\ e2[j].next = IF j = p THEN n ELSE e[j].next
        /\ e2[j].prev = IF j = n /\ j # p THEN p ELSE e[j].prev
    BY <1>1, <1>4, <1>5 DEF Mine
  <2>3. e2[j].prev = Nil <=> e[j].prev = Nil
    <3>1. i # Nil
      BY <1>1
    <3> QED BY <1>3, <2>2, <3>1
  <2>4. ASSUME t \in IntTables, e2[j].next # Nil PROVE e2[e2[j].next].ivalue <= e2[j].ivalue
    <3>1. CASE j = p
      <4>1. e2[j].next = n /\ n # Nil /\ n \in DOMAIN e \ {i}
        BY <1>1, <1>3, <2>2, <2>4, <3>1
      <4>2. e[n].ivalue <= e[i].ivalue
        BY <2>4, <4>1 DEF Ranked, n
      <4>3. e[i].ivalue <= e[j].ivalue
        <5>1. e[j].next = i /\ i # Nil
          BY <1>1, <1>3, <3>1
        <5> QED BY <2>1, <2>4, <5>1
      <4>4. e[n].ivalue \in Nat /\ e[i].ivalue \in Nat /\ e[j].ivalue \in Nat
        BY <1>1, <2>2, <4>1, PoolFacts
      <4>5. e2[n].ivalue = e[n].ivalue
        BY <1>5, <4>1
      <4> QED BY <2>2, <4>1, <4>2, <4>3, <4>4, <4>5
    <3>2. CASE j # p
      <4>1. e2[j].next = e[j].next /\ e[j].next # Nil
        BY <2>2, <2>4, <3>2
      <4>2. e[j].next \in Used(e) /\ e[e[j].next].prev = j
        BY <2>2, <4>1, PoolFacts
      <4>3. e[j].next \in DOMAIN e \ {i}
        BY <1>1, <3>2, <4>2 DEF p
      <4>4. e2[e[j].next].ivalue = e[e[j].next].ivalue
        BY <1>5, <4>3
      <4> QED BY <2>1, <2>2, <2>4, <4>1, <4>4
    <3> QED BY <3>1, <3>2
  <2> QED BY <2>1, <2>2, <2>3, <2>4
<1>10. Ranked(e2, o, t, top)
  BY <1>8, <1>9 DEF Ranked
<1>11. \A j \in Mine(e, o, t) \ {i} : e2[j].key = e[j].key /\ e2[j].ivalue = e[j].ivalue
  BY <1>1, <1>5 DEF Mine
<1> QED BY <1>6, <1>7, <1>8, <1>10, <1>11 DEF NodeRemoved

(* dbDeleteEntry, for a key that is found.                               *)
Deleted(d, o, t, k, d2) ==
  /\ Worked(d, o, t, d2, o) /\ d2.table[t].top = d.table[t].top
  /\ Get(d2, t, k) = Absent
  /\ \A x \in Keys \ {k} : Get(d2, t, x) = IF Hash[x] = tableGetEntry(d.table[t], k)
                                           THEN Absent ELSE Get(d, t, x)

(* A deleted key reads as absent, and so do the keys of its chain when   *)
(* it was the first entry.                                               *)
LEMMA DeleteFacts ==
  ASSUME NEW d, NEW o, NEW c, Sound(d, o, c), NEW t \in Tables, NEW k \in Keys,
         d.table[t].top # Nil, NEW j, OnChain(d.table[t].hash, c[t], j, k),
         NEW i, i = d.table[t].hash[j].dbind,
         NEW e2, e2 = Freed(d.entry, i, NoEntry),
         NEW tb2, tb2 = tableReleaseNode(d.table[t], j),
         NEW d2, e2 \in Seq(Node) /\ tb2 \in TableType => Renewed(d, t, e2, tb2, d2)
  PROVE  \E c2 : Sound(d2, o, c2) /\ Deleted(d, o, t, k, d2)
<1> DEFINE e == d.entry
           tb == d.table[t]
           h == tb.hash
           h2 == tb2.hash
<1>1. /\ Owned(e, o, t, tb, c[t]) /\ tb.top \in Mine(e, o, t) /\ e[tb.top].ivalue = Above
      /\ Chains(h, c[t]) /\ Joined(e, o, t, tb) /\ Pool(e, o) /\ Ranked(e, o, t, tb.top)
      /\ tb \in TableType
  BY DEF Sound, Owned
<1>2. /\ \A x \in Used(h) : /\ h[x].dbind \in Mine(e, o, t) \ {tb.top}
                            /\ e[h[x].dbind].key = h[x].key
      /\ \A a, b \in Used(h) : h[a].dbind = h[b].dbind => a = b
      /\ \A x \in Mine(e, o, t) \ {tb.top} : \E b \in Used(h) : h[b].dbind = x
  BY Zenon, <1>1 DEF Joined
<1>3. j \in Used(h) /\ i \in Mine(e, o, t) \ {tb.top} /\ h[j].key = k /\ h[j].dbind = i
  BY <1>2 DEF OnChain
<1>4. NodeRemoved(e, o, t, tb.top, i, e2)
  <2>1. e2 = Freed(e, i, NoEntry)
    OBVIOUS
  <2> HIDE DEF e, tb
  <2> QED BY <1>1, <1>3, <2>1, RemoveNode
<1>5. /\ tb2 \in TableType /\ tb2.top = tb.top
      /\ \E c1 : Released(h, c[t], h2, c1, j)
  <2>1. tb2 = tableReleaseNode(tb, j)
    OBVIOUS
  <2> HIDE DEF tb
  <2> QED BY <1>1, <1>3, <2>1, ReleaseFacts
<1>6. PICK c1 : Released(h, c[t], h2, c1, j)
  BY <1>5
<1>7. /\ Pool(e2, o) /\ Beyond(e, o, t, e2, o) /\ Mine(e2, o, t) = Mine(e, o, t) \ {i}
      /\ \A x \in Mine(e, o, t) \ {i} : e2[x].key = e[x].key /\ e2[x].ivalue = e[x].ivalue
      /\ Ranked(e2, o, t, tb.top)
  BY Zenon, <1>4 DEF NodeRemoved
<1>8. /\ Chains(h2, c1) /\ Used(h2) = Used(h) \ {j}
      /\ \A x \in Used(h2) : /\ h2[x].key = h[x].key /\ h2[x].dbind = h[x].dbind
                             /\ c1[x] = IF c[t][x] = j THEN 0 ELSE c[t][x]
  BY <1>6 DEF Released
<1>9. /\ d2 \in DBType /\ d2.entry = e2 /\ d2.table[t] \in TableType
      /\ d2.table[t].hash = h2 /\ d2.table[t].top = tb.top
      /\ \A x \in Tables \ {t} : d2.table[x] = d.table[x]
  BY Zenon, <1>5, <1>7 DEF Renewed, Pool
<1> HIDE DEF h2
<1>10. Joined(e2, o, t, d2.table[t])
  <2>1. ASSUME NEW x \in Used(h2)
        PROVE  h2[x].dbind \in Mine(e2, o, t) \ {tb.top} /\ e2[h2[x].dbind].key = h2[x].key
    <3>1. x \in Used(h) /\ x # j
      BY <1>8
    <3>2. h[x].dbind # i
      BY Zenon, <1>2, <1>3, <3>1
    <3>3. h2[x].dbind = h[x].dbind /\ h2[x].key = h[x].key
      BY <1>8
    <3>4. h[x].dbind \in Mine(e, o, t) \ {i} /\ h[x].dbind # tb.top /\ e[h[x].dbind].key = h[x].key
      BY Zenon, <1>2, <3>1, <3>2
    <3> HIDE DEF e, tb, h
    <3> QED BY Zenon, <1>7, <3>3, <3>4
  <2>2. ASSUME NEW a \in Used(h2), NEW b \in Used(h2), h2[a].dbind = h2[b].dbind
        PROVE  a = b
    BY Zenon, <1>2, <1>8, <2>2
  <2>3. ASSUME NEW x \in Mine(e2, o, t) \ {tb.top}
        PROVE  \E b \in Used(h2) : h2[b].dbind = x
    <3>1. PICK b \in Used(h) : h[b].dbind = x
      BY Zenon, <1>2, <1>7
    <3> QED BY Zenon, <1>3, <1>7, <1>8, <3>1
  <2> QED BY Zenon, <1>9, <2>1, <2>2, <2>3 DEF Joined
<1>11. Owned(e2, o, t, d2.table[t], c1)
  <2>1. tb.top \in Mine(e2, o, t) /\ e2[tb.top].ivalue = Above
    BY Zenon, <1>1, <1>3, <1>7
  <2> QED BY Zenon, <1>7, <1>8, <1>9, <1>10, <2>1 DEF Owned
<1> DEFINE c2 == [x \in Tables |-> IF x = t THEN c1 ELSE c[x]]
<1>12. c2[t] = c1 /\ \A x \in Tables \ {t} : c2[x] = c[x]
  OBVIOUS
<1> HIDE DEF c2
<1>13. Worked(d, o, t, d2, o)
  BY Zenon, <1>7, <1>9 DEF Worked
<1>14. Sound(d2, o, c2)
  <2>1. Stepped(d, o, c, t, d2, o, c2)
    BY Zenon, <1>7, <1>9, <1>11, <1>12, <1>13 DEF Stepped
  <2> QED BY <2>1, SoundStep
<1>15. \A x : OnChain(h, c[t], x, k) => x = j
  BY Zenon, <1>1, <1>3 DEF OnChain, Chains
<1>16. ASSUME NEW x \in Used(h2), NEW y
       PROVE  OnChain(h2, c1, x, y) <=> OnChain(h, c[t], x, y) /\ Hash[y] # j
  <2>1. x \in Used(h) /\ h2[x].key = h[x].key /\ c1[x] = IF c[t][x] = j THEN 0 ELSE c[t][x]
    BY <1>8
  <2>2. c[t][x] # 0 => c[t][x] = Hash[h[x].key]
    BY Zenon, <1>1, <2>1 DEF Chains
  <2> QED BY <2>1, <2>2 DEF OnChain
<1>17. \A y : (\E x : OnChain(h2, c1, x, y)) <=> \E x \in Used(h2) : OnChain(h, c[t], x, y) /\ Hash[y] # j
  BY <1>16 DEF OnChain
<1>18. Reads(d, c, t, k) /\ tableGetEntry(tb, k) = j
  <2>1. Reads(d, c, t, k)
    BY GetFacts
  <2> QED BY Zenon, <2>1 DEF Reads
<1>19. Get(d2, t, k) = Absent
  <2>1. \A x : ~OnChain(h2, c1, x, k)
    BY Zenon, <1>8, <1>15, <1>17
  <2>2. Reads(d2, c2, t, k)
    BY <1>14, GetFacts
  <2> QED BY Zenon, <1>9, <1>12, <2>1, <2>2 DEF Reads
<1>20. ASSUME NEW y \in Keys \ {k}
       PROVE  Get(d2, t, y) = IF Hash[y] = j THEN Absent ELSE Get(d, t, y)
  <2>1. Reads(d2, c2, t, y) /\ Reads(d, c, t, y)
    BY <1>14, GetFacts
  <2>2. CASE Hash[y] = j
    <3>1. \A x : ~OnChain(h2, c1, x, y)
      BY <1>17, <2>2
    <3> QED BY Zenon, <1>9, <1>12, <2>1, <2>2, <3>1 DEF Reads
  <2>3. CASE Hash[y] # j /\ \A x : ~OnChain(h, c[t], x, y)
    <3>1. \A x : ~OnChain(h2, c1, x, y)
      BY <1>17, <2>3
    <3> QED BY Zenon, <1>9, <1>12, <2>1, <2>3, <3>1 DEF Reads
  <2>4. CASE Hash[y] # j /\ \E x : OnChain(h, c[t], x, y)
    <3>1. PICK x : OnChain(h, c[t], x, y)
      BY <2>4
    <3>2. x \in Used(h) /\ h[x].key = y /\ x # j /\ x \in Used(h2)
      BY <1>3, <1>8, <3>1 DEF OnChain
    <3>3. OnChain(h2, c1, x, y)
      BY <1>16, <2>4, <3>1, <3>2
    <3>4. h[x].dbind # i /\ h[x].dbind \in Mine(e, o, t)
      BY Zenon, <1>2, <1>3, <3>2
    <3>5. e2[h2[x].dbind].ivalue = e[h[x].dbind].ivalue
      BY Zenon, <1>7, <1>8, <3>2, <3>4
    <3>6. Get(d2, t, y) = e2[h2[x].dbind].ivalue
      BY Zenon, <1>9, <1>12, <2>1, <3>3 DEF Reads
    <3>7. Get(d, t, y) = e[h[x].dbind].ivalue
      BY Zenon, <2>1, <3>1 DEF Reads
    <3> QED BY Zenon, <2>4, <3>5, <3>6, <3>7
  <2> QED BY <2>2, <2>3, <2>4
<1>21. Deleted(d, o, t, k, d2)
  BY <1>9, <1>13, <1>18, <1>19, <1>20 DEF Deleted
<1> QED BY <1>14, <1>21
-----------------------------------------------------------------------------
(* The nodes of a table in order.                                        *)

(* The nodes from i to the end of its list.                              *)
Path(e, i, p) ==
  /\ p \in Seq(Nat) /\ Len(p) >= 1 /\ p[1] = i
  /\ \A m \in 1 .. Len(p) : /\ p[m] \in Used(e)
                            /\ e[p[m]].next = IF m = Len(p) THEN Nil ELSE p[m + 1]

(* There is one path from a node.                                        *)
LEMMA PathPrefix ==
  ASSUME NEW e, NEW o, Pool(e, o), NEW i, NEW p, NEW q, Path(e, i, p), Path(e, i, q)
  PROVE  \A m \in 1 .. Len(p) : m <= Len(q) /\ q[m] = p[m]
<1> DEFINE B == {m \in 1 .. Len(p) : ~(m <= Len(q) /\ q[m] = p[m])}
<1> SUFFICES ASSUME B # {} PROVE FALSE
  OBVIOUS
<1>0. Len(p) \in Nat /\ Len(q) \in Nat
  BY DEF Path
<1>1. PICK m \in B : \A n \in B : m <= n
  <2>1. B \subseteq Nat
    OBVIOUS
  <2> HIDE DEF B
  <2> QED BY Zenon, <2>1, LeastNat
<1>2. m # 1
  BY <1>0 DEF Path
<1>3. m - 1 \in 1 .. Len(p) /\ m - 1 \notin B /\ (m - 1) + 1 = m /\ m \in Nat
  <2>1. m \in 1 .. Len(p) /\ m \in Nat
    OBVIOUS
  <2>2. m - 1 \in 1 .. Len(p) /\ ~(m <= m - 1) /\ (m - 1) + 1 = m
    BY <1>0, <1>2, <2>1
  <2>3. m - 1 \notin B
    <3> HIDE DEF B
    <3> QED BY <1>1, <2>2
  <2> QED BY <2>1, <2>2, <2>3
<1>4. m - 1 <= Len(q) /\ q[m - 1] = p[m - 1] /\ m - 1 # Len(p)
  <2>1. m <= Len(p)
    OBVIOUS
  <2> QED BY <1>0, <1>3, <2>1
<1>5. e[p[m - 1]].next = p[m] /\ p[m] # Nil
  <2>1. m \in 1 .. Len(p)
    OBVIOUS
  <2>2. p[m] \in Used(e) /\ e[p[m - 1]].next = p[m]
    BY Zenon, <1>3, <1>4, <2>1 DEF Path
  <2> QED BY <2>2, PoolFacts
<1>6. m - 1 \in 1 .. Len(q)
  BY <1>0, <1>3, <1>4
<1>7. e[q[m - 1]].next = IF m - 1 = Len(q) THEN Nil ELSE q[m]
  BY Zenon, <1>3, <1>6 DEF Path
<1>8. m <= Len(q) /\ q[m] = p[m]
  BY <1>0, <1>3, <1>4, <1>5, <1>6, <1>7
<1> QED BY <1>8

(* So two paths from a node are one.                                     *)
LEMMA PathUnique ==
  ASSUME NEW e, NEW o, Pool(e, o), NEW i, NEW p, NEW q, Path(e, i, p), Path(e, i, q)
  PROVE  p = q
<1>1. Len(p) \in Nat /\ Len(q) \in Nat /\ Len(p) >= 1 /\ Len(q) >= 1
  BY DEF Path
<1>2. Len(p) <= Len(q)
  <2>1. Len(p) \in 1 .. Len(p)
    BY <1>1
  <2> QED BY <2>1, PathPrefix
<1>3. Len(q) <= Len(p)
  <2>1. Len(q) \in 1 .. Len(q)
    BY <1>1
  <2> QED BY <2>1, PathPrefix
<1>4. \A m \in 1 .. Len(p) : q[m] = p[m]
  BY PathPrefix
<1>5. Len(p) = Len(q)
  BY <1>1, <1>2, <1>3
<1>6. p \in Seq(Nat) /\ q \in Seq(Nat)
  BY DEF Path
<1>7. p = [m \in 1 .. Len(p) |-> p[m]] /\ q = [m \in 1 .. Len(q) |-> q[m]]
  BY <1>6
<1>8. [m \in 1 .. Len(p) |-> p[m]] = [m \in 1 .. Len(q) |-> q[m]]
  BY <1>4, <1>5
<1> QED BY Zenon, <1>7, <1>8

(* The path of a node is the node and the path of the next one.          *)
LEMMA PathCons ==
  ASSUME NEW e, NEW i \in Used(e), i \in Nat, NEW q, Path(e, e[i].next, q)
  PROVE  Path(e, i, <<i>> \o q)
<1> DEFINE p == <<i>> \o q
<1>1. q \in Seq(Nat) /\ Len(q) \in Nat /\ Len(q) >= 1
  BY DEF Path
<1>2. p \in Seq(Nat) /\ Len(p) = 1 + Len(q) /\ p[1] = i /\ \A m \in 1 .. Len(q) : p[m + 1] = q[m]
  BY <1>1
<1> HIDE DEF p
<1>3. ASSUME NEW m \in 1 .. Len(p)
      PROVE  p[m] \in Used(e) /\ e[p[m]].next = IF m = Len(p) THEN Nil ELSE p[m + 1]
  <2>1. CASE m = 1
    <3>1. e[p[1]].next = q[1] /\ 1 \in 1 .. Len(q)
      BY <1>1, <1>2 DEF Path
    <3>2. p[1 + 1] = q[1] /\ 1 # Len(p)
      BY <1>1, <1>2, <3>1
    <3> QED BY <1>2, <2>1, <3>1, <3>2
  <2>2. CASE m # 1
    <3>1. m - 1 \in 1 .. Len(q) /\ (m - 1) + 1 = m
      BY <1>1, <1>2, <2>2
    <3>2. p[m] = q[m - 1]
      BY Zenon, <1>2, <3>1
    <3>3. q[m - 1] \in Used(e) /\ e[q[m - 1]].next = IF m - 1 = Len(q) THEN Nil ELSE q[m]
      BY Zenon, <3>1 DEF Path
    <3>4. m # Len(p) => m \in 1 .. Len(q)
      BY <1>1, <1>2
    <3>5. m - 1 = Len(q) <=> m = Len(p)
      BY <1>1, <1>2
    <3>6. m # Len(p) => p[m + 1] = q[m]
      BY <1>2, <3>4
    <3> QED BY <3>2, <3>3, <3>5, <3>6
  <2> QED BY <2>1, <2>2
<1>4. Path(e, i, p)
  BY <1>1, <1>2, <1>3 DEF Path
<1> QED BY <1>4 DEF p

(* The path of the last node.                                            *)
LEMMA PathLone ==
  ASSUME NEW e, NEW i \in Used(e), i \in Nat, e[i].next = Nil
  PROVE  Path(e, i, <<i>>)
<1>1. <<i>> \in Seq(Nat) /\ Len(<<i>>) = 1 /\ <<i>>[1] = i
  OBVIOUS
<1>2. \A m \in 1 .. 1 : m = 1
  OBVIOUS
<1> QED BY <1>1, <1>2 DEF Path

(* What dbFlush walks.                                                   *)
From(e) == CHOOSE f : f = [i \in {Nil} \union DOMAIN e |->
                             IF i = Nil THEN <<>> ELSE <<i>> \o f[e[i].next]]

(* dbFlush walks the path of the node it starts at.                      *)
LEMMA FromPath ==
  ASSUME NEW e, NEW o, Pool(e, o), NEW i \in Used(e)
  PROVE  Path(e, i, From(e)[i])
<1> DEFINE D == {Nil} \union DOMAIN e
           st == {Nil}
           nx == [c \in D |-> e[c].next]
           base == [c \in D |-> <<>>]
           comb == [c \in D |-> [x \in Seq(Nat) |-> <<c>> \o x]]
           IsFrom(f) == f = [c \in D |-> IF c = Nil THEN <<>> ELSE <<c>> \o f[e[c].next]]
<1>1. PICK M \in Nat : \E r : Graded(e, r, M)
  BY PoolGraded
<1>2. PICK r : Graded(e, r, M)
  BY <1>1
<1>3. DOMAIN e \subseteq Nat \ {Nil} /\ Used(e) \subseteq DOMAIN e /\ Nil \in Nat
  BY PoolFacts DEF Nil
<1> DEFINE s == [c \in D |-> IF c = Nil THEN 0 ELSE r[c] + 1]
<1>4. Falls(D, st, nx, s, M + 1)
  <2>1. \A c \in D : s[c] \in 0 .. M + 1
    <3>1. ASSUME NEW n \in Nat, n <= M PROVE n + 1 \in 0 .. M + 1 /\ 0 \in 0 .. M + 1
      BY <1>1, <3>1
    <3> QED BY <1>1, <1>2, <3>1 DEF Graded
  <2>2. ASSUME NEW c \in D, c \notin st PROVE nx[c] \in D /\ s[nx[c]] < s[c]
    <3>1. c \in DOMAIN e /\ c # Nil /\ r[c] \in Nat
      BY <1>2, <2>2 DEF Graded
    <3>2. CASE e[c].next = Nil
      BY <3>1, <3>2
    <3>3. CASE e[c].next # Nil
      <4>1. e[c].next \in DOMAIN e /\ r[e[c].next] < r[c] /\ r[e[c].next] \in Nat
        BY <1>2, <1>3, <3>1, <3>3 DEF Graded
      <4> QED BY <1>3, <3>1, <3>3, <4>1
    <3> QED BY <3>2, <3>3
  <2> HIDE DEF D, s, nx, st
  <2> QED BY <2>1, <2>2 DEF Falls
<1>5. Yields(D, st, base, comb, Seq(Nat))
  <2>1. \A c \in D : base[c] \in Seq(Nat)
    OBVIOUS
  <2>2. ASSUME NEW c \in D, NEW x \in Seq(Nat) PROVE comb[c][x] \in Seq(Nat)
    <3>1. c \in Nat
      BY <1>3
    <3>2. <<c>> \in Seq(Nat)
      BY <3>1
    <3>3. <<c>> \o x \in Seq(Nat)
      BY <3>2
    <3> HIDE DEF D
    <3> QED BY <3>3
  <2> HIDE DEF D, base, comb, st
  <2> QED BY <2>1, <2>2 DEF Yields
<1>6. PICK g \in [D -> Seq(Nat)] :
        \A c \in D : g[c] = IF c \in st THEN base[c] ELSE comb[c][g[nx[c]]]
  <2> DEFINE R == Seq(Nat)
             N == M + 1
  <2>1. N \in Nat /\ Falls(D, st, nx, s, N) /\ Yields(D, st, base, comb, R)
    BY <1>1, <1>4, <1>5
  <2> HIDE DEF D, st, nx, base, comb, s, R, N
  <2>2. \E g \in [D -> R] : \A c \in D : g[c] = IF c \in st THEN base[c] ELSE comb[c][g[nx[c]]]
    BY <2>1, RecursionExists
  <2> QED BY <2>2 DEF R
<1>7. IsFrom(g)
  <2>1. ASSUME NEW c \in D PROVE g[c] = IF c = Nil THEN <<>> ELSE <<c>> \o g[e[c].next]
    <3>1. CASE c = Nil
      BY Zenon, <1>6, <3>1
    <3>2. CASE c # Nil
      <4>1. e[c].next \in D /\ nx[c] = e[c].next
        BY Zenon, <1>4, <3>2 DEF Falls
      <4>2. g[e[c].next] \in Seq(Nat)
        BY <1>6, <4>1
      <4>3. g[c] = comb[c][g[nx[c]]]
        BY Zenon, <1>6, <3>2
      <4> QED BY Zenon, <3>2, <4>1, <4>2, <4>3
    <3> QED BY <3>1, <3>2
  <2> QED BY Zenon, <1>6, <2>1
<1>8. PICK f : f = From(e) /\ IsFrom(f)
  <2>1. From(e) = CHOOSE f : IsFrom(f)
    BY DEF From
  <2>2. \E f : IsFrom(f)
    BY <1>7
  <2> HIDE DEF IsFrom
  <2> QED BY <2>1, <2>2
<1> DEFINE Bad == {c \in Used(e) : ~Path(e, c, f[c])}
<1>9. ASSUME Bad # {} PROVE FALSE
  <2>1. PICK c \in Bad : \A b \in Bad : r[c] <= r[b]
    <3>1. \A x \in Bad : r[x] \in Nat
      BY <1>2, <1>3 DEF Graded
    <3> HIDE DEF Bad
    <3> QED BY Zenon, <1>9, <3>1, LeastOf
  <2>2. c \in Used(e) /\ c \in DOMAIN e /\ c # Nil /\ c \in Nat
    BY <1>3
  <2>3. f[c] = <<c>> \o f[e[c].next]
    BY Zenon, <1>8, <2>2
  <2>4. CASE e[c].next = Nil
    <3>1. f[Nil] = <<>>
      BY <1>8
    <3>2. f[c] = <<c>>
      BY <2>3, <2>4, <3>1
    <3> QED BY Zenon, <2>2, <2>4, <3>2, PathLone
  <2>5. CASE e[c].next # Nil
    <3>1. e[c].next \in Used(e) /\ r[e[c].next] < r[c] /\ r[c] \in Nat /\ r[e[c].next] \in Nat
      BY <1>2, <1>3, <2>2, <2>5 DEF Graded
    <3>2. e[c].next \notin Bad
      <4> HIDE DEF Bad
      <4> QED BY <2>1, <3>1
    <3>3. Path(e, e[c].next, f[e[c].next])
      BY <3>1, <3>2
    <3>4. Path(e, c, f[c])
      BY <2>2, <2>3, <3>3, PathCons
    <3> QED BY <3>4
  <2> QED BY <2>4, <2>5
<1> QED BY Zenon, <1>8, <1>9

(* The nodes of a table, in order.                                       *)
Ordered(e, o, t, top, p) ==
  /\ Path(e, top, p) /\ Len(p) \in Nat \ {0} /\ p \in Seq(Nat)
  /\ \A m \in 1 .. Len(p) : /\ p[m] \in Mine(e, o, t)
                            /\ m # 1 => e[p[m]].prev = p[m - 1]
                            /\ m = 1 <=> p[m] = top
  /\ \A m, n \in 1 .. Len(p) : p[m] = p[n] => m = n
  /\ \A i \in Mine(e, o, t) : \E m \in 1 .. Len(p) : p[m] = i

(* The path of the top node visits every node of the table once, in the  *)
(* order of the links.                                                   *)
LEMMA PathOrdered ==
  ASSUME NEW e, NEW o, Pool(e, o), NEW t, NEW top \in Mine(e, o, t), Ranked(e, o, t, top),
         NEW p, Path(e, top, p)
  PROVE  Ordered(e, o, t, top, p)
<1>0. Len(p) \in Nat \ {0} /\ p \in Seq(Nat) /\ p[1] = top /\ 1 \in 1 .. Len(p) /\ Len(p) \in Nat
  BY DEF Path
<1>1. PICK M \in Nat : \E r : Graded(e, r, M)
  BY PoolGraded
<1>2. PICK r : Graded(e, r, M)
  BY <1>1
<1>3. ASSUME NEW m \in 1 .. Len(p), m # 1
      PROVE  /\ m - 1 \in 1 .. Len(p) /\ m - 1 # Len(p) /\ (m - 1) + 1 = m /\ m \in Nat
             /\ e[p[m - 1]].next = p[m] /\ p[m] # Nil /\ p[m] \in Used(e)
             /\ p[m - 1] \in Used(e) /\ e[p[m]].prev = p[m - 1] /\ o[p[m]] = o[p[m - 1]]
             /\ r[p[m]] < r[p[m - 1]]
  <2>1. m - 1 \in 1 .. Len(p) /\ m - 1 # Len(p) /\ (m - 1) + 1 = m /\ m \in Nat
    BY <1>0, <1>3
  <2>2. p[m] \in Used(e) /\ e[p[m - 1]].next = p[m] /\ p[m - 1] \in Used(e)
    BY Zenon, <2>1 DEF Path
  <2>3. p[m] # Nil
    BY <2>2, PoolFacts
  <2>4. r[p[m]] < r[p[m - 1]]
    BY <1>2, <2>2, <2>3 DEF Graded, Used
  <2> QED BY <2>1, <2>2, <2>3, <2>4, PoolFacts
<1>4. \A m \in 1 .. Len(p) : p[m] \in Used(e) /\ r[p[m]] \in Nat
  BY <1>2 DEF Path, Graded, Used
<1>5. \A m \in 1 .. Len(p) : o[p[m]] = t
  <2> DEFINE B == {m \in 1 .. Len(p) : o[p[m]] # t}
  <2> SUFFICES ASSUME B # {} PROVE FALSE
    OBVIOUS
  <2>1. PICK m \in B : \A n \in B : m <= n
    <3>1. B \subseteq Nat
      OBVIOUS
    <3> HIDE DEF B
    <3> QED BY Zenon, <3>1, LeastNat
  <2>2. m # 1 /\ m \in 1 .. Len(p)
    BY <1>0 DEF Mine
  <2>3. m - 1 \notin B
    <3>1. ~(m <= m - 1)
      BY <1>3, <2>2
    <3> HIDE DEF B
    <3> QED BY <2>1, <3>1
  <2> QED BY <1>3, <2>2, <2>3
<1>6. ASSUME NEW m \in 1 .. Len(p), NEW n \in 1 .. Len(p), m < n
      PROVE  r[p[n]] < r[p[m]]
  <2> DEFINE B == {x \in 1 .. Len(p) : m < x /\ ~(r[p[x]] < r[p[m]])}
  <2> SUFFICES ASSUME B # {} PROVE FALSE
    BY <1>6
  <2>1. PICK x \in B : \A y \in B : x <= y
    <3>1. B \subseteq Nat
      OBVIOUS
    <3> HIDE DEF B
    <3> QED BY Zenon, <3>1, LeastNat
  <2>2. x \in 1 .. Len(p) /\ x # 1 /\ m < x
    BY <1>0
  <2>3. r[p[x]] < r[p[x - 1]] /\ x - 1 \in 1 .. Len(p) /\ x \in Nat
    BY Zenon, <1>3, <2>2
  <2>4. x - 1 \notin B
    <3>1. ~(x <= x - 1)
      BY <2>3
    <3> HIDE DEF B
    <3> QED BY <2>1, <3>1
  <2>5. CASE m = x - 1
    BY <2>1, <2>3, <2>5
  <2>6. CASE m # x - 1
    <3>1. m < x - 1
      BY <2>2, <2>3, <2>6
    <3>2. r[p[x - 1]] < r[p[m]]
      BY <2>3, <2>4, <3>1
    <3>3. r[p[x]] < r[p[m]]
      <4>1. r[p[x]] \in Nat /\ r[p[x - 1]] \in Nat /\ r[p[m]] \in Nat
        BY <1>4, <2>2, <2>3
      <4> QED BY <2>3, <3>2, <4>1
    <3> QED BY <2>1, <3>3
  <2> QED BY <2>5, <2>6
<1>7. ASSUME NEW m \in 1 .. Len(p), NEW n \in 1 .. Len(p), p[m] = p[n] PROVE m = n
  <2>1. ~(m < n)
    <3>1. m < n => r[p[n]] < r[p[m]]
      BY <1>6
    <3> QED BY <1>4, <1>7, <3>1
  <2>2. ~(n < m)
    <3>1. n < m => r[p[m]] < r[p[n]]
      BY <1>6
    <3> QED BY <1>4, <1>7, <3>1
  <2> QED BY <1>0, <2>1, <2>2
<1>8. \A m \in 1 .. Len(p) : m = 1 <=> p[m] = top
  BY <1>0, <1>7
<1>9. ASSUME NEW i \in Mine(e, o, t) PROVE \E m \in 1 .. Len(p) : p[m] = i
  <2> DEFINE B == {x \in Mine(e, o, t) : ~\E m \in 1 .. Len(p) : p[m] = x}
             s == [x \in B |-> M - r[x]]
  <2> SUFFICES ASSUME B # {} PROVE FALSE
    OBVIOUS
  <2>1. \A x \in DOMAIN e : r[x] \in Nat /\ r[x] <= M
    BY <1>2 DEF Graded
  <2>2. PICK x \in B : \A y \in B : s[x] <= s[y]
    <3>1. \A y \in B : s[y] \in Nat
      <4>1. ASSUME NEW n \in Nat, n <= M PROVE M - n \in Nat
        BY <1>1, <4>1
      <4> QED BY <2>1, <4>1 DEF Mine, Used
    <3> HIDE DEF B, s
    <3> QED BY <3>1, LeastOf
  <2>3. x \in Mine(e, o, t) /\ x # top /\ x \in Used(e) /\ o[x] = t /\ x \in DOMAIN e
    BY <1>0 DEF Mine, Used
  <2>4. e[x].prev # Nil
    BY <2>3 DEF Ranked
  <2>5. /\ e[x].prev \in Mine(e, o, t) /\ e[e[x].prev].next = x /\ x # Nil
        /\ e[x].prev \in DOMAIN e
    BY <2>3, <2>4, PoolFacts DEF Mine, Used
  <2>6. r[x] < r[e[x].prev]
    BY <1>2, <2>3, <2>4 DEF Graded
  <2>7. e[x].prev \notin B
    <3>1. ASSUME e[x].prev \in B PROVE FALSE
      <4>1. s[x] <= s[e[x].prev]
        BY <2>2, <3>1
      <4>2. s[x] = M - r[x] /\ s[e[x].prev] = M - r[e[x].prev]
        BY <3>1
      <4> HIDE DEF s, B
      <4>3. r[x] \in Nat /\ r[e[x].prev] \in Nat
        BY <2>1, <2>3, <2>5
      <4> QED BY <1>1, <2>6, <4>1, <4>2, <4>3
    <3> QED BY <3>1
  <2>8. PICK m \in 1 .. Len(p) : p[m] = e[x].prev
    BY <2>5, <2>7
  <2>9. m # Len(p) /\ p[m + 1] = x
    BY Zenon, <2>5, <2>8 DEF Path
  <2>10. m + 1 \in 1 .. Len(p)
    BY <1>0, <2>9
  <2> QED BY <2>9, <2>10
<1>10. \A m \in 1 .. Len(p) : /\ p[m] \in Mine(e, o, t)
                              /\ m # 1 => e[p[m]].prev = p[m - 1]
  BY <1>3, <1>4, <1>5 DEF Mine
<1> QED BY <1>0, <1>7, <1>8, <1>9, <1>10 DEF Ordered

(* The listing of a table is its path behind the top node.               *)
LEMMA ListingFacts ==
  ASSUME NEW d, NEW o, NEW c, Sound(d, o, c), NEW t \in Tables
  PROVE  /\ d.table[t].top = Nil => Listing(d, t) = <<>>
         /\ d.table[t].top # Nil =>
              \E p : /\ Ordered(d.entry, o, t, d.table[t].top, p)
                     /\ Listing(d, t) = Tail(p)
<1>1. CASE d.table[t].top = Nil
  BY <1>1 DEF Listing
<1>2. CASE d.table[t].top # Nil
  <2> DEFINE e == d.entry
             top == d.table[t].top
             p == From(e)[top]
  <2>1. Listing(d, t) = Tail(p)
    BY <1>2 DEF Listing, From
  <2>2. Pool(e, o) /\ top \in Mine(e, o, t) /\ Ranked(e, o, t, top) /\ top \in Used(e)
    BY <1>2 DEF Sound, Owned, Mine
  <2> HIDE DEF e, top
  <2>3. Path(e, top, p)
    BY <2>2, FromPath
  <2> HIDE DEF p
  <2>4. Ordered(e, o, t, top, p)
    BY <2>2, <2>3, PathOrdered
  <2> QED BY <1>2, <2>1, <2>4 DEF e, top
<1> QED BY <1>1, <1>2

(* And any path from the top node is that one.                           *)
LEMMA ListingIs ==
  ASSUME NEW d, NEW o, NEW c, Sound(d, o, c), NEW t \in Tables, d.table[t].top # Nil,
         NEW p, Path(d.entry, d.table[t].top, p)
  PROVE  Listing(d, t) = Tail(p)
<1>1. PICK q : Path(d.entry, d.table[t].top, q) /\ Listing(d, t) = Tail(q)
  BY ListingFacts DEF Ordered
<1>2. p = q
  BY <1>1, PathUnique DEF Sound
<1> QED BY <1>1, <1>2
-----------------------------------------------------------------------------
(* The lines of a table.                                                 *)

(* The lines of a table, in the order of its path p behind the top node. *)
Listed(d, o, t, p) ==
  /\ Ordered(d.entry, o, t, d.table[t].top, p)
  /\ Listing(d, t) \in Seq(Nat) /\ Len(Listing(d, t)) = Len(p) - 1
  /\ Lines(d, t) \in Seq(Keys \X Values) /\ Len(Lines(d, t)) = Len(p) - 1
  /\ \A m \in 1 .. Len(p) - 1 :
       /\ Listing(d, t)[m] = p[m + 1]
       /\ Lines(d, t)[m][1] = d.entry[p[m + 1]].key
       /\ Lines(d, t)[m][2] = d.entry[p[m + 1]].ivalue

(* The lines are read off the path.                                      *)
LEMMA PathListed ==
  ASSUME NEW d, NEW o, NEW c, Sound(d, o, c), NEW t \in Tables, d.table[t].top # Nil,
         NEW p, Path(d.entry, d.table[t].top, p)
  PROVE  Listed(d, o, t, p)
<1> DEFINE e == d.entry
           top == d.table[t].top
           l == Listing(d, t)
           r == Lines(d, t)
<1>1. l = Tail(p)
  BY ListingIs
<1>2. Pool(e, o) /\ top \in Mine(e, o, t) /\ Ranked(e, o, t, top)
  BY DEF Sound, Owned
<1>3. Ordered(e, o, t, top, p)
  BY <1>2, PathOrdered
<1>4. p \in Seq(Nat) /\ Len(p) \in Nat \ {0} /\ p # <<>>
  BY <1>3 DEF Ordered
<1>5. l \in Seq(Nat) /\ Len(l) = Len(p) - 1 /\ DOMAIN l = 1 .. Len(p) - 1
  BY <1>1, <1>4
<1>6. \A m \in 1 .. Len(p) - 1 : l[m] = p[m + 1]
  BY <1>1, <1>4, <1>5
<1>7. ASSUME NEW m \in 1 .. Len(p) - 1
      PROVE  e[p[m + 1]].key \in Keys /\ e[p[m + 1]].ivalue \in Values
  <2>1. m + 1 \in 1 .. Len(p) /\ m + 1 # 1
    BY <1>4
  <2>2. p[m + 1] \in Mine(e, o, t) /\ p[m + 1] # top
    BY <1>3, <2>1 DEF Ordered
  <2> QED BY <1>2, <2>2 DEF Ranked
<1>8. r = [m \in 1 .. Len(p) - 1 |-> <<e[p[m + 1]].key, e[p[m + 1]].ivalue>>]
  <2>1. r = [m \in DOMAIN l |-> <<e[l[m]].key, e[l[m]].ivalue>>]
    BY DEF Lines
  <2> HIDE DEF l, r, e
  <2> QED BY Zenon, <1>5, <1>6, <2>1
<1> HIDE DEF e, top, l, r
<1>9. Len(p) - 1 \in Nat
  BY <1>4
<1>10. \A m \in 1 .. Len(p) - 1 : <<e[p[m + 1]].key, e[p[m + 1]].ivalue>> \in Keys \X Values
  BY <1>7
<1>11. r \in Seq(Keys \X Values) /\ Len(r) = Len(p) - 1
  BY <1>8, <1>9, <1>10
<1>12. \A m \in 1 .. Len(p) - 1 : /\ r[m][1] = e[p[m + 1]].key
                                  /\ r[m][2] = e[p[m + 1]].ivalue
  BY <1>8
<1>13. /\ Ordered(e, o, t, top, p) /\ l \in Seq(Nat) /\ Len(l) = Len(p) - 1
       /\ r \in Seq(Keys \X Values) /\ Len(r) = Len(p) - 1
       /\ \A m \in 1 .. Len(p) - 1 : /\ l[m] = p[m + 1] /\ r[m][1] = e[p[m + 1]].key
                                     /\ r[m][2] = e[p[m + 1]].ivalue
  BY <1>3, <1>5, <1>6, <1>11, <1>12
<1> QED BY <1>13 DEF Listed, e, top, l, r

(* A table that exists has such a path.                                  *)
LEMMA HasPath ==
  ASSUME NEW d, NEW o, NEW c, Sound(d, o, c), NEW t \in Tables, d.table[t].top # Nil
  PROVE  \E p : Path(d.entry, d.table[t].top, p) /\ Listed(d, o, t, p)
<1>1. PICK p : Ordered(d.entry, o, t, d.table[t].top, p)
  BY ListingFacts
<1>2. Path(d.entry, d.table[t].top, p)
  BY <1>1 DEF Ordered
<1> QED BY <1>2, PathListed

(* A table that does not exist has no lines.                             *)
LEMMA NoLines ==
  ASSUME NEW d, NEW o, NEW c, Sound(d, o, c), NEW t \in Tables, d.table[t].top = Nil
  PROVE  Listing(d, t) = <<>> /\ Lines(d, t) = <<>>
<1>1. Listing(d, t) = <<>>
  BY ListingFacts
<1> QED BY <1>1 DEF Lines

(* Values never rise from line to line.                                  *)
Falling(l) == \A m \in DOMAIN l, n \in DOMAIN l : m <= n => l[n][2] <= l[m][2]

(* It is enough that no value is above the one before it.                *)
LEMMA StepwiseFalling ==
  ASSUME NEW l \in Seq(Keys \X Values),
         \A m \in 1 .. Len(l) : m # 1 => l[m][2] <= l[m - 1][2]
  PROVE  Falling(l)
<1>1. Len(l) \in Nat /\ DOMAIN l = 1 .. Len(l)
  OBVIOUS
<1>2. \A m \in 1 .. Len(l) : l[m][2] \in Nat
  <2>1. \A m \in 1 .. Len(l) : l[m] \in Keys \X Values
    OBVIOUS
  <2> QED BY Zenon, <2>1, AboveFacts
<1>3. ASSUME NEW m \in 1 .. Len(l), NEW n \in 1 .. Len(l), m <= n PROVE l[n][2] <= l[m][2]
  <2> DEFINE B == {x \in 1 .. Len(l) : m <= x /\ ~(l[x][2] <= l[m][2])}
  <2> SUFFICES ASSUME B # {} PROVE FALSE
    BY <1>3
  <2>1. PICK x \in B : \A y \in B : x <= y
    <3>1. B \subseteq Nat
      OBVIOUS
    <3> HIDE DEF B
    <3> QED BY Zenon, <3>1, LeastNat
  <2>2. x \in 1 .. Len(l) /\ m <= x /\ x # m
    BY <1>2
  <2>3. x - 1 \in 1 .. Len(l) /\ m <= x - 1 /\ x # 1 /\ ~(x <= x - 1)
    BY <1>1, <2>2
  <2>4. x - 1 \notin B
    <3> HIDE DEF B
    <3> QED BY <2>1, <2>3
  <2>5. l[x][2] <= l[x - 1][2] /\ l[x - 1][2] <= l[m][2]
    <3>1. l[x][2] <= l[x - 1][2]
      BY <2>2, <2>3
    <3>2. l[x - 1][2] <= l[m][2]
      BY <2>3, <2>4
    <3> QED BY <3>1, <3>2
  <2>6. l[x][2] <= l[m][2]
    <3> DEFINE a == l[x][2]
               b == l[x - 1][2]
               z == l[m][2]
    <3>1. a \in Nat /\ b \in Nat /\ z \in Nat
      BY <1>2, <2>2, <2>3
    <3>2. a <= b /\ b <= z
      BY <2>5
    <3> HIDE DEF a, b, z
    <3>3. a <= z
      BY <3>1, <3>2
    <3> QED BY <3>3 DEF a, z
  <2> QED BY <2>1, <2>6
<1> QED BY <1>1, <1>3 DEF Falling

(* The values of an integer table never rise.                            *)
LEMMA LinesFalling ==
  ASSUME NEW d, NEW o, NEW c, Sound(d, o, c), NEW t \in IntTables
  PROVE  Falling(Lines(d, t))
<1>0. t \in Tables
  BY DEF Tables
<1>1. CASE d.table[t].top = Nil
  BY <1>0, <1>1, NoLines DEF Falling
<1>2. CASE d.table[t].top # Nil
  <2>1. PICK p : Path(d.entry, d.table[t].top, p) /\ Listed(d, o, t, p)
    BY <1>0, <1>2, HasPath
  <2> DEFINE l == Lines(d, t)
  <2>2. l \in Seq(Keys \X Values) /\ Len(l) = Len(p) - 1 /\ Len(p) \in Nat
    BY <2>1 DEF Listed, Ordered
  <2>3. ASSUME NEW m \in 1 .. Len(l), m # 1 PROVE l[m][2] <= l[m - 1][2]
    <3>1. /\ m \in 1 .. Len(p) - 1 /\ m - 1 \in 1 .. Len(p) - 1 /\ (m - 1) + 1 = m
          /\ m \in 1 .. Len(p) /\ m # Len(p)
      BY <2>2, <2>3
    <3>2. l[m][2] = d.entry[p[m + 1]].ivalue /\ l[m - 1][2] = d.entry[p[m]].ivalue
      BY Zenon, <2>1, <3>1 DEF Listed
    <3>3. d.entry[p[m]].next = p[m + 1] /\ m + 1 \in 1 .. Len(p)
      BY <2>1, <2>2, <3>1 DEF Path
    <3>4. p[m] \in Mine(d.entry, o, t) /\ p[m + 1] # Nil
      <4>1. p[m] \in Mine(d.entry, o, t) /\ p[m + 1] \in Used(d.entry)
        BY Zenon, <2>1, <3>1, <3>3 DEF Listed, Ordered, Mine
      <4> QED BY <4>1, PoolFacts DEF Sound
    <3> QED BY <1>0, <3>2, <3>3, <3>4 DEF Sound, Owned, Ranked
  <2> HIDE DEF l
  <2>4. Falling(l)
    BY <2>2, <2>3, StepwiseFalling
  <2> QED BY <2>4 DEF l
<1> QED BY <1>1, <1>2

(* The lines of the other tables are what they were.                     *)
LEMMA PathBeyond ==
  ASSUME NEW e, NEW o, NEW t, NEW e2, NEW o2, Beyond(e, o, t, e2, o2), NEW x, x # t,
         NEW top, NEW p, Ordered(e, o, x, top, p)
  PROVE  Path(e2, top, p) /\ \A m \in 1 .. Len(p) : e2[p[m]] = e[p[m]]
<1>1. ASSUME NEW m \in 1 .. Len(p)
      PROVE  p[m] \in Used(e2) /\ e2[p[m]] = e[p[m]]
  <2>1. p[m] \in Used(e) /\ o[p[m]] # t
    BY DEF Ordered, Mine
  <2> QED BY <2>1 DEF Beyond
<1> QED BY Zenon, <1>1 DEF Ordered, Path

(* So its lines are the same.                                            *)
LEMMA LinesBeyond ==
  ASSUME NEW d, NEW o, NEW c, Sound(d, o, c), NEW t, NEW d2, NEW o2, NEW c2, Sound(d2, o2, c2),
         Worked(d, o, t, d2, o2), NEW x \in Tables, x # t
  PROVE  Lines(d2, x) = Lines(d, x)
<1>1. d2.table[x].top = d.table[x].top
  BY DEF Worked
<1>2. CASE d.table[x].top = Nil
  BY <1>1, <1>2, NoLines
<1>3. CASE d.table[x].top # Nil
  <2>1. PICK p : Path(d.entry, d.table[x].top, p) /\ Listed(d, o, x, p)
    BY <1>3, HasPath
  <2>2. Ordered(d.entry, o, x, d.table[x].top, p)
    BY <2>1 DEF Listed
  <2>3. Path(d2.entry, d.table[x].top, p) /\ \A m \in 1 .. Len(p) : d2.entry[p[m]] = d.entry[p[m]]
    <3> DEFINE e == d.entry
               e2 == d2.entry
               top == d.table[x].top
    <3>1. Beyond(e, o, t, e2, o2) /\ Ordered(e, o, x, top, p)
      BY <2>2 DEF Worked
    <3> HIDE DEF e, e2, top
    <3>2. Path(e2, top, p) /\ \A m \in 1 .. Len(p) : e2[p[m]] = e[p[m]]
      BY <3>1, PathBeyond
    <3> QED BY <3>2 DEF e, e2, top
  <2>4. Listed(d2, o2, x, p)
    BY <1>1, <1>3, <2>3, PathListed
  <2> DEFINE l == Listing(d, x)
             l2 == Listing(d2, x)
  <2>5. l = Tail(p) /\ l2 = Tail(p)
    BY <1>1, <1>3, <2>1, <2>3, ListingIs
  <2>6. \A m \in DOMAIN l : d2.entry[l[m]] = d.entry[l[m]]
    <3>1. Len(p) \in Nat /\ p \in Seq(Nat) /\ p # <<>>
      BY <2>2 DEF Ordered
    <3>2. DOMAIN l = 1 .. Len(p) - 1 /\ \A m \in DOMAIN l : l[m] = p[m + 1]
      BY <2>5, <3>1
    <3>3. \A m \in 1 .. Len(p) - 1 : m + 1 \in 1 .. Len(p)
      BY <3>1
    <3> HIDE DEF l
    <3> QED BY <2>3, <3>2, <3>3
  <2>7. Lines(d2, x) = [m \in DOMAIN l2 |-> <<d2.entry[l2[m]].key, d2.entry[l2[m]].ivalue>>]
    BY DEF Lines
  <2>8. Lines(d, x) = [m \in DOMAIN l |-> <<d.entry[l[m]].key, d.entry[l[m]].ivalue>>]
    BY DEF Lines
  <2> HIDE DEF l, l2
  <2> QED BY <2>5, <2>6, <2>7, <2>8
<1> QED BY <1>2, <1>3
-----------------------------------------------------------------------------
(* A line added at the end.                                              *)

(* A path to which a node is appended.                                   *)
LEMMA PathAppend ==
  ASSUME NEW e, NEW o, NEW t, NEW top, NEW p, Pool(e, o), Ordered(e, o, t, top, p),
         NEW pos \in Mine(e, o, t), e[pos].next = Nil, NEW k, NEW v, NEW e2, NEW o2, NEW i,
         NodeAdded(e, o, t, pos, k, v, e2, o2, i)
  PROVE  Path(e2, top, Append(p, i)) /\ pos = p[Len(p)]
<1> DEFINE q == Append(p, i)
           n == Len(p)
<1>1. n \in Nat \ {0} /\ p \in Seq(Nat) /\ i \in Nat \ {Nil} /\ p[1] = top
  BY DEF Ordered, NodeAdded, Path
<1>2. /\ q \in Seq(Nat) /\ Len(q) = n + 1 /\ q[n + 1] = i
      /\ \A m \in 1 .. n : q[m] = p[m]
  BY <1>1
<1>3. PICK x \in 1 .. n : p[x] = pos
  BY DEF Ordered
<1>4. x = n /\ pos = p[n]
  <2>1. e[p[x]].next = IF x = n THEN Nil ELSE p[x + 1]
    BY DEF Ordered, Path
  <2>2. x # n => p[x + 1] # Nil
    <3>1. x # n => x + 1 \in 1 .. n
      BY <1>1
    <3>2. x # n => p[x + 1] \in Used(e)
      BY <3>1 DEF Ordered, Path
    <3> QED BY <3>2, PoolFacts
  <2> QED BY <1>3, <2>1, <2>2
<1> HIDE DEF q, n
<1>5. ASSUME NEW m \in 1 .. Len(q)
      PROVE  q[m] \in Used(e2) /\ e2[q[m]].next = IF m = Len(q) THEN Nil ELSE q[m + 1]
  <2>1. CASE m = n + 1
    <3>1. q[m] = i /\ m = Len(q) /\ e2[i].next = Nil
      BY <1>2, <2>1 DEF NodeAdded
    <3>2. i \in Used(e2)
      BY DEF NodeAdded, Mine
    <3> QED BY <3>1, <3>2
  <2>2. CASE m # n + 1
    <3>1. m \in 1 .. n /\ m # Len(q) /\ m \in Nat
      BY <1>1, <1>2, <2>2
    <3>2. q[m] = p[m] /\ p[m] \in Mine(e, o, t)
      BY Zenon, <1>2, <3>1 DEF Ordered, n
    <3>3. p[m] \in Used(e2) /\ e2[p[m]].next = IF p[m] = pos THEN i ELSE e[p[m]].next
      BY <3>2 DEF NodeAdded, Mine
    <3>4. CASE m = n
      BY <1>2, <1>4, <3>1, <3>2, <3>3, <3>4
    <3>5. CASE m # n
      <4>1. m + 1 \in 1 .. n
        BY <1>1, <3>1, <3>5
      <4>2. p[m] # pos
        BY <1>1, <1>4, <3>1, <3>5 DEF Ordered, n
      <4>3. e[p[m]].next = p[m + 1]
        BY <3>1, <3>5 DEF Ordered, Path, n
      <4>4. q[m + 1] = p[m + 1]
        BY <1>2, <4>1
      <4> QED BY <3>1, <3>2, <3>3, <4>2, <4>3, <4>4
    <3> QED BY <3>4, <3>5
  <2> QED BY <2>1, <2>2
<1>6. Len(q) >= 1 /\ q[1] = top
  BY <1>1, <1>2
<1> QED BY Zenon, <1>2, <1>4, <1>5, <1>6 DEF Path, q, n

(* A new node behind the last one is a new line behind the last one.     *)
LEMMA LinesAppend ==
  ASSUME NEW d, NEW o, NEW c, Sound(d, o, c), NEW t \in Tables, d.table[t].top # Nil,
         NEW d2, NEW o2, NEW c2, Sound(d2, o2, c2), NEW pos, NEW k, NEW v, NEW i,
         Added(d, o, t, pos, k, v, d2, o2, i), pos \in Mine(d.entry, o, t),
         d.entry[pos].next = Nil
  PROVE  Lines(d2, t) = Append(Lines(d, t), <<k, v>>)
<1> DEFINE e == d.entry
           e2 == d2.entry
           top == d.table[t].top
<1>1. PICK p : Path(e, top, p) /\ Listed(d, o, t, p)
  BY HasPath
<1>2. Ordered(e, o, t, top, p) /\ Pool(e, o) /\ NodeAdded(e, o, t, pos, k, v, e2, o2, i)
  BY <1>1 DEF Listed, Sound, Added
<1>3. d2.table[t].top = top
  BY DEF Added
<1> DEFINE q == Append(p, i)
<1>4. Path(e2, top, q)
  <2>1. pos \in Mine(e, o, t) /\ e[pos].next = Nil
    OBVIOUS
  <2> HIDE DEF e, e2, top
  <2> QED BY <1>2, <2>1, PathAppend
<1>5. p \in Seq(Nat) /\ Len(p) \in Nat \ {0} /\ i \in Nat
  BY <1>2 DEF Ordered, NodeAdded
<1>6. /\ Len(q) = Len(p) + 1 /\ q[Len(p) + 1] = i
      /\ \A m \in 1 .. Len(p) : q[m] = p[m]
  BY <1>5
<1> HIDE DEF q, e, e2, top
<1>7. Listed(d2, o2, t, q)
  BY <1>3, <1>4, PathListed DEF e2, top
<1> DEFINE l == Lines(d, t)
           l2 == Lines(d2, t)
           n == Len(p) - 1
<1>8. l \in Seq(Keys \X Values) /\ Len(l) = n /\ n \in Nat
  BY <1>1, <1>5 DEF Listed
<1>9. l2 \in Seq(Keys \X Values) /\ Len(l2) = n + 1
  BY <1>5, <1>6, <1>7 DEF Listed
<1>10. ASSUME NEW m \in 1 .. n PROVE l2[m] = l[m]
  <2>1. m + 1 \in 1 .. Len(p) /\ m \in 1 .. Len(q) - 1 /\ m \in 1 .. Len(p) - 1
    BY <1>5, <1>6
  <2>2. l2[m][1] = e2[p[m + 1]].key /\ l2[m][2] = e2[p[m + 1]].ivalue
    BY Zenon, <1>6, <1>7, <2>1 DEF Listed, e2
  <2>3. l[m][1] = e[p[m + 1]].key /\ l[m][2] = e[p[m + 1]].ivalue
    BY Zenon, <1>1, <2>1 DEF Listed, e
  <2>4. p[m + 1] \in Mine(e, o, t)
    BY <1>2, <2>1 DEF Ordered
  <2>5. e2[p[m + 1]].key = e[p[m + 1]].key /\ e2[p[m + 1]].ivalue = e[p[m + 1]].ivalue
    BY <1>2, <2>4 DEF NodeAdded
  <2>6. l[m] \in Keys \X Values /\ l2[m] \in Keys \X Values
    <3>1. m \in 1 .. Len(l) /\ m \in 1 .. Len(l2)
      BY <1>8, <1>9
    <3> HIDE DEF l, l2
    <3> QED BY <1>8, <1>9, <3>1
  <2> QED BY <2>2, <2>3, <2>5, <2>6
<1>11. l2[n + 1] = <<k, v>>
  <2>1. n + 1 \in 1 .. Len(q) - 1 /\ n + 1 + 1 = Len(p) + 1
    BY <1>5, <1>6
  <2>2. l2[n + 1][1] = e2[i].key /\ l2[n + 1][2] = e2[i].ivalue
    BY <1>6, <1>7, <2>1 DEF Listed, e2
  <2>3. e2[i].key = k /\ e2[i].ivalue = v
    BY <1>2 DEF NodeAdded
  <2>4. l2[n + 1] \in Keys \X Values
    <3>1. n + 1 \in 1 .. Len(l2)
      BY <1>8, <1>9
    <3> HIDE DEF l2, n
    <3> QED BY <1>9, <3>1
  <2> QED BY <2>2, <2>3, <2>4
<1> HIDE DEF l, l2, n
<1>12. l2 = Append(l, <<k, v>>)
  <2> DEFINE l3 == Append(l, <<k, v>>)
  <2>1. l2[n + 1] \in Keys \X Values
    BY <1>8, <1>9
  <2>2. <<k, v>> \in Keys \X Values
    BY <1>11, <2>1
  <2>3. l3 \in Seq(Keys \X Values) /\ Len(l3) = n + 1 /\ l3[n + 1] = <<k, v>>
        /\ \A m \in 1 .. n : l3[m] = l[m]
    BY <1>8, <2>2
  <2> HIDE DEF l3
  <2>4. \A m \in 1 .. n + 1 : l3[m] = l2[m]
    <3>1. \A m \in 1 .. n + 1 : m \in 1 .. n \/ m = n + 1
      BY <1>8
    <3> QED BY Zenon, <1>10, <1>11, <2>3, <3>1
  <2>5. l3 = [m \in 1 .. n + 1 |-> l3[m]] /\ l2 = [m \in 1 .. n + 1 |-> l2[m]]
    BY <1>9, <2>3
  <2>6. [m \in 1 .. n + 1 |-> l3[m]] = [m \in 1 .. n + 1 |-> l2[m]]
    BY <2>4
  <2>7. l3 = l2
    BY <2>5, <2>6
  <2> QED BY <2>7 DEF l3
<1> QED BY <1>12 DEF l, l2

-----------------------------------------------------------------------------
(* What an update does, once the table exists.                           *)

(* Creating a table adds no line.                                        *)
LEMMA CreateLines ==
  ASSUME NEW d, NEW o, NEW c, Sound(d, o, c), NEW t \in Tables,
         NEW d2, NEW o2, NEW c2, Sound(d2, o2, c2), Created(d, o, t, d2, o2)
  PROVE  Lines(d2, t) = Lines(d, t)
<1>1. CASE d.table[t].top # Nil
  BY <1>1 DEF Created
<1>2. CASE d.table[t].top = Nil
  <2>1. PICK p : Path(d2.entry, d2.table[t].top, p) /\ Listed(d2, o2, t, p)
    BY HasPath DEF Created
  <2>2. Len(p) \in Nat /\ Len(p) >= 1
    BY <2>1 DEF Path
  <2>3. ASSUME Len(p) # 1 PROVE FALSE
    <3>1. 2 \in 1 .. Len(p) /\ 2 # 1
      <4> DEFINE n == Len(p)
      <4>1. n \in Nat /\ n >= 1 /\ n # 1
        BY <2>2, <2>3
      <4> HIDE DEF n
      <4>2. 2 \in 1 .. n
        BY <4>1
      <4> QED BY <4>2 DEF n
    <3>2. p[2] \in Mine(d2.entry, o2, t) /\ p[2] # d2.table[t].top
      BY <2>1, <3>1 DEF Listed, Ordered
    <3> QED BY <1>2, <3>2 DEF Created
  <2>4. Len(Lines(d2, t)) = 0 /\ Lines(d2, t) \in Seq(Keys \X Values)
    BY <2>1, <2>2, <2>3 DEF Listed
  <2>5. Lines(d2, t) = <<>>
    BY <2>4
  <2> QED BY <1>2, <2>5, NoLines
<1> QED BY <1>1, <1>2

(* What an operation on the table t leaves of the other tables.          *)
Elsewhere(d, t, d2) ==
  \A x \in Tables \ {t} : /\ Lines(d2, x) = Lines(d, x)
                          /\ \A k \in Keys : Get(d2, x, k) = Get(d, x, k)

(* Work on the table t leaves that of the other tables.                  *)
LEMMA ElsewhereFacts ==
  ASSUME NEW d, NEW o, NEW c, Sound(d, o, c), NEW t, NEW d2, NEW o2, NEW c2, Sound(d2, o2, c2),
         Worked(d, o, t, d2, o2)
  PROVE  Elsewhere(d, t, d2)
BY GetBeyond, LinesBeyond DEF Elsewhere

(* So do two such steps.                                                 *)
LEMMA ElsewhereTrans ==
  ASSUME NEW d, NEW t, NEW d1, NEW d2, Elsewhere(d, t, d1), Elsewhere(d1, t, d2)
  PROVE  Elsewhere(d, t, d2)
BY DEF Elsewhere

(* What an update does.                                                  *)
AtEnd(d, t, k, v) ==
  /\ t \in IntTables /\ Get(d, t, k) = Absent
  /\ \A m \in DOMAIN Lines(d, t) : v <= Lines(d, t)[m][2]

Updated(d, t, k, v, d2) ==
  /\ Elsewhere(d, t, d2) /\ NowReads(d, t, k, v, d2)
  /\ AtEnd(d, t, k, v) => Lines(d2, t) = Append(Lines(d, t), <<k, v>>)

(* A key that is new.                                                    *)
LEMMA UpdateNew ==
  ASSUME NEW d, NEW o, NEW c, Sound(d, o, c), NEW t \in Tables, NEW k \in Keys, NEW v \in Values,
         d.table[t].top # Nil, \A j : ~OnChain(d.table[t].hash, c[t], j, k),
         NEW pos, Fits(d.entry, o, t, v, pos), AtEnd(d, t, k, v) => d.entry[pos].next = Nil
  PROVE  DbOK(NewEntry(d, t, k, v, pos)) /\ Updated(d, t, k, v, NewEntry(d, t, k, v, pos))
<1> DEFINE d2 == NewEntry(d, t, k, v, pos)
<1>1. PICK o2, c2, i : Sound(d2, o2, c2) /\ Added(d, o, t, pos, k, v, d2, o2, i)
  BY NewEntryFacts
<1> HIDE DEF d2
<1>2. Elsewhere(d, t, d2) /\ NowReads(d, t, k, v, d2)
  BY <1>1, ElsewhereFacts DEF Added
<1>3. ASSUME AtEnd(d, t, k, v) PROVE Lines(d2, t) = Append(Lines(d, t), <<k, v>>)
  <2>1. d.entry[pos].next = Nil /\ pos \in Mine(d.entry, o, t)
    BY <1>3 DEF Fits
  <2> QED BY <1>1, <2>1, LinesAppend
<1> QED BY <1>1, <1>2, <1>3 DEF Updated, DbOK, d2

(* A key that is there.                                                  *)
LEMMA UpdateOld ==
  ASSUME NEW d, NEW o, NEW c, Sound(d, o, c), NEW t \in Tables, NEW k \in Keys, NEW v \in Values,
         d.table[t].top # Nil, NEW j, OnChain(d.table[t].hash, c[t], j, k),
         NEW i, i = d.table[t].hash[j].dbind,
         NEW e2, Revised(d.entry, o, t, d.table[t].top, i, v, e2),
         NEW d2, Renewed(d, t, e2, d.table[t], d2)
  PROVE  DbOK(d2) /\ Updated(d, t, k, v, d2)
<1>1. Sound(d2, o, c) /\ Revalues(d, o, t, k, v, d2)
  BY Zenon, SetFacts
<1>2. Elsewhere(d, t, d2) /\ NowReads(d, t, k, v, d2)
  BY <1>1, ElsewhereFacts DEF Revalues
<1>3. Get(d, t, k) # Absent
  <2>1. Get(d, t, k) \in Values
    BY GetFacts DEF Reads
  <2> QED BY <2>1, AboveFacts
<1> QED BY <1>1, <1>2, <1>3 DEF Updated, AtEnd, DbOK

(* Creating a table first makes no difference.                           *)
LEMMA UpdatedCreated ==
  ASSUME NEW d, NEW o, NEW c, Sound(d, o, c), NEW t \in Tables, NEW d1, NEW o1, NEW c1,
         Sound(d1, o1, c1), Created(d, o, t, d1, o1), NEW k \in Keys, NEW v, NEW d2,
         Updated(d1, t, k, v, d2)
  PROVE  Updated(d, t, k, v, d2)
<1>1. Elsewhere(d, t, d1)
  BY ElsewhereFacts DEF Created
<1>2. Lines(d1, t) = Lines(d, t) /\ \A x \in Keys : Get(d1, t, x) = Get(d, t, x)
  BY CreateLines DEF Created
<1>3. Elsewhere(d, t, d2)
  BY <1>1, ElsewhereTrans DEF Updated
<1>4. NowReads(d, t, k, v, d2)
  BY <1>2 DEF Updated, NowReads
<1>5. AtEnd(d1, t, k, v) <=> AtEnd(d, t, k, v)
  BY <1>2 DEF AtEnd
<1> QED BY <1>2, <1>3, <1>4, <1>5 DEF Updated

(* The entry of a key and its node.                                      *)
LEMMA EntryFound ==
  ASSUME NEW d, NEW o, NEW c, Sound(d, o, c), NEW t \in Tables, NEW k \in Keys,
         d.table[t].top # Nil, NEW j, j = tableGetEntry(d.table[t], k)
  PROVE  /\ j = Nil => \A x : ~OnChain(d.table[t].hash, c[t], x, k)
         /\ j # Nil => /\ OnChain(d.table[t].hash, c[t], j, k)
                       /\ d.table[t].hash[j].dbind \in Mine(d.entry, o, t) \ {d.table[t].top}
<1> DEFINE tb == d.table[t]
<1>1. Owned(d.entry, o, t, tb, c[t]) /\ Chains(tb.hash, c[t])
  BY DEF Sound, Owned
<1>2. IF j = Nil THEN \A x : ~OnChain(tb.hash, c[t], x, k) ELSE OnChain(tb.hash, c[t], j, k)
  <2> HIDE DEF tb
  <2>1. j = tableGetEntry(tb, k)
    BY DEF tb
  <2> QED BY Zenon, <1>1, <2>1, GetEntryFacts
<1>3. j # Nil => tb.hash[j].dbind \in Mine(d.entry, o, t) \ {tb.top}
  BY <1>1, <1>2 DEF Owned, Joined, OnChain
<1> QED BY <1>2, <1>3

(* The end of the list.                                                  *)
LEMMA AtEndFits ==
  ASSUME NEW d, NEW o, NEW c, Sound(d, o, c), NEW t \in Tables, NEW k \in Keys, NEW v \in Values,
         d.table[t].top # Nil
  PROVE  LET pos == InsertPosition(d.entry, d.table[t].top, v) IN
         /\ Fits(d.entry, o, t, v, pos)
         /\ AtEnd(d, t, k, v) => d.entry[pos].next = Nil
<1> DEFINE e == d.entry
           top == d.table[t].top
           pos == InsertPosition(e, top, v)
<1>1. Pool(e, o) /\ top \in Mine(e, o, t) /\ e[top].ivalue = Above
  BY DEF Sound, Owned
<1>2. v \in Nat /\ v <= e[top].ivalue
  <2>1. v \in Nat /\ Above \in Nat /\ v < Above
    BY AboveFacts
  <2> QED BY <1>1, <2>1
<1>3. PICK p : Listed(d, o, t, p)
  BY HasPath
<1>4. ASSUME AtEnd(d, t, k, v), NEW i \in Mine(e, o, t) PROVE v <= e[i].ivalue
  <2>1. CASE i = top
    BY <1>2, <2>1
  <2>2. CASE i # top
    <3>1. PICK m \in 1 .. Len(p) : p[m] = i
      BY <1>3 DEF Listed, Ordered
    <3>2. m # 1 /\ Len(p) \in Nat
      BY Zenon, <1>3, <2>2, <3>1 DEF Listed, Ordered
    <3>3. m - 1 \in 1 .. Len(p) - 1 /\ (m - 1) + 1 = m
      BY <3>1, <3>2
    <3>4. Lines(d, t)[m - 1][2] = e[i].ivalue
      BY Zenon, <1>3, <3>1, <3>3 DEF Listed
    <3>5. m - 1 \in DOMAIN Lines(d, t)
      BY <1>3, <3>3 DEF Listed
    <3> QED BY <1>4, <3>4, <3>5 DEF AtEnd
  <2> QED BY <2>1, <2>2
<1> HIDE DEF e, top
<1>5. /\ Fits(e, o, t, v, pos)
      /\ (\A i \in Mine(e, o, t) : v <= e[i].ivalue) => e[pos].next = Nil
  BY <1>1, <1>2, InsertPositionFits
<1> HIDE DEF pos
<1>6. AtEnd(d, t, k, v) => e[pos].next = Nil
  BY <1>4, <1>5
<1> QED BY <1>5, <1>6 DEF e, top, pos
-----------------------------------------------------------------------------
(* The operations on the memory.                                         *)

(* The update functions, once the table exists.                          *)
IntStep(d, t, k, v) ==
  LET h == tableGetEntry(d.table[t], k) IN
  IF h = Nil
    THEN NewEntry(d, t, k, v, InsertPosition(d.entry, d.table[t].top, v))
    ELSE [d EXCEPT !.entry = Moved(@, d.table[t].hash[h].dbind, v),
                   !.table[t].updated = TRUE]

StringStep(d, t, k, v) ==
  LET h == tableGetEntry(d.table[t], k) IN
  IF h = Nil
    THEN NewEntry(d, t, k, v, d.table[t].top)
    ELSE [d EXCEPT !.entry[d.table[t].hash[h].dbind].ivalue = v,
                   !.table[t].updated = TRUE]

UpdateStep(d, t, k, v) == IF t \in IntTables THEN IntStep(d, t, k, v) ELSE StringStep(d, t, k, v)

(* The update functions create the table first.                          *)
LEMMA UpdateSteps ==
  ASSUME NEW d, NEW t, NEW k, NEW v
  PROVE  Update(d, t, k, v) = UpdateStep(dbGetTableIndex(d, t), t, k, v)
BY DEF Update, UpdateStep, dbUpdateEntryInt, dbUpdateEntryString, IntStep, StringStep

(* A key that is not in the table.                                       *)
LEMMA UpdateStepNew ==
  ASSUME NEW d, NEW o, NEW c, Sound(d, o, c), NEW t \in Tables, NEW k \in Keys, NEW v \in Values,
         d.table[t].top # Nil, tableGetEntry(d.table[t], k) = Nil
  PROVE  DbOK(UpdateStep(d, t, k, v)) /\ Updated(d, t, k, v, UpdateStep(d, t, k, v))
<1>1. \A j : ~OnChain(d.table[t].hash, c[t], j, k)
  BY EntryFound
<1>2. CASE t \in IntTables
  <2> DEFINE pos == InsertPosition(d.entry, d.table[t].top, v)
  <2>1. UpdateStep(d, t, k, v) = NewEntry(d, t, k, v, pos)
    BY <1>2 DEF UpdateStep, IntStep
  <2>2. Fits(d.entry, o, t, v, pos) /\ (AtEnd(d, t, k, v) => d.entry[pos].next = Nil)
    BY AtEndFits
  <2> HIDE DEF pos
  <2>3. DbOK(NewEntry(d, t, k, v, pos)) /\ Updated(d, t, k, v, NewEntry(d, t, k, v, pos))
    BY <1>1, <2>2, UpdateNew
  <2> QED BY <2>1, <2>3
<1>3. CASE t \notin IntTables
  <2> DEFINE pos == d.table[t].top
  <2>1. UpdateStep(d, t, k, v) = NewEntry(d, t, k, v, pos)
    BY <1>3 DEF UpdateStep, StringStep
  <2>2. Fits(d.entry, o, t, v, pos) /\ ~AtEnd(d, t, k, v)
    BY <1>3 DEF Sound, Owned, Fits, AtEnd
  <2> HIDE DEF pos
  <2>3. DbOK(NewEntry(d, t, k, v, pos)) /\ Updated(d, t, k, v, NewEntry(d, t, k, v, pos))
    BY <1>1, <2>2, UpdateNew
  <2> QED BY <2>1, <2>3
<1> QED BY <1>2, <1>3

(* A key that is in the table.                                           *)
LEMMA UpdateStepOld ==
  ASSUME NEW d, NEW o, NEW c, Sound(d, o, c), NEW t \in Tables, NEW k \in Keys, NEW v \in Values,
         d.table[t].top # Nil, tableGetEntry(d.table[t], k) # Nil
  PROVE  DbOK(UpdateStep(d, t, k, v)) /\ Updated(d, t, k, v, UpdateStep(d, t, k, v))
<1> DEFINE e == d.entry
           tb == d.table[t]
           top == tb.top
           j == tableGetEntry(tb, k)
           i == tb.hash[j].dbind
           d2 == UpdateStep(d, t, k, v)
<1>1. OnChain(tb.hash, c[t], j, k) /\ i \in Mine(e, o, t) \ {top}
  BY EntryFound
<1>2. /\ d \in DBType /\ Pool(e, o) /\ Ranked(e, o, t, top) /\ top \in Mine(e, o, t)
      /\ e[top].ivalue = Above /\ tb \in TableType /\ i \in DOMAIN e /\ e \in Seq(Node)
  BY <1>1 DEF Sound, Owned, Mine, Used, Pool
<1>3. \E e2 : Revised(e, o, t, top, i, v, e2) /\ Renewed(d, t, e2, tb, d2)
  <2>1. CASE t \in IntTables
    <3> DEFINE e2 == Moved(e, i, v)
    <3>1. d2 = [d EXCEPT !.entry = e2, !.table[t] = [tb EXCEPT !.updated = TRUE]]
      BY <2>1 DEF UpdateStep, IntStep
    <3> HIDE DEF e, tb, top, j, i, d2
    <3>2. Revised(e, o, t, top, i, v, e2)
      BY <1>1, <1>2, MovedFacts
    <3> HIDE DEF e2
    <3>3. e2 \in Seq(Node)
      BY <3>2 DEF Revised, Pool
    <3>4. Renewed(d, t, e2, tb, d2)
      BY <1>2, <3>1, <3>3, RenewedFacts
    <3> QED BY <3>2, <3>4
  <2>2. CASE t \notin IntTables
    <3> DEFINE e2 == [e EXCEPT ![i].ivalue = v]
    <3>1. d2 = [d EXCEPT !.entry = e2, !.table[t] = [tb EXCEPT !.updated = TRUE]]
      BY <2>2 DEF UpdateStep, StringStep
    <3> HIDE DEF e, tb, top, j, i, d2
    <3>2. SetValue(e, i, v, e2)
      BY <1>2, SetValueFacts
    <3> HIDE DEF e2
    <3>3. Revalued(e, o, t, i, v, e2)
      BY <1>1, <1>2, <3>2, Revalue
    <3>4. Revised(e, o, t, top, i, v, e2)
      BY <1>1, <1>2, <2>2, <3>3, RevisedInPlace
    <3>5. e2 \in Seq(Node)
      BY <3>2 DEF SetValue
    <3>6. Renewed(d, t, e2, tb, d2)
      BY <1>2, <3>1, <3>5, RenewedFacts
    <3> QED BY <3>4, <3>6
  <2> QED BY <2>1, <2>2
<1>4. PICK e2 : Revised(e, o, t, top, i, v, e2) /\ Renewed(d, t, e2, tb, d2)
  BY <1>3
<1> HIDE DEF d2, j, i
<1>5. DbOK(d2) /\ Updated(d, t, k, v, d2)
  BY Zenon, <1>1, <1>4, UpdateOld DEF i
<1> QED BY <1>5 DEF d2

(* An update keeps the memory sound and does what it promises.           *)
LEMMA UpdateFacts ==
  ASSUME NEW d, DbOK(d), NEW t \in Tables, NEW k \in Keys, NEW v \in Values
  PROVE  DbOK(Update(d, t, k, v)) /\ Updated(d, t, k, v, Update(d, t, k, v))
<1> DEFINE d1 == dbGetTableIndex(d, t)
           d2 == UpdateStep(d1, t, k, v)
<1>1. PICK o, c : Sound(d, o, c)
  BY DEF DbOK
<1>2. PICK o1, c1 : Sound(d1, o1, c1) /\ Created(d, o, t, d1, o1)
  BY <1>1, CreateFacts
<1> HIDE DEF d1
<1>3. d1.table[t].top # Nil
  BY <1>2 DEF Created
<1>4. DbOK(d2) /\ Updated(d1, t, k, v, d2)
  BY <1>2, <1>3, UpdateStepNew, UpdateStepOld
<1> HIDE DEF d2
<1>5. Updated(d, t, k, v, d2)
  BY <1>1, <1>2, <1>4, UpdatedCreated
<1>6. Update(d, t, k, v) = d2
  BY UpdateSteps DEF d1, d2
<1> QED BY <1>4, <1>5, <1>6

(* What a deletion does.                                                 *)
Dropped(d, t, k, d2) ==
  /\ Elsewhere(d, t, d2)
  /\ Get(d, t, k) = Absent => \A x \in Keys : Get(d2, t, x) = Get(d, t, x)
  /\ Get(d, t, k) # Absent =>
       /\ Get(d2, t, k) = Absent /\ d.table[t].top # Nil
       /\ \A x \in Keys \ {k} : Get(d2, t, x) = IF Hash[x] = tableGetEntry(d.table[t], k)
                                                THEN Absent ELSE Get(d, t, x)

DeleteStep(d, t, k) ==
  LET h == tableGetEntry(d.table[t], k)
  IN  IF h = Nil THEN d
      ELSE [d EXCEPT !.entry = dbReleaseNode(@, d.table[t].hash[h].dbind),
                     !.table[t] = [tableReleaseNode(@, h) EXCEPT !.updated = TRUE]]

(* A key that is in the table is deleted.                                *)
LEMMA DeleteFound ==
  ASSUME NEW d, NEW o, NEW c, Sound(d, o, c), NEW t \in Tables, NEW k \in Keys,
         d.table[t].top # Nil, tableGetEntry(d.table[t], k) # Nil
  PROVE  \E c2 : /\ Sound(DeleteStep(d, t, k), o, c2)
                 /\ Deleted(d, o, t, k, DeleteStep(d, t, k))
<1> DEFINE e == d.entry
           tb == d.table[t]
           j == tableGetEntry(tb, k)
           i == tb.hash[j].dbind
           d2 == DeleteStep(d, t, k)
           e2 == Freed(e, i, NoEntry)
           tb2 == tableReleaseNode(tb, j)
<1>1. OnChain(tb.hash, c[t], j, k)
  BY EntryFound
<1>2. d \in DBType
  BY DEF Sound
<1>3. d2 = [d EXCEPT !.entry = e2, !.table[t] = [tb2 EXCEPT !.updated = TRUE]]
  BY DEF DeleteStep, dbReleaseNode
<1> HIDE DEF tb2, e2, j, i, d2
<1>4. e2 \in Seq(Node) /\ tb2 \in TableType => Renewed(d, t, e2, tb2, d2)
  BY <1>2, <1>3, RenewedFacts
<1>5. \E c2 : Sound(d2, o, c2) /\ Deleted(d, o, t, k, d2)
  BY Zenon, <1>1, <1>4, DeleteFacts DEF i, tb2, e2
<1> QED BY <1>5 DEF d2

(* A deletion keeps the memory sound and does what it promises.          *)
LEMMA DropFacts ==
  ASSUME NEW d, DbOK(d), NEW t \in Tables, NEW k \in Keys
  PROVE  DbOK(dbDeleteEntry(d, t, k)) /\ Dropped(d, t, k, dbDeleteEntry(d, t, k))
<1> DEFINE d1 == dbGetTableIndex(d, t)
           d2 == DeleteStep(d1, t, k)
<1>1. PICK o, c : Sound(d, o, c)
  BY DEF DbOK
<1>2. PICK o1, c1 : Sound(d1, o1, c1) /\ Created(d, o, t, d1, o1)
  BY <1>1, CreateFacts
<1>3. dbDeleteEntry(d, t, k) = d2
  BY DEF dbDeleteEntry, DeleteStep
<1> HIDE DEF d1
<1>4. d1.table[t].top # Nil /\ \A x \in Keys : Get(d1, t, x) = Get(d, t, x)
  BY <1>2 DEF Created
<1>5. Elsewhere(d, t, d1)
  BY <1>1, <1>2, ElsewhereFacts DEF Created
<1>6. CASE tableGetEntry(d1.table[t], k) = Nil
  <2>1. d2 = d1
    BY <1>6 DEF DeleteStep
  <2>2. Get(d1, t, k) = Absent
    <3>1. \A j : ~OnChain(d1.table[t].hash, c1[t], j, k)
      BY <1>2, <1>4, <1>6, EntryFound
    <3> QED BY <1>2, <1>4, <3>1, GetFacts DEF Reads
  <2> QED BY <1>2, <1>3, <1>4, <1>5, <2>1, <2>2 DEF Dropped, DbOK
<1>7. CASE tableGetEntry(d1.table[t], k) # Nil
  <2>1. PICK c2 : Sound(d2, o1, c2) /\ Deleted(d1, o1, t, k, d2)
    BY <1>2, <1>4, <1>7, DeleteFound
  <2> HIDE DEF d2
  <2>2. Get(d1, t, k) # Absent
    <3>1. PICK j : OnChain(d1.table[t].hash, c1[t], j, k)
      BY <1>2, <1>4, <1>7, EntryFound
    <3>2. Get(d1, t, k) \in Values
      BY Zenon, <1>2, <1>4, <3>1, GetFacts DEF Reads
    <3> QED BY <3>2, AboveFacts
  <2>3. d.table[t].top # Nil /\ d1 = d
    <3>1. ASSUME d.table[t].top = Nil PROVE FALSE
      <4>1. Get(d, t, k) = Absent
        BY <3>1 DEF Get
      <4> QED BY <1>4, <2>2, <4>1
    <3> QED BY <1>2, <3>1 DEF Created
  <2>4. Elsewhere(d, t, d2)
    BY <1>2, <2>1, <2>3, ElsewhereFacts DEF Deleted
  <2>5. Dropped(d, t, k, d2)
    BY <2>1, <2>2, <2>3, <2>4 DEF Dropped, Deleted
  <2> QED BY <1>3, <2>1, <2>5 DEF DbOK
<1> QED BY <1>6, <1>7

(* Creating a table changes nothing that is read.                        *)
SameContents(d, d2) ==
  \A x \in Tables : /\ Lines(d2, x) = Lines(d, x)
                    /\ \A k \in Keys : Get(d2, x, k) = Get(d, x, k)

(* A query that creates the table changes nothing that is read.          *)
LEMMA QueryFacts ==
  ASSUME NEW d, DbOK(d), NEW t \in Tables
  PROVE  DbOK(dbGetTableIndex(d, t)) /\ SameContents(d, dbGetTableIndex(d, t))
<1> DEFINE d1 == dbGetTableIndex(d, t)
<1>1. PICK o, c : Sound(d, o, c)
  BY DEF DbOK
<1>2. PICK o1, c1 : Sound(d1, o1, c1) /\ Created(d, o, t, d1, o1)
  BY <1>1, CreateFacts
<1> HIDE DEF d1
<1>3. Lines(d1, t) = Lines(d, t) /\ \A x \in Keys : Get(d1, t, x) = Get(d, t, x)
  BY <1>1, <1>2, CreateLines DEF Created
<1>4. Elsewhere(d, t, d1)
  BY <1>1, <1>2, ElsewhereFacts DEF Created
<1> QED BY <1>2, <1>3, <1>4 DEF Elsewhere, SameContents, DbOK, d1

(* That a table is no longer marked as updated changes nothing that is   *)
(* read.                                                                 *)
LEMMA FlushFacts ==
  ASSUME NEW d, DbOK(d), NEW failed,
         NEW d2, d2 = [d EXCEPT !.table = [t \in Tables |->
                         IF t \in failed THEN @[t] ELSE [@[t] EXCEPT !.updated = FALSE]]]
  PROVE  DbOK(d2) /\ SameContents(d, d2)
<1>1. PICK o, c : Sound(d, o, c)
  BY DEF DbOK
<1>2. d \in DBType
  BY <1>1 DEF Sound
<1>3. /\ d2.entry = d.entry /\ d2.finder = d.finder
      /\ d2.table = [t \in Tables |-> IF t \in failed THEN d.table[t]
                                      ELSE [d.table[t] EXCEPT !.updated = FALSE]]
      /\ d2 = [entry |-> d2.entry, finder |-> d2.finder, table |-> d2.table]
  BY Zenon, <1>2 DEF DBType
<1>4. ASSUME NEW t \in Tables
      PROVE  /\ d2.table[t] \in TableType
             /\ d2.table[t].top = d.table[t].top /\ d2.table[t].hash = d.table[t].hash
  <2> DEFINE tb == d.table[t]
             u == [tb EXCEPT !.updated = FALSE]
  <2>1. tb \in TableType
    BY <1>2 DEF DBType
  <2> HIDE DEF tb
  <2>2. u \in TableType /\ u.top = tb.top /\ u.hash = tb.hash
    BY Zenon, <2>1 DEF TableType
  <2>3. d2.table[t] = tb \/ d2.table[t] = u
    BY <1>3 DEF tb
  <2> HIDE DEF u
  <2>4. /\ d2.table[t] \in TableType
        /\ d2.table[t].top = tb.top /\ d2.table[t].hash = tb.hash
    BY Zenon, <2>1, <2>2, <2>3
  <2> QED BY <2>4 DEF tb
<1>5. d2 \in DBType
  <2>1. d2.table \in [Tables -> TableType]
    BY <1>3, <1>4
  <2>2. d2.entry \in Seq(Node) /\ d2.finder \in Nat
    BY <1>2, <1>3 DEF DBType
  <2> QED BY Zenon, <1>3, <2>1, <2>2 DEF DBType
<1>6. Sound(d2, o, c)
  <2>1. ASSUME NEW t \in Tables PROVE Owned(d2.entry, o, t, d2.table[t], c[t])
    <3>1. Owned(d.entry, o, t, d.table[t], c[t])
      BY <1>1 DEF Sound
    <3> DEFINE tb == d.table[t]
               tb2 == d2.table[t]
               e == d.entry
    <3>2. tb2 \in TableType /\ tb2.top = tb.top /\ tb2.hash = tb.hash
      BY <1>4
    <3> HIDE DEF tb, tb2, e
    <3>3. Owned(e, o, t, tb, c[t])
      BY <3>1 DEF e, tb
    <3>4. Ranked(e, o, t, tb2.top) /\ Joined(e, o, t, tb2)
      BY <3>2, <3>3 DEF Owned, Joined
    <3>5. Owned(e, o, t, tb2, c[t])
      BY <3>2, <3>3, <3>4 DEF Owned
    <3> QED BY <1>3, <3>5 DEF e, tb2
  <2> QED BY <1>1, <1>3, <1>5, <2>1 DEF Sound
<1>7. ASSUME NEW x \in Tables
      PROVE  Lines(d2, x) = Lines(d, x) /\ \A k \in Keys : Get(d2, x, k) = Get(d, x, k)
  <2>1. Listing(d2, x) = Listing(d, x)
    <3> DEFINE F(e, top) ==
                 LET from[i \in {Nil} \union DOMAIN e] ==
                       IF i = Nil THEN <<>> ELSE <<i>> \o from[e[i].next]
                 IN  IF top = Nil THEN <<>> ELSE Tail(from[top])
    <3>1. /\ Listing(d2, x) = F(d2.entry, d2.table[x].top)
          /\ Listing(d, x) = F(d.entry, d.table[x].top)
      BY DEF Listing
    <3>2. d2.entry = d.entry /\ d2.table[x].top = d.table[x].top
      BY <1>3, <1>4
    <3> HIDE DEF F
    <3> QED BY <3>1, <3>2
  <2>2. \A k \in Keys : tableGetEntry(d2.table[x], k) = tableGetEntry(d.table[x], k)
    BY <1>4 DEF tableGetEntry
  <2>3. Lines(d2, x) = Lines(d, x)
    <3> DEFINE F(e, l) == [i \in DOMAIN l |-> <<e[l[i]].key, e[l[i]].ivalue>>]
    <3>1. Lines(d2, x) = F(d2.entry, Listing(d2, x)) /\ Lines(d, x) = F(d.entry, Listing(d, x))
      BY DEF Lines
    <3> HIDE DEF F
    <3> QED BY <1>3, <2>1, <3>1
  <2>4. ASSUME NEW k \in Keys PROVE Get(d2, x, k) = Get(d, x, k)
    <3> DEFINE G(e, top, hash, h) == IF top = Nil THEN Absent
                                     ELSE IF h = Nil THEN Absent ELSE e[hash[h].dbind].ivalue
    <3>1. /\ Get(d2, x, k) = G(d2.entry, d2.table[x].top, d2.table[x].hash,
                               tableGetEntry(d2.table[x], k))
          /\ Get(d, x, k) = G(d.entry, d.table[x].top, d.table[x].hash,
                              tableGetEntry(d.table[x], k))
      BY DEF Get
    <3> HIDE DEF G
    <3> QED BY <1>3, <1>4, <2>2, <3>1
  <2> QED BY <2>3, <2>4
<1> QED BY Zenon, <1>6, <1>7 DEF DbOK, SameContents
-----------------------------------------------------------------------------
(* The pool is shared without loss.                                      *)

(* Two sets that f matches have as many members.                         *)
Matches(S, T, f) ==
  /\ \A x \in S : f[x] \in T
  /\ \A x, y \in S : f[x] = f[y] => x = y
  /\ \A y \in T : \E x \in S : f[x] = y

(* Counted through the bijection.                                        *)
LEMMA SameSize ==
  ASSUME NEW S, NEW T, NEW f, Matches(S, T, f), IsFiniteSet(S)
  PROVE  IsFiniteSet(T) /\ Cardinality(T) = Cardinality(S)
<1> DEFINE g == [x \in S |-> f[x]]
<1>1. g \in Bijection(S, T)
  BY DEF Matches, Bijection, Injection, Surjection, IsInjective
<1>2. ExistsBijection(S, T)
  BY <1>1 DEF ExistsBijection
<1> QED BY <1>2, FS_Bijection

(* The nodes of a table but its top node.                                *)
Body(d, o, t) == Mine(d.entry, o, t) \ {d.table[t].top}

(* The listing matches its positions with the nodes of the table.        *)
LEMMA ListedNodes ==
  ASSUME NEW d, NEW o, NEW c, Sound(d, o, c), NEW t \in Tables
  PROVE  /\ Matches(1 .. Len(Listing(d, t)), Body(d, o, t), Listing(d, t))
         /\ DOMAIN Listing(d, t) = 1 .. Len(Listing(d, t)) /\ Len(Listing(d, t)) \in Nat
<1> DEFINE l == Listing(d, t)
           top == d.table[t].top
<1>1. CASE top = Nil
  <2>1. l = <<>>
    BY <1>1, NoLines
  <2>2. Mine(d.entry, o, t) = {}
    BY <1>1 DEF Sound, Owned
  <2>3. Len(l) = 0 /\ DOMAIN l = {} /\ 1 .. 0 = {}
    BY <2>1
  <2> HIDE DEF l
  <2> QED BY <2>2, <2>3 DEF Matches, Body, l
<1>2. CASE top # Nil
  <2>1. PICK p : Listed(d, o, t, p)
    BY <1>2, HasPath
  <2>2. /\ Len(p) \in Nat \ {0} /\ l \in Seq(Nat) /\ Len(l) = Len(p) - 1
        /\ \A m \in 1 .. Len(p) - 1 : l[m] = p[m + 1]
    BY <2>1 DEF Listed, Ordered
  <2>3. DOMAIN l = 1 .. Len(l) /\ Len(l) \in Nat
    BY <2>2
  <2> HIDE DEF l
  <2>4. \A m \in 1 .. Len(l) : m + 1 \in 1 .. Len(p) /\ m + 1 # 1 /\ l[m] = p[m + 1]
    BY <2>2
  <2>5. \A m \in 1 .. Len(l) : l[m] \in Body(d, o, t)
    <3>1. \A n \in 1 .. Len(p) : n # 1 => p[n] \in Mine(d.entry, o, t) /\ p[n] # top
      BY <2>1 DEF Listed, Ordered
    <3> QED BY <2>4, <3>1 DEF Body
  <2>6. ASSUME NEW m \in 1 .. Len(l), NEW n \in 1 .. Len(l), l[m] = l[n] PROVE m = n
    <3>1. p[m + 1] = p[n + 1] /\ m + 1 \in 1 .. Len(p) /\ n + 1 \in 1 .. Len(p)
      BY <2>4, <2>6
    <3>2. m + 1 = n + 1
      BY Zenon, <2>1, <3>1 DEF Listed, Ordered
    <3> QED BY <2>3, <3>2
  <2>7. ASSUME NEW i \in Body(d, o, t) PROVE \E m \in 1 .. Len(l) : l[m] = i
    <3>1. i \in Mine(d.entry, o, t) /\ i # top
      BY DEF Body
    <3>2. PICK m \in 1 .. Len(p) : p[m] = i
      BY <2>1, <3>1 DEF Listed, Ordered
    <3>3. m # 1
      BY Zenon, <2>1, <3>1, <3>2 DEF Listed, Ordered
    <3>4. m - 1 \in 1 .. Len(l) /\ (m - 1) + 1 = m
      BY <2>2, <3>3
    <3>5. l[m - 1] = i
      BY <2>4, <3>2, <3>4
    <3> QED BY <3>4, <3>5
  <2>8. Matches(1 .. Len(l), Body(d, o, t), l)
    BY <2>5, <2>6, <2>7 DEF Matches
  <2> QED BY <2>3, <2>8 DEF l
<1> QED BY <1>1, <1>2

(* The hash entries of a table are as many as its lines.                 *)
LEMMA HashSize ==
  ASSUME NEW d, NEW o, NEW c, Sound(d, o, c), NEW t \in Tables
  PROVE  Cardinality(Used(d.table[t].hash)) = Len(Listing(d, t))
<1> DEFINE h == d.table[t].hash
           U == Used(h)
           B == Body(d, o, t)
           n == Len(Listing(d, t))
           f == [j \in U |-> h[j].dbind]
<1>1. h \in Seq(Hashed) /\ Joined(d.entry, o, t, d.table[t])
  BY DEF Sound, Owned, TableType
<1>2. Matches(1 .. n, B, Listing(d, t)) /\ n \in Nat
  BY ListedNodes
<1>3. Matches(U, B, f)
  BY <1>1 DEF Joined, Matches, Body
<1>4. IsFiniteSet(1 .. n) /\ Cardinality(1 .. n) = n
  <2> HIDE DEF n
  <2>1. n \in Nat
    BY <1>2
  <2>2. IsFiniteSet(1 .. n) /\ Cardinality(1 .. n) = IF 1 > n THEN 0 ELSE n - 1 + 1
    BY <2>1, FS_Interval
  <2> QED BY <2>1, <2>2
<1>5. IsFiniteSet(U)
  <2>1. U \subseteq 1 .. Len(h) /\ Len(h) \in Nat
    BY <1>1 DEF Used
  <2>2. IsFiniteSet(1 .. Len(h))
    BY <2>1, FS_Interval
  <2> HIDE DEF U
  <2> QED BY Zenon, <2>1, <2>2, FS_Subset
<1> HIDE DEF U, B, f, n
<1>6. IsFiniteSet(B) /\ Cardinality(B) = n
  BY <1>2, <1>4, SameSize
<1>7. Cardinality(B) = Cardinality(U)
  BY <1>3, <1>5, SameSize
<1> QED BY <1>6, <1>7 DEF U, n

(* The nodes in use are those of the lists and the top nodes.            *)
LEMMA PoolSize ==
  ASSUME NEW d, NEW o, NEW c, Sound(d, o, c)
  PROVE  Cardinality(Used(d.entry)) =
           Cardinality(UNION {Body(d, o, t) : t \in Tables})
             + Cardinality({t \in Tables : d.table[t].top # Nil})
<1> DEFINE e == d.entry
           L == UNION {Body(d, o, t) : t \in Tables}
           H == {t \in Tables : d.table[t].top # Nil}
           T == {d.table[t].top : t \in H}
           f == [t \in H |-> d.table[t].top]
<1>1. Pool(e, o) /\ \A t \in Tables : Owned(e, o, t, d.table[t], c[t])
  BY DEF Sound
<1>2. \A t \in H : d.table[t].top \in Mine(e, o, t)
  BY <1>1 DEF Owned
<1>3. \A t \in Tables \ H : Mine(e, o, t) = {}
  BY <1>1 DEF Owned
<1>4. Used(e) = L \union T
  <2>1. ASSUME NEW i \in Used(e) PROVE i \in L \union T
    <3>1. o[i] \in Tables /\ i \in Mine(e, o, o[i])
      BY <1>1 DEF Pool, Mine
    <3>2. o[i] \in H
      BY <1>3, <3>1
    <3> QED BY <3>1, <3>2 DEF Body
  <2>2. ASSUME NEW i \in L PROVE i \in Used(e)
    BY DEF Body, Mine
  <2>3. ASSUME NEW i \in T PROVE i \in Used(e)
    BY <1>2 DEF Mine
  <2> QED BY <2>1, <2>2, <2>3
<1>5. L \cap T = {}
  <2>1. ASSUME NEW i \in L, i \in T PROVE FALSE
    <3>1. PICK t \in Tables : i \in Mine(e, o, t) /\ i # d.table[t].top
      BY DEF Body
    <3>2. PICK x \in H : i = d.table[x].top
      BY <2>1
    <3>3. o[i] = t /\ o[i] = x
      BY <1>2, <3>1, <3>2 DEF Mine
    <3> QED BY <3>1, <3>2, <3>3
  <2> QED BY <2>1
<1>6. IsFiniteSet(Used(e))
  <2>1. Used(e) \subseteq 1 .. Len(e) /\ Len(e) \in Nat
    BY <1>1, PoolFacts
  <2>2. IsFiniteSet(1 .. Len(e))
    BY <2>1, FS_Interval
  <2> QED BY <2>1, <2>2, FS_Subset
<1>7. IsFiniteSet(H)
  BY RankDBAssumption, FS_Subset DEF Tables
<1>8. Matches(H, T, f)
  <2>1. ASSUME NEW x \in H, NEW y \in H, f[x] = f[y] PROVE x = y
    <3>1. o[d.table[x].top] = x /\ o[d.table[y].top] = y
      BY <1>2 DEF Mine
    <3> QED BY <2>1, <3>1
  <2> QED BY Zenon, <2>1 DEF Matches
<1> HIDE DEF L, H, T, f, e
<1>9. IsFiniteSet(T) /\ Cardinality(T) = Cardinality(H)
  BY <1>7, <1>8, SameSize
<1>10. IsFiniteSet(L)
  <2>1. L \in SUBSET Used(e)
    BY <1>4
  <2> QED BY <1>6, <2>1, FS_Subset
<1>11. Cardinality(L) \in Nat /\ Cardinality(T) \in Nat
  BY <1>9, <1>10, FS_CardinalityType
<1>12. Cardinality(Used(e)) = Cardinality(L) + Cardinality(T) - Cardinality(L \cap T)
  BY <1>4, <1>9, <1>10, FS_Union
<1>13. Cardinality(L \cap T) = 0
  BY <1>5, FS_EmptySet
<1>14. Cardinality(Used(e)) = Cardinality(L) + Cardinality(H)
  BY <1>9, <1>11, <1>12, <1>13
<1> QED BY <1>14 DEF L, H, e

(* Every memory that is sound keeps the pool consistent.                 *)
LEMMA SoundConsistent ==
  ASSUME DbOK(db)
  PROVE  PoolConsistent
<1>1. PICK o, c : Sound(db, o, c)
  BY DEF DbOK
<1> DEFINE e == db.entry
<1>2. \A t \in Tables : Owned(e, o, t, db.table[t], c[t])
  BY <1>1 DEF Sound
<1>3. Pool(e, o)
  BY <1>1 DEF Sound
<1>4. ASSUME NEW t \in Tables PROVE Live(t) = Body(db, o, t)
  <2> DEFINE l == Listing(db, t)
  <2>1. Matches(1 .. Len(l), Body(db, o, t), l) /\ DOMAIN l = 1 .. Len(l)
    BY <1>1, ListedNodes
  <2>2. Body(db, o, t) \subseteq DOMAIN e
    BY DEF Body, Mine, Used
  <2> HIDE DEF l
  <2> QED BY <2>1, <2>2 DEF Live, Matches, l
<1>5. ASSUME NEW t \in Tables, NEW i \in DOMAIN Listing(db, t)
      PROVE  LET l == Listing(db, t) IN
             /\ e[l[i]].use
             /\ e[l[i]].prev = IF i = 1 THEN db.table[t].top ELSE l[i - 1]
  <2> DEFINE l == Listing(db, t)
             top == db.table[t].top
  <2>1. top # Nil
    <3>1. ASSUME top = Nil PROVE FALSE
      <4>1. l = <<>>
        BY <1>1, <3>1, NoLines
      <4> QED BY <4>1
    <3> QED BY <3>1
  <2>2. PICK p : Listed(db, o, t, p)
    BY <1>1, <2>1, HasPath
  <2>3. /\ Len(p) \in Nat \ {0} /\ l \in Seq(Nat) /\ Len(l) = Len(p) - 1
        /\ \A m \in 1 .. Len(p) - 1 : l[m] = p[m + 1]
    BY <2>2 DEF Listed, Ordered
  <2>4. i \in 1 .. Len(p) - 1
    BY <2>3
  <2>5. i + 1 \in 1 .. Len(p) /\ i + 1 # 1 /\ (i + 1) - 1 = i
    BY <2>3, <2>4
  <2>6. l[i] = p[i + 1] /\ p[i + 1] \in Mine(e, o, t) /\ e[p[i + 1]].prev = p[i]
    <3>1. \A n \in 1 .. Len(p) : n # 1 => p[n] \in Mine(e, o, t) /\ e[p[n]].prev = p[n - 1]
      BY <2>2 DEF Listed, Ordered
    <3> QED BY Zenon, <2>3, <2>4, <2>5, <3>1
  <2>7. p[1] = top
    BY <2>2 DEF Listed, Ordered, Path
  <2>8. i # 1 => l[i - 1] = p[i]
    <3>1. ASSUME i # 1 PROVE i - 1 \in 1 .. Len(p) - 1 /\ (i - 1) + 1 = i
      BY <2>3, <2>4, <3>1
    <3> QED BY Zenon, <2>3, <3>1
  <2>9. e[l[i]].use
    BY <2>6 DEF Mine, Used
  <2> HIDE DEF l, top, e
  <2> QED BY <2>6, <2>7, <2>8, <2>9 DEF l, top
<1>6. ASSUME NEW t \in Tables, NEW n \in Live(t)
      PROVE  \E i \in DOMAIN db.table[t].hash :
               /\ db.table[t].hash[i].use /\ db.table[t].hash[i].dbind = n
               /\ db.table[t].hash[i].key = e[n].key
  <2>1. n \in Mine(e, o, t) \ {db.table[t].top}
    BY <1>4 DEF Body
  <2>2. PICK i \in Used(db.table[t].hash) : db.table[t].hash[i].dbind = n
    BY <1>2, <2>1 DEF Owned, Joined
  <2>3. e[n].key = db.table[t].hash[i].key
    BY <1>2, <2>2 DEF Owned, Joined
  <2> QED BY <2>2, <2>3 DEF Used
<1>7. ASSUME NEW t \in Tables
      PROVE  Cardinality({i \in DOMAIN db.table[t].hash : db.table[t].hash[i].use})
               = Len(Listing(db, t))
  BY <1>1, HashSize DEF Used
<1>8. Cardinality({i \in DOMAIN e : e[i].use}) =
        Cardinality(UNION {Live(t) : t \in Tables})
          + Cardinality({t \in Tables : db.table[t].top # Nil})
  <2>1. Cardinality(Used(e)) =
          Cardinality(UNION {Body(db, o, t) : t \in Tables})
             + Cardinality({t \in Tables : db.table[t].top # Nil})
    BY <1>1, PoolSize
  <2>2. UNION {Body(db, o, t) : t \in Tables} = UNION {Live(t) : t \in Tables}
    BY <1>4
  <2> QED BY Zenon, <2>1, <2>2 DEF Used
<1> HIDE DEF e
<1> QED BY <1>5, <1>6, <1>7, <1>8 DEF PoolConsistent, e
-----------------------------------------------------------------------------
(* Ranks.                                                                *)

(* The run of equal values of line i, and its first line.                *)
RunOf(l, i, run, r) ==
  /\ run = {x \in 1 .. i : \A j \in x .. i : l[j][2] = l[i][2]}
  /\ r = CHOOSE x \in run : \A y \in run : x <= y

(* In a list whose values never rise, the values above that of line i    *)
(* are those of the lines in front of its run of equal values.           *)
LEMMA RunRank ==
  ASSUME NEW l \in Seq(Keys \X Values), Falling(l), NEW i \in DOMAIN l,
         NEW run, NEW r, RunOf(l, i, run, r)
  PROVE  r - 1 = Cardinality({j \in DOMAIN l : l[j][2] > l[i][2]})
<1>0. \A x : x \in run <=> x \in 1 .. i /\ \A j \in x .. i : l[j][2] = l[i][2]
  BY DEF RunOf
<1>1. Len(l) \in Nat /\ DOMAIN l = 1 .. Len(l) /\ i \in Nat /\ i \in 1 .. Len(l)
  OBVIOUS
<1>2. \A j \in 1 .. Len(l) : l[j][2] \in Nat
  <2>1. \A j \in 1 .. Len(l) : l[j] \in Keys \X Values
    OBVIOUS
  <2> QED BY Zenon, <2>1, AboveFacts
<1>3. r \in run /\ \A y \in run : r <= y
  <2>1. run \subseteq Nat
    BY <1>0
  <2>2. i \in run
    BY <1>0, <1>1
  <2>3. \E x \in run : \A y \in run : x <= y
    BY Zenon, <2>1, <2>2, LeastNat
  <2> QED BY Zenon, <2>3 DEF RunOf
<1>4. r \in 1 .. i /\ r \in Nat /\ r \in 1 .. Len(l) /\ l[r][2] = l[i][2]
  <2>1. r \in 1 .. i /\ \A j \in r .. i : l[j][2] = l[i][2]
    BY <1>0, <1>3
  <2>2. r \in Nat /\ r \in r .. i /\ r \in 1 .. Len(l)
    BY <1>1, <2>1
  <2> QED BY <2>1, <2>2
<1>5. ASSUME NEW j \in DOMAIN l, l[j][2] > l[i][2] PROVE j \in 1 .. r - 1
  <2>1. ASSUME ~(j <= r - 1) PROVE FALSE
    <3>1. r <= j
      BY <1>1, <1>4, <2>1
    <3>2. l[j][2] <= l[r][2]
      BY <1>1, <1>4, <3>1 DEF Falling
    <3> QED BY <1>1, <1>2, <1>4, <1>5, <3>2
  <2> QED BY <1>1, <1>4, <2>1
<1>6. ASSUME NEW j \in 1 .. r - 1 PROVE j \in DOMAIN l /\ l[j][2] > l[i][2]
  <2>1. j \in 1 .. Len(l) /\ r - 1 \in 1 .. i /\ r - 1 \in 1 .. Len(l) /\ j <= r - 1 /\ j \in Nat
    BY <1>1, <1>4
  <2>2. l[i][2] <= l[r - 1][2]
    <3>1. r - 1 <= i
      BY <2>1
    <3> QED BY <1>1, <2>1, <3>1 DEF Falling
  <2>3. l[r - 1][2] # l[i][2]
    <3>1. ASSUME l[r - 1][2] = l[i][2] PROVE FALSE
      <4>1. ASSUME NEW x \in r - 1 .. i PROVE l[x][2] = l[i][2]
        <5>1. x = r - 1 \/ x \in r .. i
          <6>1. x \in Int /\ r - 1 <= x /\ x <= i /\ r \in Nat
            BY <1>1, <1>4
          <6> QED BY <1>1, <6>1
        <5>2. \A y \in r .. i : l[y][2] = l[i][2]
          BY <1>0, <1>3
        <5> QED BY <3>1, <5>1, <5>2
      <4>2. r - 1 \in run
        BY <1>0, <2>1, <4>1
      <4>3. ~(r <= r - 1)
        BY <1>4
      <4> QED BY <1>3, <4>2, <4>3
    <3> QED BY <3>1
  <2>4. l[r - 1][2] <= l[j][2]
    BY Zenon, <1>1, <2>1 DEF Falling
  <2> QED BY <1>1, <1>2, <2>1, <2>2, <2>3, <2>4
<1>7. {j \in DOMAIN l : l[j][2] > l[i][2]} = 1 .. r - 1
  BY <1>5, <1>6
<1>8. Cardinality(1 .. r - 1) = r - 1
  <2>1. r - 1 \in Int /\ ~(1 > r)
    BY <1>4
  <2> DEFINE n == r - 1
  <2>2. n \in Int /\ n \in Nat
    BY <1>4
  <2> HIDE DEF n
  <2>3. Cardinality(1 .. n) = IF 1 > n THEN 0 ELSE n - 1 + 1
    BY <2>2, FS_Interval
  <2>4. Cardinality(1 .. n) = n
    BY <2>2, <2>3
  <2> QED BY <2>4 DEF n
<1> QED BY Zenon, <1>7, <1>8

(* dbGetEntryRank counts the entries with a larger value.                *)
LEMMA SoundRanks ==
  ASSUME DbOK(db)
  PROVE  RankIsCountAbove
<1>1. PICK o, c : Sound(db, o, c)
  BY DEF DbOK
<1>2. ASSUME NEW t \in IntTables
      PROVE  Lines(db, t) \in Seq(Keys \X Values) /\ Falling(Lines(db, t))
  <2>0. t \in Tables
    BY DEF Tables
  <2>1. Falling(Lines(db, t))
    BY <1>1, LinesFalling
  <2>2. CASE db.table[t].top = Nil
    <3>1. Lines(db, t) = <<>>
      BY <1>1, <2>0, <2>2, NoLines
    <3> QED BY <2>1, <3>1
  <2>3. CASE db.table[t].top # Nil
    <3>1. Lines(db, t) \in Seq(Keys \X Values)
      BY <1>1, <2>0, <2>3, HasPath DEF Listed
    <3> QED BY <2>1, <3>1
  <2> QED BY <2>2, <2>3
<1>3. ASSUME NEW t \in IntTables, NEW l, l = Lines(db, t), NEW i \in DOMAIN l,
             \A j \in 1 .. i - 1 : l[j][1] # l[i][1]
      PROVE  dbGetEntryRank(db, t, l[i][1]) = Cardinality({j \in DOMAIN l : l[j][2] > l[i][2]})
  <2> DEFINE k == l[i][1]
             P(x) == x \in DOMAIN l /\ l[x][1] = k /\ \A j \in 1 .. x - 1 : l[j][1] # k
             at == CHOOSE x \in DOMAIN l : l[x][1] = k /\ \A j \in 1 .. x - 1 : l[j][1] # k
             run == {x \in 1 .. i : \A j \in x .. i : l[j][2] = l[i][2]}
             r == CHOOSE x \in run : \A y \in run : x <= y
  <2>1. l \in Seq(Keys \X Values) /\ Falling(l)
    BY <1>2, <1>3
  <2>2. ASSUME NEW x, P(x) PROVE x = i
    <3>1. x \in Nat /\ i \in Nat /\ x >= 1 /\ i >= 1
      BY <2>1, <2>2
    <3>2. ~(x < i)
      <4>1. x < i => x \in 1 .. i - 1
        BY <3>1
      <4> QED BY <1>3, <2>2, <4>1
    <3>3. ~(i < x)
      <4>1. i < x => i \in 1 .. x - 1
        BY <3>1
      <4> QED BY <2>2, <4>1
    <3> QED BY <3>1, <3>2, <3>3
  <2>3. P(i)
    BY <1>3
  <2>4. at = i
    <3>1. P(at)
      BY <2>3
    <3> HIDE DEF P, at
    <3> QED BY <2>2, <3>1
  <2>5. dbGetEntryRank(db, t, k) = r - 1
    <3> DEFINE S(x) == {y \in 1 .. x : \A j \in y .. x : l[j][2] = l[x][2]}
               m(s) == CHOOSE x \in s : \A y \in s : x <= y
    <3>1. dbGetEntryRank(db, t, k) = m(S(at)) - 1
      BY <1>3 DEF dbGetEntryRank
    <3>2. S(at) = S(i)
      <4> HIDE DEF S, at
      <4> QED BY <2>4
    <3> HIDE DEF at
    <3> QED BY Zenon, <3>1, <3>2
  <2> HIDE DEF run, r, P, at
  <2>6. r - 1 = Cardinality({j \in DOMAIN l : l[j][2] > l[i][2]})
    <3>1. RunOf(l, i, run, r)
      BY DEF run, r, RunOf
    <3> QED BY <2>1, <3>1, RunRank
  <2> QED BY <2>5, <2>6
<1> QED BY <1>3 DEF RankIsCountAbove
-----------------------------------------------------------------------------
(* Folds, and loading a table.                                           *)

(* The greatest number of a set of line numbers.                         *)
LEMMA MaxFacts ==
  ASSUME NEW n \in Nat, NEW x \in SUBSET (1 .. n), x # {}
  PROVE  Max(x) \in x /\ \A y \in x : Max(x) >= y
<1> DEFINE U == {m \in Nat : \A y \in x : y <= m}
<1>1. n \in U
  OBVIOUS
<1>2. PICK m \in U : \A u \in U : m <= u
  <2>1. U \subseteq Nat /\ U # {}
    BY <1>1
  <2> HIDE DEF U
  <2> QED BY Zenon, <2>1, LeastNat
<1>3. m \in x
  <2>1. ASSUME m \notin x PROVE FALSE
    <3>1. PICK y \in x : TRUE
      BY Zenon
    <3>2. m # 0 /\ m \in Nat
      BY <3>1
    <3>3. \A z \in x : z <= m - 1
      <4>1. ASSUME NEW z \in x PROVE z <= m - 1
        <5>1. z <= m /\ z # m /\ z \in Nat
          BY <2>1
        <5> QED BY <3>2, <5>1
      <4> QED BY <4>1
    <3>4. m - 1 \in U /\ ~(m <= m - 1)
      BY <3>2, <3>3
    <3> HIDE DEF U
    <3> QED BY <1>2, <3>4
  <2> QED BY <2>1
<1>4. \A y \in x : m >= y
  BY <1>2
<1> QED BY Zenon, <1>3, <1>4 DEF Max

(* The greatest of the first m numbers.                                  *)
LEMMA MaxInterval ==
  ASSUME NEW n \in Nat, NEW m \in 1 .. n
  PROVE  1 .. m \in SUBSET (1 .. n) /\ Max(1 .. m) = m /\ (1 .. m) \ {m} = 1 .. m - 1
<1>1. 1 .. m \in SUBSET (1 .. n) /\ m \in 1 .. m /\ m \in Nat
  OBVIOUS
<1>2. Max(1 .. m) \in 1 .. m /\ Max(1 .. m) >= m
  BY Zenon, <1>1, MaxFacts
<1>3. Max(1 .. m) = m
  BY <1>1, <1>2
<1>4. (1 .. m) \ {m} = 1 .. m - 1
  BY <1>1
<1> QED BY <1>1, <1>3, <1>4

(* A fold over n elements: step[m] takes what the elements before m give *)
(* to what they and element m give.                                      *)
FoldOf(n, base, step, R, g) ==
  /\ g \in [SUBSET (1 .. n) -> R]
  /\ \A x \in SUBSET (1 .. n) :
       g[x] = IF x = {} THEN base ELSE step[Max(x)][g[x \ {Max(x)}]]

(* There is such a fold, by recursion over the number of elements.       *)
LEMMA FoldExists ==
  ASSUME NEW n \in Nat, NEW R, NEW base \in R, NEW step,
         \A m \in 1 .. n, y \in R : step[m][y] \in R
  PROVE  \E g : FoldOf(n, base, step, R, g)
<1> DEFINE D == SUBSET (1 .. n)
           st == {{}}
           nx == [x \in D |-> x \ {Max(x)}]
           r == [x \in D |-> Cardinality(x)]
           b == [x \in D |-> base]
           comb == [x \in D |-> step[Max(x)]]
           comb2 == [x \in D |-> IF x = {} THEN [y \in R |-> y] ELSE comb[x]]
<1>1. IsFiniteSet(1 .. n) /\ Cardinality(1 .. n) = n
  <2>1. Cardinality(1 .. n) = IF 1 > n THEN 0 ELSE n - 1 + 1
    BY FS_Interval
  <2> QED BY <2>1, FS_Interval
<1>2. ASSUME NEW x \in D PROVE IsFiniteSet(x) /\ Cardinality(x) \in 0 .. n
  <2>1. IsFiniteSet(x) /\ Cardinality(x) <= n
    BY Zenon, <1>1, FS_Subset
  <2>2. Cardinality(x) \in Nat
    BY <2>1, FS_CardinalityType
  <2> QED BY <2>1, <2>2
<1>3. Falls(D, st, nx, r, n)
  <2>1. \A x \in D : r[x] \in 0 .. n
    BY <1>2
  <2>2. ASSUME NEW x \in D, x \notin st PROVE nx[x] \in D /\ r[nx[x]] < r[x]
    <3>1. x # {} /\ x \in SUBSET (1 .. n)
      BY <2>2
    <3>2. Max(x) \in x
      BY Zenon, <3>1, MaxFacts
    <3>3. Cardinality(x \ {Max(x)}) = Cardinality(x) - 1
      BY <1>2, <3>2, FS_RemoveElement
    <3>4. x \ {Max(x)} \in D /\ Cardinality(x) \in Nat
      <4>1. Cardinality(x) \in 0 .. n
        BY <1>2
      <4>2. Cardinality(x) \in Nat
        BY <4>1
      <4>3. x \ {Max(x)} \in SUBSET (1 .. n)
        BY Zenon, <3>1
      <4> QED BY <4>2, <4>3
    <3>5. Cardinality(x \ {Max(x)}) < Cardinality(x)
      BY <3>3, <3>4
    <3> QED BY <3>4, <3>5
  <2> HIDE DEF D, st, nx, r
  <2> QED BY <2>1, <2>2 DEF Falls
<1>4. \A x \in D : x # {} => Max(x) \in 1 .. n
  BY Zenon, MaxFacts
<1>5. Yields(D, st, b, comb2, R)
  <2>1. \A x \in D : b[x] \in R
    OBVIOUS
  <2>2. ASSUME NEW x \in D, NEW y \in R PROVE comb2[x][y] \in R
    <3>1. CASE x = {}
      BY <3>1
    <3>2. CASE x # {}
      <4>1. Max(x) \in 1 .. n /\ comb2[x] = step[Max(x)]
        BY Zenon, <1>4, <3>2
      <4> HIDE DEF comb2
      <4> QED BY <4>1
    <3> QED BY <3>1, <3>2
  <2> HIDE DEF D, b, comb2, st
  <2> QED BY <2>1, <2>2 DEF Yields
<1>6. PICK g \in [D -> R] : \A x \in D : g[x] = IF x \in st THEN b[x] ELSE comb2[x][g[nx[x]]]
  <2> HIDE DEF D, st, nx, r, b, comb2
  <2> QED BY <1>3, <1>5, RecursionExists
<1>7. ASSUME NEW x \in D
      PROVE  g[x] = IF x = {} THEN base ELSE step[Max(x)][g[x \ {Max(x)}]]
  <2>1. g[x] = IF x \in st THEN b[x] ELSE comb2[x][g[nx[x]]]
    BY Zenon, <1>6
  <2>2. b[x] = base /\ nx[x] = x \ {Max(x)} /\ (x \in st <=> x = {})
    OBVIOUS
  <2>3. x # {} => comb2[x] = step[Max(x)]
    OBVIOUS
  <2> HIDE DEF b, comb2, nx, st, D
  <2> QED BY <2>1, <2>2, <2>3
<1> QED BY Zenon, <1>6, <1>7 DEF FoldOf

(* The lines of a table, loaded one by one.                              *)
LoadTable(d, t, l) == FoldLeft(LAMBDA e, ln : Update(e, t, ln[1], ln[2]), d, l)

LoadIter(d, t, l, it) ==
  it = [x \in SUBSET DOMAIN l |->
          IF x = {} THEN d ELSE Update(it[x \ {Max(x)}], t, l[Max(x)][1], l[Max(x)][2])]

(* LoadTable is the fold the community modules choose.                   *)
LEMMA LoadTableIs ==
  ASSUME NEW d, NEW t, NEW l
  PROVE  LoadTable(d, t, l) = (CHOOSE it : LoadIter(d, t, l, it))[DOMAIN l]
BY DEF LoadTable, FoldLeft, MapThenFoldSet, LoadIter

(* The memory after each line.                                           *)
Loading(d, t, l, s) ==
  /\ s[0] = d /\ LoadTable(d, t, l) = s[Len(l)]
  /\ \A m \in 1 .. Len(l) : s[m] = Update(s[m - 1], t, l[m][1], l[m][2])

(* There is a memory after each line.                                    *)
LEMMA LoadingExists ==
  ASSUME NEW d, DbOK(d), NEW t \in Tables, NEW l \in Seq(Keys \X Values)
  PROVE  \E s : Loading(d, t, l, s)
<1> DEFINE n == Len(l)
           R == {e \in DBType : DbOK(e)}
           step == [m \in 1 .. n |-> [y \in R |-> Update(y, t, l[m][1], l[m][2])]]
<1>1. n \in Nat /\ DOMAIN l = 1 .. n /\ \A m \in 1 .. n : l[m][1] \in Keys /\ l[m][2] \in Values
  <2>1. \A m \in 1 .. Len(l) : l[m] \in Keys \X Values
    OBVIOUS
  <2> QED BY <2>1
<1>2. \A e : DbOK(e) => e \in R
  BY DEF DbOK, Sound
<1>3. d \in R
  BY <1>2
<1>4. ASSUME NEW m \in 1 .. n, NEW y \in R
      PROVE  step[m][y] = Update(y, t, l[m][1], l[m][2]) /\ step[m][y] \in R
  <2>1. DbOK(y)
    OBVIOUS
  <2>2. DbOK(Update(y, t, l[m][1], l[m][2]))
    BY <1>1, <2>1, UpdateFacts
  <2>3. Update(y, t, l[m][1], l[m][2]) \in R
    BY <1>2, <2>2
  <2> HIDE DEF R, n
  <2> QED BY <2>3
<1> HIDE DEF n, R, step
<1>5. PICK g : FoldOf(n, d, step, R, g)
  BY Zenon, <1>1, <1>3, <1>4, FoldExists
<1>6. LoadIter(d, t, l, g)
  <2>1. ASSUME NEW x \in SUBSET (1 .. n)
        PROVE  g[x] = IF x = {} THEN d
                      ELSE Update(g[x \ {Max(x)}], t, l[Max(x)][1], l[Max(x)][2])
    <3>1. CASE x = {}
      BY Zenon, <1>5, <3>1 DEF FoldOf
    <3>2. CASE x # {}
      <4>1. Max(x) \in 1 .. n /\ x \ {Max(x)} \in SUBSET (1 .. n)
        BY Zenon, <1>1, <3>2, MaxFacts
      <4>2. g[x \ {Max(x)}] \in R
        BY <1>5, <4>1 DEF FoldOf
      <4>3. g[x] = step[Max(x)][g[x \ {Max(x)}]]
        BY Zenon, <1>5, <3>2 DEF FoldOf
      <4> QED BY <1>4, <3>2, <4>1, <4>2, <4>3
    <3> QED BY <3>1, <3>2
  <2>2. g = [x \in SUBSET (1 .. n) |-> g[x]]
    BY <1>5 DEF FoldOf
  <2> QED BY Zenon, <1>1, <2>1, <2>2 DEF LoadIter
<1>7. PICK it : LoadIter(d, t, l, it) /\ LoadTable(d, t, l) = it[1 .. n]
  <2>1. LoadIter(d, t, l, CHOOSE it : LoadIter(d, t, l, it))
    BY <1>6
  <2> QED BY <1>1, <2>1, LoadTableIs
<1> DEFINE s == [m \in 0 .. n |-> it[1 .. m]]
<1>8. \A x \in SUBSET (1 .. n) :
        it[x] = IF x = {} THEN d
                ELSE Update(it[x \ {Max(x)}], t, l[Max(x)][1], l[Max(x)][2])
  BY Zenon, <1>1, <1>7 DEF LoadIter
<1>9. s[0] = d
  <2>1. 1 .. 0 = {} /\ {} \in SUBSET (1 .. n) /\ 0 \in 0 .. n
    BY <1>1
  <2>2. it[{}] = d
    BY Zenon, <1>8
  <2> QED BY <2>1, <2>2
<1>10. s[n] = LoadTable(d, t, l)
  BY <1>1, <1>7
<1>11. ASSUME NEW m \in 1 .. n PROVE s[m] = Update(s[m - 1], t, l[m][1], l[m][2])
  <2>1. 1 .. m \in SUBSET (1 .. n) /\ Max(1 .. m) = m /\ (1 .. m) \ {m} = 1 .. m - 1
    BY <1>1, MaxInterval
  <2>2. m \in 0 .. n /\ m - 1 \in 0 .. n /\ 1 .. m # {}
    BY <1>1
  <2>3. it[1 .. m] = Update(it[1 .. m - 1], t, l[m][1], l[m][2])
    BY Zenon, <1>8, <2>1, <2>2
  <2> QED BY <2>2, <2>3
<1> HIDE DEF s
<1> QED BY <1>9, <1>10, <1>11 DEF Loading, n
-----------------------------------------------------------------------------
(* What loading a table brings back.                                     *)

(* Loading keeps the memory sound and leaves the other tables alone.     *)
LEMMA ElsewhereSame == \A d, t : Elsewhere(d, t, d)
  BY DEF Elsewhere

(* It stays sound, and the other tables stay empty or as they were       *)
(* loaded.                                                               *)
LEMMA LoadingFacts ==
  ASSUME NEW d, DbOK(d), NEW t \in Tables, NEW l \in Seq(Keys \X Values),
         NEW s, Loading(d, t, l, s)
  PROVE  \A m \in 0 .. Len(l) : DbOK(s[m]) /\ Elsewhere(d, t, s[m])
<1> DEFINE B == {m \in 0 .. Len(l) : ~(DbOK(s[m]) /\ Elsewhere(d, t, s[m]))}
<1> SUFFICES ASSUME B # {} PROVE FALSE
  OBVIOUS
<1>1. Len(l) \in Nat /\ \A m \in 1 .. Len(l) : l[m][1] \in Keys /\ l[m][2] \in Values
  <2>1. \A m \in 1 .. Len(l) : l[m] \in Keys \X Values
    OBVIOUS
  <2> QED BY <2>1
<1>2. PICK m \in B : \A x \in B : m <= x
  <2>1. B \subseteq Nat
    BY <1>1
  <2> HIDE DEF B
  <2> QED BY Zenon, <2>1, LeastNat
<1>3. m # 0
  BY ElsewhereSame DEF Loading
<1>4. m \in 1 .. Len(l) /\ m - 1 \in 0 .. Len(l) /\ ~(m <= m - 1)
  BY <1>1, <1>3
<1>5. m - 1 \notin B
  <2> HIDE DEF B
  <2> QED BY <1>2, <1>4
<1>6. DbOK(s[m - 1]) /\ Elsewhere(d, t, s[m - 1])
  BY <1>4, <1>5
<1>7. s[m] = Update(s[m - 1], t, l[m][1], l[m][2])
  BY <1>4 DEF Loading
<1>8. DbOK(s[m]) /\ Updated(s[m - 1], t, l[m][1], l[m][2], s[m])
  BY <1>1, <1>4, <1>6, <1>7, UpdateFacts
<1>9. Elsewhere(d, t, s[m])
  BY <1>6, <1>8, ElsewhereTrans DEF Updated
<1> QED BY <1>8, <1>9

(* A table that holds nothing.                                           *)
Empty(d, t) == Lines(d, t) = <<>> /\ \A k \in Keys : Get(d, t, k) = Absent

(* The lines of an integer table come back in their order.               *)
Upto(d, t, l, m) ==
  /\ Lines(d, t) = SubSeq(l, 1, m)
  /\ \A k \in Keys : (\A j \in 1 .. m : l[j][1] # k) => Get(d, t, k) = Absent

(* A longer beginning of a sequence.                                     *)
LEMMA SubSeqStep ==
  ASSUME NEW S, NEW l \in Seq(S), NEW m \in 1 .. Len(l)
  PROVE  /\ SubSeq(l, 1, m) = Append(SubSeq(l, 1, m - 1), l[m])
         /\ DOMAIN SubSeq(l, 1, m - 1) = 1 .. m - 1
         /\ \A j \in 1 .. m - 1 : SubSeq(l, 1, m - 1)[j] = l[j]
<1> DEFINE a == SubSeq(l, 1, m)
           b == SubSeq(l, 1, m - 1)
           c == Append(b, l[m])
<1>1. Len(l) \in Nat /\ m \in Nat /\ m - 1 \in Nat /\ m <= Len(l) /\ m >= 1
  OBVIOUS
<1>2. a \in Seq(S) /\ Len(a) = m /\ \A j \in 1 .. m : a[j] = l[j]
  BY <1>1
<1>3. b \in Seq(S) /\ Len(b) = m - 1 /\ \A j \in 1 .. m - 1 : b[j] = l[j]
  BY <1>1
<1>4. l[m] \in S
  OBVIOUS
<1> HIDE DEF a, b
<1>5. c \in Seq(S) /\ Len(c) = m /\ c[m] = l[m] /\ \A j \in 1 .. m - 1 : c[j] = b[j]
  BY <1>1, <1>3, <1>4
<1> HIDE DEF c
<1>6. \A j \in 1 .. m : a[j] = c[j]
  <2>1. \A j \in 1 .. m : j \in 1 .. m - 1 \/ j = m
    BY <1>1
  <2> QED BY <1>2, <1>3, <1>5, <2>1
<1>7. a = [j \in 1 .. m |-> a[j]] /\ c = [j \in 1 .. m |-> c[j]]
  BY <1>2, <1>5
<1>8. [j \in 1 .. m |-> a[j]] = [j \in 1 .. m |-> c[j]]
  BY <1>6
<1>9. a = c
  BY <1>7, <1>8
<1>10. DOMAIN b = 1 .. m - 1
  BY <1>3
<1> QED BY <1>3, <1>9, <1>10 DEF a, b, c

(* Each line is put behind the ones before: its key is new and its value *)
(* not above theirs.                                                     *)
LEMMA LoadingLines ==
  ASSUME NEW d, DbOK(d), NEW t \in IntTables, NEW l \in Seq(Keys \X Values), Falling(l), Once(l),
         NEW s, Loading(d, t, l, s), Empty(d, t)
  PROVE  \A m \in 0 .. Len(l) : Upto(s[m], t, l, m)
<1> DEFINE B == {m \in 0 .. Len(l) : ~Upto(s[m], t, l, m)}
<1> SUFFICES ASSUME B # {} PROVE FALSE
  OBVIOUS
<1>1. /\ Len(l) \in Nat /\ DOMAIN l = 1 .. Len(l)
      /\ \A m \in 1 .. Len(l) : l[m][1] \in Keys /\ l[m][2] \in Values /\ l[m] = <<l[m][1], l[m][2]>>
  <2>1. \A m \in 1 .. Len(l) : l[m] \in Keys \X Values
    OBVIOUS
  <2> QED BY <2>1
<1>2. PICK m \in B : \A x \in B : m <= x
  <2>1. B \subseteq Nat
    BY <1>1
  <2> HIDE DEF B
  <2> QED BY Zenon, <2>1, LeastNat
<1>3. m # 0
  <2>1. Upto(d, t, l, 0)
    <3>1. SubSeq(l, 1, 0) = <<>>
      OBVIOUS
    <3> QED BY <3>1 DEF Empty, Upto
  <2>2. s[0] = d
    BY DEF Loading
  <2> QED BY <2>1, <2>2
<1>4. m \in 1 .. Len(l) /\ m - 1 \in 0 .. Len(l) /\ ~(m <= m - 1) /\ m \in Nat
  BY <1>1, <1>3
<1>5. m - 1 \notin B
  <2> HIDE DEF B
  <2> QED BY <1>2, <1>4
<1> DEFINE e == s[m - 1]
           k == l[m][1]
           v == l[m][2]
<1>6. Upto(e, t, l, m - 1) /\ k \in Keys /\ v \in Values
  BY <1>1, <1>4, <1>5
<1>7. t \in Tables
  BY DEF Tables
<1>8. DbOK(s[m]) /\ Updated(e, t, k, v, s[m])
  <2>1. s[m] = Update(e, t, k, v)
    BY <1>4 DEF Loading
  <2>2. DbOK(e)
    BY Zenon, <1>4, <1>7, LoadingFacts
  <2> HIDE DEF e, k, v
  <2> QED BY <1>6, <1>7, <2>1, <2>2, UpdateFacts
<1> DEFINE q == SubSeq(l, 1, m - 1)
<1>9. /\ SubSeq(l, 1, m) = Append(q, l[m]) /\ DOMAIN q = 1 .. m - 1
      /\ \A j \in 1 .. m - 1 : q[j] = l[j]
  BY <1>4, SubSeqStep
<1>10. \A j \in 1 .. m - 1 : j \in 1 .. Len(l) /\ j # m /\ j <= m
  BY <1>1, <1>4
<1> HIDE DEF q
<1>11. AtEnd(e, t, k, v)
  <2>1. Lines(e, t) = q
    BY <1>6 DEF Upto, q
  <2>2. Get(e, t, k) = Absent
    <3>1. \A j \in 1 .. m - 1 : l[j][1] # k
      BY <1>1, <1>4, <1>10 DEF Once
    <3> QED BY Zenon, <1>6, <3>1 DEF Upto
  <2>3. \A j \in DOMAIN q : v <= q[j][2]
    BY Zenon, <1>1, <1>4, <1>9, <1>10 DEF Falling
  <2> HIDE DEF e, k, v
  <2> QED BY <2>1, <2>2, <2>3 DEF AtEnd
<1>12. Lines(s[m], t) = SubSeq(l, 1, m)
  <2>1. Lines(s[m], t) = Append(q, <<k, v>>)
    <3>1. Lines(s[m], t) = Append(Lines(e, t), <<k, v>>)
      BY <1>8, <1>11 DEF Updated
    <3>2. Lines(e, t) = q
      BY <1>6 DEF Upto, q
    <3> QED BY <3>1, <3>2
  <2>2. <<k, v>> = l[m]
    BY <1>1, <1>4
  <2> QED BY <1>9, <2>1, <2>2
<1>13. ASSUME NEW x \in Keys, \A j \in 1 .. m : l[j][1] # x PROVE Get(s[m], t, x) = Absent
  <2>1. x # k /\ \A j \in 1 .. m - 1 : l[j][1] # x
    <3>1. m \in 1 .. m /\ \A j \in 1 .. m - 1 : j \in 1 .. m
      BY <1>4
    <3> QED BY <1>13, <3>1
  <2>2. Get(e, t, x) = Absent
    BY <1>6, <2>1 DEF Upto
  <2> QED BY <1>8, <2>1, <2>2 DEF Updated, NowReads
<1> QED BY <1>12, <1>13 DEF Upto

(* What loading a table gives.                                           *)
Loaded(d, t, l, d2) ==
  /\ Elsewhere(d, t, d2)
  /\ t \in IntTables /\ Falling(l) /\ Once(l) /\ Empty(d, t) => Lines(d2, t) = l

(* Loading a table keeps the memory sound and brings its lines back.     *)
LEMMA LoadTableFacts ==
  ASSUME NEW d, DbOK(d), NEW t \in Tables, NEW l \in Seq(Keys \X Values)
  PROVE  DbOK(LoadTable(d, t, l)) /\ Loaded(d, t, l, LoadTable(d, t, l))
<1>1. PICK s : Loading(d, t, l, s)
  BY Zenon, LoadingExists
<1> DEFINE d2 == LoadTable(d, t, l)
<1>2. Len(l) \in 0 .. Len(l) /\ d2 = s[Len(l)]
  <2>1. Len(l) \in Nat
    OBVIOUS
  <2> QED BY <1>1, <2>1 DEF Loading
<1> HIDE DEF d2
<1>3. DbOK(d2) /\ Elsewhere(d, t, d2)
  BY <1>1, <1>2, LoadingFacts
<1>4. ASSUME t \in IntTables, Falling(l), Once(l), Empty(d, t) PROVE Lines(d2, t) = l
  <2>1. Upto(d2, t, l, Len(l))
    BY <1>1, <1>2, <1>4, LoadingLines
  <2>2. SubSeq(l, 1, Len(l)) = l
    OBVIOUS
  <2> QED BY <2>1, <2>2 DEF Upto
<1> QED BY <1>3, <1>4 DEF Loaded, d2
-----------------------------------------------------------------------------
(* What dbRead brings back.                                              *)

(* The tables in the order dbRead takes them, each of them once.         *)
TableOrder(ts, n) ==
  /\ n \in Nat /\ DOMAIN ts = 1 .. n /\ \A m \in 1 .. n : ts[m] \in Tables
  /\ \A i, j \in 1 .. n : ts[i] = ts[j] => i = j
  /\ \A t \in Tables : \E m \in 1 .. n : ts[m] = t

(* Tables is finite, so SetToSeq lists each table once.                  *)
LEMMA TableOrderExists == \E n : TableOrder(SetToSeq(Tables), n)
<1> DEFINE n == Cardinality(Tables)
           ts == SetToSeq(Tables)
           F == [1 .. n -> Tables]
<1>1. IsFiniteSet(Tables) /\ n \in Nat /\ ExistsBijection(1 .. n, Tables)
  BY RankDBAssumption, FS_CardinalityType DEF Tables
<1>2. \E f \in F : IsInjective(f)
  BY <1>1 DEF ExistsBijection, Bijection, Injection
<1>3. ts \in F /\ IsInjective(ts)
  <2>1. ts = CHOOSE f \in F : IsInjective(f)
    BY DEF SetToSeq
  <2> HIDE DEF F, ts
  <2> QED BY <1>2, <2>1
<1> HIDE DEF ts
<1>4. IsFiniteSet(1 .. n) /\ Cardinality(1 .. n) = n
  <2> HIDE DEF n
  <2>1. Cardinality(1 .. n) = IF 1 > n THEN 0 ELSE n - 1 + 1
    BY <1>1, FS_Interval
  <2> QED BY <1>1, <2>1, FS_Interval
<1>5. ts \in Injection(1 .. n, Tables)
  BY <1>3 DEF Injection
<1>6. ts \in Surjection(1 .. n, Tables)
  BY <1>1, <1>4, <1>5, FS_Injection
<1>7. \A t \in Tables : \E m \in 1 .. n : ts[m] = t
  BY <1>6 DEF Surjection
<1>8. \A i, j \in 1 .. n : ts[i] = ts[j] => i = j
  BY <1>3 DEF IsInjective
<1>9. TableOrder(ts, n)
  BY <1>1, <1>3, <1>7, <1>8 DEF TableOrder
<1> QED BY <1>9 DEF ts

(* The files.                                                            *)
FilesOK(f) ==
  \A t \in Tables : f[t] \in Seq(Keys \X Values) /\ (t \in IntTables => Falling(f[t]))

(* dbRead, table by table.                                               *)
ReadIter(f, ts, it) ==
  it = [x \in SUBSET DOMAIN ts |->
          IF x = {} THEN EmptyDB
          ELSE LoadTable(it[x \ {Max(x)}], ts[Max(x)], f[ts[Max(x)]])]

(* dbRead is the fold the community modules choose.                      *)
LEMMA ReadIs ==
  ASSUME NEW f
  PROVE  dbRead(f) = (CHOOSE it : ReadIter(f, SetToSeq(Tables), it))[DOMAIN SetToSeq(Tables)]
BY DEF dbRead, LoadTable, FoldLeft, MapThenFoldSet, ReadIter

Reading(f, ts, n, s) ==
  /\ s[0] = EmptyDB /\ dbRead(f) = s[n]
  /\ \A m \in 1 .. n : s[m] = LoadTable(s[m - 1], ts[m], f[ts[m]])

(* The memory SAAC starts with.                                          *)
LEMMA EmptySound ==
  DbOK(EmptyDB) /\ \A t \in Tables : Empty(EmptyDB, t)
<1> DEFINE o == [i \in Nat |-> 0]
           c == [t \in Tables |-> o]
           d == EmptyDB
<1>1. d.entry = <<>> /\ d.finder = 1 /\ \A t \in Tables : d.table[t] = NoTable
  BY DEF EmptyDB
<1>2. NoTable \in TableType /\ NoTable.top = Nil /\ NoTable.hash = <<>>
  BY RankDBAssumption DEF NoTable, TableType, Nil
<1>3. d \in DBType
  <2>1. <<>> \in Seq(Node)
    OBVIOUS
  <2> QED BY <1>2, <2>1 DEF DBType, EmptyDB
<1>4. Used(<<>>) = {} /\ DOMAIN <<>> = {}
  BY DEF Used
<1>5. Pool(<<>>, o)
  <2>1. Linked(<<>>, {}, o)
    <3>1. Links(<<>>, {}, o, [i \in Nat |-> 0])
      BY DEF Links
    <3> DEFINE r == [i \in Nat |-> 0]
    <3>2. r \in [Nat -> 0 .. 0] /\ 0 \in Nat
      OBVIOUS
    <3>3. Cells(<<>>)
      <4>1. <<>> \in Seq(Node)
        OBVIOUS
      <4> QED BY Zenon, <4>1, SeqCells
    <3>4. {} \subseteq DOMAIN <<>>
      OBVIOUS
    <3>5. \E q \in [Nat -> 0 .. 0] : Links(<<>>, {}, o, q)
      <4> HIDE DEF o
      <4>1. Links(<<>>, {}, o, r)
        BY <3>1
      <4> HIDE DEF r
      <4> QED BY <3>2, <4>1
    <3>6. \E M \in Nat : \E q \in [Nat -> 0 .. M] : Links(<<>>, {}, o, q)
      BY <3>5
    <3> HIDE DEF o, r
    <3> QED BY Zenon, <3>3, <3>4, <3>6 DEF Linked
  <2>2. <<>> \in Seq(Node)
    OBVIOUS
  <2> HIDE DEF o
  <2> QED BY Zenon, <1>4, <2>1, <2>2 DEF Pool
<1>6. ASSUME NEW t \in Tables PROVE Owned(<<>>, o, t, NoTable, c[t])
  <2>1. Mine(<<>>, o, t) = {}
    BY <1>4 DEF Mine
  <2> HIDE DEF o, c
  <2> QED BY <1>2, <1>4, <2>1 DEF Owned, Ranked, Joined
<1> HIDE DEF o, c, d
<1>7. Sound(d, o, c)
  BY <1>1, <1>3, <1>5, <1>6 DEF Sound
<1>8. ASSUME NEW t \in Tables PROVE Empty(d, t)
  <2>1. d.table[t].top = Nil
    BY <1>1, <1>2
  <2>2. Lines(d, t) = <<>>
    BY <1>7, <2>1, NoLines
  <2>3. \A k \in Keys : Get(d, t, k) = Absent
    BY <2>1 DEF Get
  <2> QED BY <2>2, <2>3 DEF Empty
<1> QED BY <1>7, <1>8 DEF DbOK, d

(* There is a memory after each table.                                   *)
LEMMA ReadingExists ==
  ASSUME NEW f, FilesOK(f), NEW ts, ts = SetToSeq(Tables), NEW n, TableOrder(ts, n)
  PROVE  \E s : Reading(f, ts, n, s)
<1> DEFINE R == {e \in DBType : DbOK(e)}
           step == [m \in 1 .. n |-> [y \in R |-> LoadTable(y, ts[m], f[ts[m]])]]
<1>1. n \in Nat /\ DOMAIN ts = 1 .. n
      /\ \A m \in 1 .. n : ts[m] \in Tables /\ f[ts[m]] \in Seq(Keys \X Values)
  BY DEF TableOrder, FilesOK
<1>2. \A e : DbOK(e) => e \in R
  BY DEF DbOK, Sound
<1>3. EmptyDB \in R
  BY <1>2, EmptySound
<1>4. ASSUME NEW m \in 1 .. n, NEW y \in R
      PROVE  step[m][y] = LoadTable(y, ts[m], f[ts[m]]) /\ step[m][y] \in R
  <2>1. DbOK(y)
    OBVIOUS
  <2>2. DbOK(LoadTable(y, ts[m], f[ts[m]]))
    BY <1>1, <2>1, LoadTableFacts
  <2>3. LoadTable(y, ts[m], f[ts[m]]) \in R
    BY <1>2, <2>2
  <2> HIDE DEF R
  <2> QED BY <2>3
<1> HIDE DEF R, step
<1>5. PICK g : FoldOf(n, EmptyDB, step, R, g)
  BY Zenon, <1>1, <1>3, <1>4, FoldExists
<1>6. ReadIter(f, ts, g)
  <2>1. ASSUME NEW x \in SUBSET (1 .. n)
        PROVE  g[x] = IF x = {} THEN EmptyDB
                      ELSE LoadTable(g[x \ {Max(x)}], ts[Max(x)], f[ts[Max(x)]])
    <3>1. CASE x = {}
      BY <1>5, <3>1 DEF FoldOf
    <3>2. CASE x # {}
      <4>1. Max(x) \in 1 .. n /\ x \ {Max(x)} \in SUBSET (1 .. n)
        BY Zenon, <1>1, <3>2, MaxFacts
      <4>2. g[x \ {Max(x)}] \in R
        BY <1>5, <4>1 DEF FoldOf
      <4>3. g[x] = step[Max(x)][g[x \ {Max(x)}]]
        BY Zenon, <1>5, <3>2 DEF FoldOf
      <4> QED BY <1>4, <3>2, <4>1, <4>2, <4>3
    <3> QED BY <3>1, <3>2
  <2>2. g = [x \in SUBSET (1 .. n) |-> g[x]]
    BY <1>5 DEF FoldOf
  <2> QED BY Zenon, <1>1, <2>1, <2>2 DEF ReadIter
<1>7. PICK it : ReadIter(f, ts, it) /\ dbRead(f) = it[1 .. n]
  <2>1. ReadIter(f, ts, CHOOSE it : ReadIter(f, ts, it))
    BY <1>6
  <2> QED BY <1>1, <2>1, ReadIs
<1> DEFINE s == [m \in 0 .. n |-> it[1 .. m]]
<1>8. \A x \in SUBSET (1 .. n) :
        it[x] = IF x = {} THEN EmptyDB
                ELSE LoadTable(it[x \ {Max(x)}], ts[Max(x)], f[ts[Max(x)]])
  BY Zenon, <1>1, <1>7 DEF ReadIter
<1>9. s[0] = EmptyDB
  <2>1. 1 .. 0 = {} /\ {} \in SUBSET (1 .. n) /\ 0 \in 0 .. n
    BY <1>1
  <2>2. it[{}] = EmptyDB
    BY Zenon, <1>8
  <2> QED BY <2>1, <2>2
<1>10. s[n] = dbRead(f)
  BY <1>1, <1>7
<1>11. ASSUME NEW m \in 1 .. n PROVE s[m] = LoadTable(s[m - 1], ts[m], f[ts[m]])
  <2>1. 1 .. m \in SUBSET (1 .. n) /\ Max(1 .. m) = m /\ (1 .. m) \ {m} = 1 .. m - 1
    BY Zenon, <1>1, MaxInterval
  <2>2. m \in 0 .. n /\ m - 1 \in 0 .. n /\ 1 .. m # {}
    <3>1. m \in Nat /\ n \in Nat /\ 1 <= m /\ m <= n
      BY <1>1
    <3>2. 1 \in 1 .. m
      BY ONLY <3>1
    <3>3. m \in 0 .. n /\ m - 1 \in 0 .. n
      BY ONLY <3>1
    <3> QED BY ONLY <3>2, <3>3
  <2>3. it[1 .. m] = LoadTable(it[1 .. m - 1], ts[m], f[ts[m]])
    BY Zenon, <1>8, <2>1, <2>2
  <2> QED BY <2>2, <2>3
<1> HIDE DEF s
<1> QED BY <1>9, <1>10, <1>11 DEF Reading

(* The first m tables are loaded, the others are empty.                  *)
Restored(d, f, ts, m, n) ==
  \A j \in 1 .. n :
    IF j <= m THEN ts[j] \in IntTables /\ Once(f[ts[j]]) => Lines(d, ts[j]) = f[ts[j]]
    ELSE Empty(d, ts[j])

(* A table that is left alone stays empty or keeps its lines.            *)
LEMMA EmptyElsewhere ==
  ASSUME NEW d, NEW t, NEW d2, Elsewhere(d, t, d2), NEW x \in Tables, x # t
  PROVE  Lines(d2, x) = Lines(d, x) /\ (Empty(d, x) => Empty(d2, x))
BY DEF Elsewhere, Empty

(* Loading table by table.                                               *)
LEMMA ReadingFacts ==
  ASSUME NEW f, FilesOK(f), NEW ts, NEW n, TableOrder(ts, n), NEW s, Reading(f, ts, n, s)
  PROVE  \A m \in 0 .. n : DbOK(s[m]) /\ Restored(s[m], f, ts, m, n)
<1> DEFINE B == {m \in 0 .. n : ~(DbOK(s[m]) /\ Restored(s[m], f, ts, m, n))}
<1> SUFFICES ASSUME B # {} PROVE FALSE
  OBVIOUS
<1>1. n \in Nat /\ \A m \in 1 .. n : ts[m] \in Tables /\ f[ts[m]] \in Seq(Keys \X Values)
  BY DEF TableOrder, FilesOK
<1>2. PICK m \in B : \A x \in B : m <= x
  <2>1. B \subseteq Nat
    BY <1>1
  <2> HIDE DEF B
  <2> QED BY Zenon, <2>1, LeastNat
<1>3. m # 0
  <2>1. \A j \in 1 .. n : ~(j <= 0)
    OBVIOUS
  <2>2. Restored(EmptyDB, f, ts, 0, n)
    BY <1>1, <2>1, EmptySound DEF Restored
  <2> QED BY <2>2, EmptySound DEF Reading
<1>4. m \in 1 .. n /\ m - 1 \in 0 .. n /\ ~(m <= m - 1) /\ m \in Nat
  BY <1>1, <1>3
<1>5. m - 1 \notin B
  <2> HIDE DEF B
  <2> QED BY <1>2, <1>4
<1> DEFINE e == s[m - 1]
           t == ts[m]
<1>6. DbOK(e) /\ Restored(e, f, ts, m - 1, n) /\ t \in Tables /\ f[t] \in Seq(Keys \X Values)
  BY <1>1, <1>4, <1>5
<1>7. DbOK(s[m]) /\ Loaded(e, t, f[t], s[m])
  <2>1. s[m] = LoadTable(e, t, f[t])
    BY <1>4 DEF Reading
  <2> HIDE DEF e, t
  <2> QED BY <1>6, <2>1, LoadTableFacts
<1>8. ASSUME NEW j \in 1 .. n
      PROVE  IF j <= m THEN ts[j] \in IntTables /\ Once(f[ts[j]]) => Lines(s[m], ts[j]) = f[ts[j]]
             ELSE Empty(s[m], ts[j])
  <2>1. CASE j = m
    <3>1. Empty(e, t)
      BY <1>4, <1>6 DEF Restored
    <3>2. t \in IntTables => Falling(f[t])
      BY <1>6 DEF FilesOK
    <3>3. t \in IntTables /\ Once(f[t]) => Lines(s[m], t) = f[t]
      BY <1>7, <3>1, <3>2 DEF Loaded
    <3> QED BY <1>4, <2>1, <3>3
  <2>2. CASE j # m
    <3>1. ts[j] # t /\ ts[j] \in Tables
      BY <1>1, <1>4, <2>2 DEF TableOrder
    <3>2. /\ Lines(s[m], ts[j]) = Lines(e, ts[j])
          /\ Empty(e, ts[j]) => Empty(s[m], ts[j])
      <4> HIDE DEF e, t
      <4> QED BY <1>7, <3>1, EmptyElsewhere DEF Loaded
    <3>3. j <= m <=> j <= m - 1
      BY <1>4, <2>2
    <3>4. IF j <= m - 1 THEN ts[j] \in IntTables /\ Once(f[ts[j]]) => Lines(e, ts[j]) = f[ts[j]]
          ELSE Empty(e, ts[j])
      BY <1>6 DEF Restored
    <3> QED BY <3>2, <3>3, <3>4
  <2> QED BY <2>1, <2>2
<1> QED BY <1>7, <1>8 DEF Restored

(* dbRead builds a sound memory with the lines of the files.             *)
LEMMA ReadFacts ==
  ASSUME NEW f, FilesOK(f)
  PROVE  /\ DbOK(dbRead(f))
         /\ \A t \in IntTables : Once(f[t]) => Lines(dbRead(f), t) = f[t]
<1> DEFINE ts == SetToSeq(Tables)
<1>1. PICK n : TableOrder(ts, n)
  BY TableOrderExists
<1>2. PICK s : Reading(f, ts, n, s)
  <2>1. ts = SetToSeq(Tables)
    OBVIOUS
  <2> HIDE DEF ts
  <2> QED BY <1>1, <2>1, ReadingExists
<1> HIDE DEF ts
<1>3. n \in Nat /\ n \in 0 .. n /\ dbRead(f) = s[n]
  <2>1. n \in Nat
    BY <1>1 DEF TableOrder
  <2> QED BY <1>2, <2>1 DEF Reading
<1>4. DbOK(dbRead(f)) /\ Restored(dbRead(f), f, ts, n, n)
  BY <1>1, <1>2, <1>3, ReadingFacts
<1>5. ASSUME NEW t \in IntTables, Once(f[t]) PROVE Lines(dbRead(f), t) = f[t]
  <2>1. t \in Tables
    BY DEF Tables
  <2>2. PICK m \in 1 .. n : ts[m] = t
    BY <1>1, <2>1 DEF TableOrder
  <2>3. m <= n
    BY <1>3
  <2> QED BY <1>4, <1>5, <2>2, <2>3 DEF Restored
<1> QED BY <1>4, <1>5
-----------------------------------------------------------------------------
(* What dbFlush does to the texts in memory.                             *)

(* The listing of a table holds its nodes but the top node.              *)
LEMMA ListingRange ==
  ASSUME NEW d, NEW o, NEW c, Sound(d, o, c), NEW t \in Tables
  PROVE  Range(Listing(d, t)) = Body(d, o, t)
<1> DEFINE l == Listing(d, t)
           b == Body(d, o, t)
<1>1. Matches(1 .. Len(l), b, l) /\ DOMAIN l = 1 .. Len(l)
  BY ListedNodes
<1> HIDE DEF l, b
<1>2. Range(l) = b
  BY <1>1 DEF Matches, Range
<1> QED BY <1>2 DEF l, b

(* The nodes whose text is unescaped belong to a string table of S that  *)
(* is written, and are not its top node.                                 *)
Rewritten(d, o, S) == {i \in Used(d.entry) : /\ o[i] \in Texts(d, S)
                                            /\ i # d.table[o[i]].top}

(* From d to d1 the values of the nodes in R are unescaped.              *)
Worn(d, R, d1) ==
  /\ d1 \in DBType /\ d1.table = d.table
  /\ DOMAIN d1.entry = DOMAIN d.entry
  /\ \A i \in DOMAIN d.entry \ R : d1.entry[i] = d.entry[i]
  /\ \A i \in R : /\ d1.entry[i].use = d.entry[i].use /\ d1.entry[i].key = d.entry[i].key
                  /\ d1.entry[i].prev = d.entry[i].prev /\ d1.entry[i].next = d.entry[i].next
                  /\ d1.entry[i].ivalue = Unescape[d.entry[i].ivalue]

(* Only the values of these nodes change.                                *)
LEMMA UnescapedFields ==
  ASSUME NEW d, NEW o, NEW c, Sound(d, o, c), NEW S \in SUBSET Tables
  PROVE  /\ Worn(d, Rewritten(d, o, S), Unescaped(d, S))
         /\ \A i \in Rewritten(d, o, S) : d.entry[i].ivalue \in Values
<1> DEFINE e == d.entry
           R == Rewritten(d, o, S)
           nodes == UNION {Range(Listing(d, t)) : t \in Texts(d, S)}
           Text(i) == [e[i] EXCEPT !.ivalue = Unescape[@]]
           e1 == [i \in DOMAIN e |-> IF i \in nodes THEN Text(i) ELSE e[i]]
<1>0. /\ d \in DBType /\ Pool(e, o) /\ e \in Seq(Node) /\ Used(e) \subseteq DOMAIN e
      /\ Texts(d, S) \subseteq Tables
  BY PoolFacts DEF Sound, Pool, Texts, Tables
<1>1. nodes = R
  <2>1. \A t \in Texts(d, S) : Range(Listing(d, t)) = Body(d, o, t)
    BY <1>0, ListingRange
  <2>2. nodes = UNION {Body(d, o, t) : t \in Texts(d, S)}
    BY <2>1
  <2> QED BY <2>2 DEF Body, Mine, Rewritten
<1>2. ASSUME NEW i \in R PROVE e[i].ivalue \in Values /\ i \in DOMAIN e
  <2>1. i \in Used(e) /\ o[i] \in Tables /\ i # d.table[o[i]].top
    BY <1>0 DEF Rewritten
  <2>2. Ranked(e, o, o[i], d.table[o[i]].top)
    BY <2>1 DEF Sound, Owned
  <2> QED BY <1>0, <2>1, <2>2 DEF Ranked, Mine
<1>3. Unescaped(d, S) = [d EXCEPT !.entry = e1]
  BY DEF Unescaped
<1> HIDE DEF nodes, R
<1>4. ASSUME NEW i \in R
      PROVE  /\ Text(i) \in Node
             /\ Text(i).use = e[i].use /\ Text(i).key = e[i].key
             /\ Text(i).prev = e[i].prev /\ Text(i).next = e[i].next
             /\ Text(i).ivalue = Unescape[e[i].ivalue]
  <2>1. Unescape[e[i].ivalue] \in Values
    BY Zenon, <1>2, RankDBAssumption
  <2>2. e[i] \in Node
    BY <1>0, <1>2
  <2> HIDE DEF e
  <2> QED BY <2>1, <2>2 DEF Node
<1> HIDE DEF Text
<1>5. /\ e1 \in Seq(Node) /\ DOMAIN e1 = DOMAIN e
      /\ \A i \in DOMAIN e \ R : e1[i] = e[i]
      /\ \A i \in R : e1[i] = Text(i)
  <2>1. \A i \in DOMAIN e : e1[i] = IF i \in R THEN Text(i) ELSE e[i]
    BY <1>1
  <2>2. DOMAIN e = 1 .. Len(e) /\ Len(e) \in Nat /\ \A i \in DOMAIN e : e[i] \in Node
    BY <1>0
  <2>3. e1 = [i \in 1 .. Len(e) |-> e1[i]]
    BY <2>2
  <2> HIDE DEF e1, e
  <2>4. \A i \in 1 .. Len(e) : e1[i] \in Node
    BY <1>4, <2>1, <2>2
  <2>5. e1 \in Seq(Node)
    BY <2>2, <2>3, <2>4
  <2> QED BY <1>2, <2>1, <2>2, <2>3, <2>5
<1> HIDE DEF e1
<1>6. LET d1 == [d EXCEPT !.entry = e1] IN
      d1 \in DBType /\ d1.table = d.table /\ d1.entry = e1
  BY <1>0, <1>5 DEF DBType
<1>7. Worn(d, R, Unescaped(d, S))
  BY <1>3, <1>4, <1>5, <1>6 DEF Worn
<1> QED BY <1>2, <1>7 DEF R

(* The memory stays sound.                                               *)
LEMMA WornSound ==
  ASSUME NEW d, NEW o, NEW c, Sound(d, o, c), NEW S \in SUBSET Tables,
         NEW d1, Worn(d, Rewritten(d, o, S), d1),
         \A i \in Rewritten(d, o, S) : d.entry[i].ivalue \in Values
  PROVE  Sound(d1, o, c)
<1> DEFINE e == d.entry
           e1 == d1.entry
           R == Rewritten(d, o, S)
<1>0. /\ Pool(e, o) /\ R \subseteq Used(e) /\ Used(e) \subseteq DOMAIN e
      /\ \A i \in R : o[i] \in StringTables /\ i # d.table[o[i]].top
  BY PoolFacts DEF Sound, Rewritten, Texts
<1>1. /\ d1 \in DBType /\ d1.table = d.table /\ e1 \in Seq(Node)
      /\ DOMAIN e1 = DOMAIN e
      /\ \A i \in DOMAIN e \ R : e1[i] = e[i]
      /\ \A i \in R : e1[i].ivalue = Unescape[e[i].ivalue] /\ e1[i].ivalue \in Values
      /\ \A i \in DOMAIN e : /\ e1[i].use = e[i].use /\ e1[i].key = e[i].key
                             /\ e1[i].prev = e[i].prev /\ e1[i].next = e[i].next
  BY Zenon, RankDBAssumption DEF Worn, DBType
<1> HIDE DEF e, e1, R
<1>2. Used(e1) = Used(e)
  BY <1>1 DEF Used
<1>3. \A t : Mine(e1, o, t) = Mine(e, o, t)
  BY <1>2 DEF Mine
<1>4. Linked(e1, Used(e1), o)
  <2>1. Cells(e1) /\ Used(e) \subseteq DOMAIN e1
    BY <1>0, <1>1, SeqCells
  <2>2. \A i \in Used(e) : e1[i].next = e[i].next /\ e1[i].prev = e[i].prev
    BY <1>0, <1>1
  <2>3. Linked(e1, Used(e), o)
    BY <1>0, <2>1, <2>2, LinkedSame DEF Pool
  <2> QED BY <1>2, <2>3
<1>5. Pool(e1, o)
  <2>1. \A i \in DOMAIN e1 \ Used(e1) : e1[i] = NoEntry
    BY <1>0, <1>1, <1>2 DEF Pool
  <2>2. \A i \in Used(e1) : o[i] \in Tables
    BY <1>0, <1>2 DEF Pool
  <2> QED BY <1>1, <1>4, <2>1, <2>2 DEF Pool
<1>6. ASSUME NEW t \in Tables
      PROVE  Owned(e1, o, t, d1.table[t], c[t])
  <2> DEFINE tb == d.table[t]
             top == tb.top
  <2>0. Owned(e, o, t, tb, c[t])
    BY DEF Sound, e
  <2>1. Mine(e, o, t) \subseteq Used(e) /\ \A i \in Mine(e, o, t) : o[i] = t /\ i \in DOMAIN e
    BY <1>0 DEF Mine
  <2>2. top # Nil => e1[top].ivalue = e[top].ivalue
    <3>1. top # Nil => top \in Mine(e, o, t)
      BY <2>0 DEF Owned
    <3>2. top # Nil => top \in DOMAIN e /\ top \notin R
      BY <1>0, <2>1, <3>1
    <3> QED BY <1>1, <3>2
  <2>3. Ranked(e1, o, t, top)
    <3>1. Ranked(e, o, t, top)
      BY <2>0 DEF Owned
    <3>2. ASSUME NEW i \in Mine(e, o, t)
          PROVE  /\ e1[i].prev = Nil <=> i = top
                 /\ i # top => e1[i].key \in Keys /\ e1[i].ivalue \in Values
      <4>1. e1[i].prev = e[i].prev /\ e1[i].key = e[i].key
        BY <1>1, <2>1
      <4>2. e1[i].ivalue = e[i].ivalue \/ e1[i].ivalue \in Values
        BY <1>1, <2>1
      <4> HIDE DEF tb, top
      <4> QED BY <3>1, <4>1, <4>2 DEF Ranked
    <3>3. ASSUME NEW i \in Mine(e, o, t), t \in IntTables, e1[i].next # Nil
          PROVE  e1[e1[i].next].ivalue <= e1[i].ivalue
      <4>1. i \notin R
        BY <1>0, <2>1, <3>3, RankDBAssumption
      <4>2. e1[i] = e[i]
        BY <1>1, <2>1, <4>1
      <4>3. e[i].next \in Used(e) /\ o[e[i].next] = t
        BY <1>0, <2>1, <3>3, <4>2, PoolFacts
      <4>4. e[i].next \notin R /\ e[i].next \in DOMAIN e
        BY <1>0, <3>3, <4>3, RankDBAssumption
      <4>5. e1[e[i].next] = e[e[i].next]
        BY <1>1, <4>4
      <4> HIDE DEF tb, top
      <4> QED BY <3>1, <3>3, <4>2, <4>5 DEF Ranked
    <3> HIDE DEF tb, top
    <3> QED BY <1>3, <3>2, <3>3 DEF Ranked
  <2>4. Joined(e1, o, t, tb)
    <3>1. Joined(e, o, t, tb)
      BY <2>0 DEF Owned
    <3>2. \A j \in Used(tb.hash) : e1[tb.hash[j].dbind].key = e[tb.hash[j].dbind].key
      <4> HIDE DEF tb
      <4>1. \A j \in Used(tb.hash) : tb.hash[j].dbind \in DOMAIN e
        BY <2>1, <3>1 DEF Joined
      <4> QED BY <1>1, <4>1
    <3> HIDE DEF tb
    <3> QED BY <1>3, <3>1, <3>2 DEF Joined
  <2>5. d1.table[t] = tb
    BY <1>1
  <2>6. Ranked(e1, o, t, tb.top) /\ (tb.top # Nil => e1[tb.top].ivalue = e[tb.top].ivalue)
    BY <2>2, <2>3
  <2> HIDE DEF tb, top
  <2> QED BY <1>3, <2>0, <2>4, <2>5, <2>6 DEF Owned
<1> QED BY <1>1, <1>5, <1>6 DEF Sound, e1

(* A key of a string table that is written reads unescaped, any other as *)
(* before.                                                               *)
WornReads(d, S, d1) ==
  \A t \in Tables, k \in Keys :
    Get(d1, t, k) = IF t \in Texts(d, S) /\ Get(d, t, k) # Absent THEN Unescape[Get(d, t, k)]
                    ELSE Get(d, t, k)

(* So does the memory that dbFlush leaves.                               *)
LEMMA UnescapedFacts ==
  ASSUME NEW d, DbOK(d), NEW S \in SUBSET Tables
  PROVE  DbOK(Unescaped(d, S)) /\ WornReads(d, S, Unescaped(d, S))
<1> DEFINE d1 == Unescaped(d, S)
<1>1. PICK o, c : Sound(d, o, c)
  BY DEF DbOK
<1> DEFINE R == Rewritten(d, o, S)
<1>2. Worn(d, R, d1) /\ \A i \in R : d.entry[i].ivalue \in Values
  BY <1>1, UnescapedFields
<1> HIDE DEF d1
<1>3. Sound(d1, o, c)
  BY <1>1, <1>2, WornSound
<1>4. ASSUME NEW t \in Tables, NEW k \in Keys
      PROVE  Get(d1, t, k) = IF t \in Texts(d, S) /\ Get(d, t, k) # Absent
                             THEN Unescape[Get(d, t, k)] ELSE Get(d, t, k)
  <2> DEFINE tb == d.table[t]
  <2>1. Reads(d, c, t, k) /\ Reads(d1, c, t, k) /\ d1.table[t] = tb
    BY <1>1, <1>2, <1>3, GetFacts DEF Worn
  <2>2. CASE tb.top = Nil
    BY <2>1, <2>2 DEF Reads
  <2>3. CASE tb.top # Nil /\ \A j : ~OnChain(tb.hash, c[t], j, k)
    BY <2>1, <2>3 DEF Reads
  <2>4. CASE tb.top # Nil /\ \E j : OnChain(tb.hash, c[t], j, k)
    <3>1. PICK j : OnChain(tb.hash, c[t], j, k)
      BY <2>4
    <3> DEFINE i == tb.hash[j].dbind
    <3>2. i \in Mine(d.entry, o, t) \ {tb.top}
      BY <1>1, <3>1 DEF Sound, Owned, Joined, OnChain
    <3>3. i \in Used(d.entry) /\ o[i] = t /\ i # tb.top /\ i \in DOMAIN d.entry
      BY <3>2 DEF Mine, Used
    <3>4. /\ Get(d, t, k) = d.entry[i].ivalue /\ Get(d, t, k) \in Values
          /\ Get(d1, t, k) = d1.entry[i].ivalue
      BY <2>1, <2>4, <3>1 DEF Reads
    <3>5. Get(d, t, k) # Absent
      BY <3>4, AboveFacts
    <3> HIDE DEF i
    <3>6. i \in R <=> t \in Texts(d, S)
      BY <3>3 DEF Rewritten
    <3>7. d1.entry[i].ivalue = IF i \in R THEN Unescape[d.entry[i].ivalue] ELSE d.entry[i].ivalue
      BY <1>2, <3>3 DEF Worn
    <3> HIDE DEF R, tb
    <3> QED BY <3>4, <3>5, <3>6, <3>7
  <2> QED BY <2>2, <2>3, <2>4
<1>5. WornReads(d, S, d1)
  BY <1>4 DEF WornReads
<1> QED BY <1>3, <1>5 DEF DbOK, d1
-----------------------------------------------------------------------------
(* The invariant and the theorems.                                       *)

(* What dbGetEntryInt can return.                                        *)
LEMMA GetType ==
  ASSUME NEW d, DbOK(d), NEW t \in Tables, NEW k \in Keys
  PROVE  Get(d, t, k) \in Values \union {Absent}
<1>1. PICK o, c : Sound(d, o, c)
  BY DEF DbOK
<1>2. Reads(d, c, t, k)
  BY <1>1, GetFacts
<1> QED BY <1>2 DEF Reads

(* The lines are a sequence of keys and values.                          *)
LEMMA LinesType ==
  ASSUME NEW d, DbOK(d), NEW t \in Tables
  PROVE  Lines(d, t) \in Seq(Keys \X Values) /\ (t \in IntTables => Falling(Lines(d, t)))
<1>1. PICK o, c : Sound(d, o, c)
  BY DEF DbOK
<1>2. t \in IntTables => Falling(Lines(d, t))
  BY <1>1, LinesFalling
<1>3. CASE d.table[t].top = Nil
  <2>1. Lines(d, t) = <<>>
    BY <1>1, <1>3, NoLines
  <2> QED BY <1>2, <2>1
<1>4. CASE d.table[t].top # Nil
  <2>1. Lines(d, t) \in Seq(Keys \X Values)
    BY <1>1, <1>4, HasPath DEF Listed
  <2> QED BY <1>2, <2>1
<1> QED BY <1>3, <1>4

(* The beginning of a sorted file is sorted.                             *)
LEMMA FallingPrefix ==
  ASSUME NEW l \in Seq(Keys \X Values), NEW n \in 0 .. Len(l)
  PROVE  /\ SubSeq(l, 1, n) \in Seq(Keys \X Values)
         /\ Falling(l) => Falling(SubSeq(l, 1, n))
<1> DEFINE q == SubSeq(l, 1, n)
<1>1. Len(l) \in Nat /\ n \in Nat /\ n <= Len(l) /\ DOMAIN l = 1 .. Len(l)
  OBVIOUS
<1>2. q \in Seq(Keys \X Values) /\ Len(q) = n /\ \A j \in 1 .. n : q[j] = l[j]
  BY <1>1
<1>3. DOMAIN q = 1 .. n /\ \A j \in 1 .. n : j \in DOMAIN l
  BY <1>1, <1>2
<1> HIDE DEF q
<1>4. Falling(l) => Falling(q)
  BY <1>2, <1>3 DEF Falling
<1> QED BY <1>2, <1>4 DEF q

(* The last values given, a function.                                    *)
WrittenOK == written \in [Tables -> [Keys -> Values \union {Absent}]]

(* The inductive invariant.                                              *)
RankInv == DbOK(db) /\ FilesOK(file) /\ WrittenOK /\ ReadBack

InputFacts == \A in \in Inputs : in[1] \in Tables /\ in[2] \in Keys /\ in[3] \in Values

(* The inputs have their types.                                          *)
LEMMA InputTypes == InputFacts
  BY RankDBAssumption DEF InputFacts, Tables

(* The invariant holds at the start.                                     *)
LEMMA InitInv == Init => RankInv
<1> SUFFICES ASSUME Init PROVE RankInv
  OBVIOUS
<1> USE DEF Init
<1>1. DbOK(db)
  BY EmptySound
<1>2. FilesOK(file)
  BY DEF FilesOK, Falling
<1>3. WrittenOK
  BY DEF WrittenOK
<1>4. ReadBack
  BY EmptySound DEF ReadBack, Empty
<1> QED BY <1>1, <1>2, <1>3, <1>4 DEF RankInv

(* An update.                                                            *)
LEMMA UpdateInv ==
  ASSUME RankInv, NEW t \in Tables, NEW k \in Keys, NEW v \in Values, UpdateEntry(t, k, v)
  PROVE  RankInv'
<1> USE DEF RankInv
<1>1. /\ db' = Update(db, t, k, v) /\ written' = [written EXCEPT ![t][k] = v]
      /\ cut' = cut \ {<<t, k>>} /\ file' = file
  BY DEF UpdateEntry
<1>2. DbOK(db') /\ Updated(db, t, k, v, db')
  BY <1>1, UpdateFacts
<1>3. WrittenOK'
  BY <1>1 DEF WrittenOK
<1>4. /\ written'[t][k] = v
      /\ \A x \in Tables, y \in Keys : <<x, y>> # <<t, k>> => written'[x][y] = written[x][y]
  BY <1>1 DEF WrittenOK
<1>5. ASSUME NEW x \in Tables, NEW y \in Keys
      PROVE  Get(db', x, y) = IF <<x, y>> \in cut' THEN Absent ELSE written'[x][y]
  <2>1. CASE <<x, y>> = <<t, k>>
    <3>1. x = t /\ y = k
      BY <2>1
    <3> QED BY <1>1, <1>2, <1>4, <3>1 DEF Updated, NowReads
  <2>2. CASE <<x, y>> # <<t, k>>
    <3>1. Get(db', x, y) = Get(db, x, y)
      <4>1. x # t \/ y # k
        BY <2>2
      <4> QED BY <1>2, <4>1 DEF Updated, NowReads, Elsewhere
    <3>2. <<x, y>> \in cut' <=> <<x, y>> \in cut
      BY <1>1, <2>2
    <3> QED BY <1>4, <2>2, <3>1, <3>2 DEF ReadBack
  <2> QED BY <2>1, <2>2
<1>6. ReadBack'
  BY <1>5 DEF ReadBack
<1> QED BY <1>1, <1>2, <1>3, <1>6

(* The first entry of a chain is found for the keys of that chain only.  *)
LEMMA ChainKeys ==
  ASSUME NEW d, DbOK(d), NEW t \in Tables, NEW k \in Keys, NEW x \in Keys,
         d.table[t].top # Nil, tableGetEntry(d.table[t], k) # Nil,
         Hash[x] = tableGetEntry(d.table[t], k)
  PROVE  Hash[x] = Hash[k]
<1> DEFINE h == d.table[t].hash
           j == tableGetEntry(d.table[t], k)
<1>1. PICK o, c : Sound(d, o, c)
  BY DEF DbOK
<1>2. Chains(h, c[t])
  BY <1>1 DEF Sound, Owned
<1>3. OnChain(h, c[t], j, k)
  BY <1>1, EntryFound
<1>4. j <= Prime
  BY RankDBAssumption
<1> HIDE DEF h, j
<1>5. c[t][j] = j /\ c[t][j] = Hash[k]
  BY <1>2, <1>3, <1>4 DEF Chains, OnChain
<1> QED BY <1>5 DEF j

(* A deletion.                                                           *)
LEMMA DeleteInv ==
  ASSUME RankInv, NEW t \in Tables, NEW k \in Keys, DeleteEntry(t, k)
  PROVE  RankInv'
<1> USE DEF RankInv
<1>1. db' = dbDeleteEntry(db, t, k) /\ file' = file
  BY DEF DeleteEntry
<1>2. DbOK(db') /\ Dropped(db, t, k, db')
  BY <1>1, DropFacts
<1>3. CASE Get(db, t, k) = Absent
  <2>1. written' = written /\ cut' = cut
    BY <1>3 DEF DeleteEntry
  <2>2. \A x \in Tables, y \in Keys : Get(db', x, y) = Get(db, x, y)
    BY <1>2, <1>3 DEF Dropped, Elsewhere
  <2>3. ReadBack'
    BY <2>1, <2>2 DEF ReadBack
  <2>4. WrittenOK'
    BY <2>1 DEF WrittenOK
  <2> QED BY <1>1, <1>2, <2>3, <2>4
<1>4. CASE Get(db, t, k) # Absent
  <2> DEFINE tab == db.table[t]
             j == tableGetEntry(tab, k)
  <2>1. /\ written' = [written EXCEPT ![t][k] = Absent]
        /\ cut' = cut \union {<<t, x>> : x \in Behind(t, k)}
    BY <1>4 DEF DeleteEntry
  <2>2. WrittenOK'
    BY <2>1 DEF WrittenOK
  <2>3. /\ written'[t][k] = Absent
        /\ \A x \in Tables, y \in Keys : <<x, y>> # <<t, k>> => written'[x][y] = written[x][y]
    BY <2>1 DEF WrittenOK
  <2>4. tab.top # Nil /\ j # Nil
    BY Zenon, <1>2, <1>4 DEF Dropped, Get
  <2>5. Behind(t, k) = IF j # Hash[k] THEN {}
                       ELSE {x \in Keys \ {k} : Hash[x] = Hash[k] /\ tableGetEntry(tab, x) # Nil}
    BY <2>4 DEF Behind
  <2>6. \A x \in Keys : Hash[x] = j => Hash[x] = Hash[k]
    BY <2>4, ChainKeys
  <2>7. \A x \in Keys : tableGetEntry(tab, x) = Nil => Get(db, t, x) = Absent
    BY DEF Get
  <2> HIDE DEF tab, j
  <2>8. ASSUME NEW x \in Tables, NEW y \in Keys
        PROVE  Get(db', x, y) = IF <<x, y>> \in cut' THEN Absent ELSE written'[x][y]
    <3>1. Get(db, x, y) = IF <<x, y>> \in cut THEN Absent ELSE written[x][y]
      BY DEF ReadBack
    <3>2. CASE x # t
      <4>1. Get(db', x, y) = Get(db, x, y)
        BY <1>2, <3>2 DEF Dropped, Elsewhere
      <4>2. <<x, y>> \in cut' <=> <<x, y>> \in cut
        BY <2>1, <3>2
      <4>3. written'[x][y] = written[x][y]
        BY <2>3, <3>2
      <4> QED BY <3>1, <4>1, <4>2, <4>3
    <3>3. CASE x = t /\ y = k
      BY <1>2, <1>4, <2>3, <3>3 DEF Dropped
    <3>4. CASE x = t /\ y # k
      <4>1. Get(db', t, y) = IF Hash[y] = j THEN Absent ELSE Get(db, t, y)
        BY <1>2, <1>4, <3>4 DEF Dropped, j, tab
      <4>2. written'[t][y] = written[t][y]
        BY <2>3, <3>4
      <4>3. <<t, y>> \in cut' <=> <<t, y>> \in cut \/ y \in Behind(t, k)
        BY <2>1
      <4>4. CASE Hash[y] = j
        <5>1. Hash[y] = Hash[k] /\ j = Hash[k]
          BY <2>6, <4>4
        <5>2. y \notin Behind(t, k) => Get(db, t, y) = Absent
          BY <2>5, <2>7, <3>4, <5>1
        <5> QED BY <3>1, <3>4, <4>1, <4>2, <4>3, <4>4, <5>2
      <4>5. CASE Hash[y] # j
        <5>1. y \notin Behind(t, k)
          BY <2>5, <4>5
        <5> QED BY <3>1, <3>4, <4>1, <4>2, <4>3, <4>5, <5>1
      <4> QED BY <4>4, <4>5
    <3> QED BY <3>2, <3>3, <3>4
  <2>9. ReadBack'
    BY <2>8 DEF ReadBack
  <2> QED BY <1>1, <1>2, <2>2, <2>9
<1> QED BY <1>3, <1>4

(* Nothing that is read changes.                                         *)
LEMMA SameInv ==
  ASSUME RankInv, DbOK(db'), SameContents(db, db'), FilesOK(file'), UNCHANGED <<written, cut>>
  PROVE  RankInv'
<1>1. ReadBack'
  BY DEF RankInv, ReadBack, SameContents
<1>2. WrittenOK'
  BY DEF RankInv, WrittenOK
<1>3. FilesOK(file)'
  OBVIOUS
<1> QED BY <1>1, <1>2, <1>3 DEF RankInv

(* dbFlush writes lines that never rise, and unescapes what is read of   *)
(* the string tables it writes.                                          *)
LEMMA FlushInv ==
  ASSUME RankInv, NEW failed \in SUBSET Tables, dbFlush(failed)
  PROVE  RankInv'
<1> DEFINE S == Tables \ failed
           d == Unescaped(db, S)
<1>1. DbOK(db) /\ FilesOK(file) /\ WrittenOK /\ ReadBack
  BY DEF RankInv
<1>2. DbOK(d) /\ WornReads(db, S, d)
  BY <1>1, UnescapedFacts
<1>3. /\ file' = [t \in Tables |-> IF t \in failed THEN file[t] ELSE Stored(d, t)]
      /\ db' = [d EXCEPT !.table =
                  [t \in Tables |-> IF t \in failed THEN @[t]
                                    ELSE [@[t] EXCEPT !.updated = FALSE]]]
      /\ cut' = cut
  BY DEF dbFlush
<1>4. /\ written' = [t \in Tables |-> [k \in Keys |->
                       IF t \in Texts(db, S) /\ written[t][k] # Absent
                       THEN Unescape[written[t][k]] ELSE written[t][k]]]
  BY DEF dbFlush
<1> HIDE DEF d
<1>5. DbOK(db') /\ SameContents(d, db')
  <2> DEFINE d2 == [d EXCEPT !.table =
                     [t \in Tables |-> IF t \in failed THEN @[t]
                                       ELSE [@[t] EXCEPT !.updated = FALSE]]]
  <2>1. DbOK(d2) /\ SameContents(d, d2)
    BY <1>2, FlushFacts
  <2>2. db' = d2
    BY <1>3
  <2> HIDE DEF d2
  <2> QED BY <2>1, <2>2
<1>6. FilesOK(file')
  <2>1. ASSUME NEW t \in Tables
        PROVE  file'[t] \in Seq(Keys \X Values) /\ (t \in IntTables => Falling(file'[t]))
    <3>1. file'[t] = file[t] \/ file'[t] = Lines(d, t)
      BY <1>3 DEF Stored
    <3> QED BY <1>1, <1>2, <3>1, LinesType DEF FilesOK
  <2> QED BY <2>1 DEF FilesOK
<1>7. WrittenOK'
  <2>1. \A t \in Tables, k \in Keys : written[t][k] \in Values \union {Absent}
    BY <1>1 DEF WrittenOK
  <2>2. \A v \in Values : Unescape[v] \in Values
    BY RankDBAssumption
  <2> QED BY <1>4, <2>1, <2>2 DEF WrittenOK
<1>8. ASSUME NEW t \in Tables, NEW k \in Keys
      PROVE  Get(db', t, k) = IF <<t, k>> \in cut' THEN Absent ELSE written'[t][k]
  <2>1. Get(db', t, k) = Get(d, t, k)
    BY <1>5 DEF SameContents
  <2>2. Get(d, t, k) = IF t \in Texts(db, S) /\ Get(db, t, k) # Absent
                       THEN Unescape[Get(db, t, k)] ELSE Get(db, t, k)
    BY <1>2 DEF WornReads
  <2>3. Get(db, t, k) = IF <<t, k>> \in cut THEN Absent ELSE written[t][k]
    BY <1>1 DEF ReadBack
  <2>4. written'[t][k] = IF t \in Texts(db, S) /\ written[t][k] # Absent
                         THEN Unescape[written[t][k]] ELSE written[t][k]
    BY <1>4
  <2> QED BY <1>3, <2>1, <2>2, <2>3, <2>4
<1>9. ReadBack'
  BY <1>8 DEF ReadBack
<1> QED BY <1>5, <1>6, <1>7, <1>9 DEF RankInv

(* A restart builds a sound memory from the files.                       *)
LEMMA RestartInv ==
  ASSUME NEW f, FilesOK(f), Restart(f)
  PROVE  RankInv'
<1>1. DbOK(db')
  BY ReadFacts DEF Restart
<1>2. WrittenOK'
  <2>1. \A t \in Tables, k \in Keys : Get(db', t, k) \in Values \union {Absent}
    BY <1>1, GetType
  <2> QED BY <2>1 DEF WrittenOK, Restart
<1>3. ReadBack'
  <2>1. \A t \in Tables, k \in Keys : written'[t][k] = Get(db', t, k)
    BY DEF Restart
  <2>2. cut' = {}
    BY DEF Restart
  <2> QED BY <2>1, <2>2 DEF ReadBack
<1>4. FilesOK(file')
  BY DEF Restart
<1> QED BY <1>1, <1>2, <1>3, <1>4 DEF RankInv

(* So does one that finds a file cut short.                              *)
LEMMA CutShortInv ==
  ASSUME RankInv, NEW t \in Tables, CutShort(t)
  PROVE  RankInv'
<1> DEFINE l == Lines(Unescaped(db, {t}), t)
<1>1. PICK n \in 0 .. Len(l) : Restart([file EXCEPT ![t] = SubSeq(l, 1, n)])
  BY Zenon DEF CutShort
<1> DEFINE q == SubSeq(l, 1, n)
           f == [file EXCEPT ![t] = q]
<1>2. DbOK(db) /\ FilesOK(file)
  BY DEF RankInv
<1>3. l \in Seq(Keys \X Values) /\ (t \in IntTables => Falling(l))
  BY <1>2, UnescapedFacts, LinesType
<1> HIDE DEF l
<1>4. q \in Seq(Keys \X Values) /\ (Falling(l) => Falling(q))
  BY <1>3, FallingPrefix
<1> HIDE DEF q
<1>5. FilesOK(f)
  <2>1. ASSUME NEW x \in Tables
        PROVE  f[x] \in Seq(Keys \X Values) /\ (x \in IntTables => Falling(f[x]))
    <3>1. f[x] = file[x] \/ (x = t /\ f[x] = q)
      OBVIOUS
    <3> HIDE DEF f
    <3> QED BY <1>2, <1>3, <1>4, <3>1 DEF FilesOK
  <2> HIDE DEF f
  <2> QED BY <2>1 DEF FilesOK
<1>6. Restart(f)
  BY <1>1 DEF q
<1> HIDE DEF f
<1> QED BY <1>5, <1>6, RestartInv

(* Every step keeps the invariant.                                       *)
LEMMA NextInv == RankInv /\ [Next]_vars => RankInv'
<1> SUFFICES ASSUME RankInv, [Next]_vars PROVE RankInv'
  OBVIOUS
<1>1. ASSUME NEW in \in Inputs, UpdateEntry(in[1], in[2], in[3]) PROVE RankInv'
  <2>1. in[1] \in Tables /\ in[2] \in Keys /\ in[3] \in Values
    BY InputTypes DEF InputFacts
  <2> QED BY <1>1, <2>1, UpdateInv
<1>2. ASSUME NEW in \in Inputs, DeleteEntry(in[1], in[2]) PROVE RankInv'
  <2>1. in[1] \in Tables /\ in[2] \in Keys
    BY InputTypes DEF InputFacts
  <2> QED BY <1>2, <2>1, DeleteInv
<1>3. ASSUME NEW t \in Tables, Query(t) PROVE RankInv'
  <2>1. DbOK(db') /\ SameContents(db, db')
    BY <1>3, QueryFacts DEF Query, RankInv
  <2>2. FilesOK(file')
    BY <1>3 DEF Query, RankInv
  <2> QED BY <1>3, <2>1, <2>2, SameInv DEF Query
<1>4. ASSUME NEW t \in Tables, CutShort(t) PROVE RankInv'
  BY <1>4, CutShortInv
<1>5. ASSUME NEW failed \in SUBSET Tables, dbFlush(failed) PROVE RankInv'
  BY <1>5, FlushInv
<1>6. ASSUME Restart(file) PROVE RankInv'
  BY <1>6, RestartInv DEF RankInv
<1>7. ASSUME UNCHANGED vars PROVE RankInv'
  BY <1>7 DEF vars, RankInv, DbOK, FilesOK, WrittenOK, ReadBack
<1> QED BY <1>1, <1>2, <1>3, <1>4, <1>5, <1>6, <1>7 DEF Next

(* The inductive invariant holds in every state.                         *)
THEOREM InvHolds == Spec => []RankInv
<1>1. Init => RankInv
  BY InitInv
<1>2. RankInv /\ [Next]_vars => RankInv'
  BY NextInv
<1> QED BY <1>1, <1>2, PTL DEF Spec

(* The pool, the hash tables and the files keep their types (dbEntry_t,  *)
(* hashEntry_t and the lines dbFlush writes).                            *)
THEOREM RankDBTypeOK == Spec => []TypeOK
<1>1. RankInv => TypeOK
  <2> SUFFICES ASSUME RankInv PROVE TypeOK
    OBVIOUS
  <2>1. PICK o, c : Sound(db, o, c)
    BY DEF RankInv, DbOK
  <2>2. db.entry \in Seq(Node) /\ \A t \in Tables : db.table[t] \in TableType
    BY <2>1 DEF Sound, DBType
  <2>3. \A t \in Tables : file[t] \in Seq(Keys \X Values)
    BY DEF RankInv, FilesOK
  <2> QED BY <2>2, <2>3 DEF TypeOK, TableType
<1> QED BY <1>1, InvHolds, PTL

(* A node in use is the top node of one table or on one list and named   *)
(* by one hash entry of that table: no update, deletion, flush or        *)
(* restart leaks or shares a node of dbEntries.                          *)
THEOREM RankDBPoolConsistent == Spec => []PoolConsistent
<1>1. RankInv => PoolConsistent
  BY SoundConsistent DEF RankInv
<1> QED BY <1>1, InvHolds, PTL

(* The rank dbGetEntryRank reports is the number of entries with a       *)
(* larger value, for every order of updates and deletions.               *)
THEOREM RankDBRanks == Spec => []RankIsCountAbove
<1>1. RankInv => RankIsCountAbove
  BY SoundRanks DEF RankInv
<1> QED BY <1>1, InvHolds, PTL

(* dbGetEntryInt returns what was last written, and dbGetEntryString     *)
(* that, unescaped once for every dbFlush that has written its table     *)
(* since, whatever unescaping does to a value; but for the keys the      *)
(* deletion of the first entry of their chain cuts off                   *)
(* (dbDeleteEntryInt, tableReleaseNode; makeStringFromEscaped).          *)
THEOREM RankDBReadBack == Spec => []ReadBack
<1>1. RankInv => ReadBack
  BY DEF RankInv
<1> QED BY <1>1, InvHolds, PTL

(* dbRead builds, from files dbFlush wrote or was cut short in, the      *)
(* ranking the files hold, in their order.                               *)
THEOREM RankDBRestart == Spec => []RestartRestores
<1>1. RankInv => RestartRestores
  BY ReadFacts DEF RankInv, RestartRestores
<1> QED BY <1>1, InvHolds, PTL
=============================================================================
