-------------------------- MODULE MemBuffer_proofs --------------------------
(***************************************************************************)
(* Proofs about the connection buffers.  The invariant, IInv, sees the     *)
(* pool and the chains as one relation of ownership (Pool): a buffer in    *)
(* use is linked at exactly one position of one chain, an unused one at    *)
(* none, the count of the used ones is exact, and behind a head no buffer  *)
(* is empty.  Each of the four operations on chains, appendMemBufList,     *)
(* consumeMemBufList, the release by tcpstruct_close and the two heads of  *)
(* tcpstruct_accept, is shown to keep it, to do to the text of its own     *)
(* chain what the byte streams say, and to leave every other chain its     *)
(* text; the refinement follows.  A chain is a sequence and its text a     *)
(* fold over it: the first section has what is needed of that.             *)
(***************************************************************************)
EXTENDS MemBuffer, NaturalsInduction, WellFoundedInduction, SequenceTheorems,
        FiniteSetTheorems, TLAPS

(***************************************************************************)
(* FlattenSeq, the concatenation of the parts of a sequence.  It chooses a *)
(* recursively defined function, so it is reached through the partial      *)
(* sums: that such sums exist, and that they are what FlattenSeq chooses,  *)
(* is proved by induction over their number, stated of a set of natural    *)
(* numbers.  The two results the rest uses: FlatAppend, what appending to  *)
(* the last part and adding parts behind it makes of the whole, and        *)
(* FlatDrop, what is left of it when a number of elements is taken from    *)
(* its front part by part.                                                 *)
(***************************************************************************)

(* A set of natural numbers that is not empty has a least member.          *)
LEMMA LeastNat ==
  ASSUME NEW S, S \subseteq Nat, S # {}
  PROVE  \E m \in S : \A n \in S : m <= n
<1> DEFINE R == OpToRel(<, Nat)
<1>1. PICK m \in S : \A n \in S : ~(<<n, m>> \in R)
  <2>1. IsWellFoundedOn(R, Nat)
    BY NatLessThanWellFounded
  <2> HIDE DEF R
  <2> QED BY <2>1, WFMin
<1>2. ASSUME NEW n \in S PROVE m <= n
  <2>1. ~(n < m)
    BY <1>1 DEF OpToRel
  <2> QED BY <2>1
<1> QED BY <1>2

(* Induction, stated of a set: it needs no operator as a parameter.        *)
LEMMA Induction ==
  ASSUME NEW S, 0 \in S, \A n \in Nat : n \in S => n + 1 \in S
  PROVE  Nat \subseteq S
<1> SUFFICES ASSUME Nat \ S # {} PROVE  FALSE
  OBVIOUS
<1>1. PICK m \in Nat \ S : \A n \in Nat \ S : m <= n
  BY LeastNat
<1>2. m # 0 /\ m - 1 \in Nat
  BY <1>1
<1>3. m - 1 \in S
  BY <1>1, <1>2
<1> QED BY <1>1, <1>2, <1>3

(* g[i] is the concatenation of the first i parts of s, for i up to n.     *)
Sums(s, n, B, g) ==
  /\ g \in [1 .. n -> Seq(B)]
  /\ \A i \in 1 .. n : g[i] = IF i = 1 THEN s[i] ELSE g[i - 1] \o s[i]

(* For all of s.                                                           *)
AllSums(s, B, g) == Sums(s, Len(s), B, g)

(* What FlattenSeq chooses.                                                *)
Flatten(s, h) == h = [i \in 1 .. Len(s) |-> IF i = 1 THEN s[i] ELSE h[i - 1] \o s[i]]

(* Two functions with the recursion of the partial sums are the same one.  *)
LEMMA SumsAreUnique ==
  ASSUME NEW B, NEW s \in Seq(Seq(B)), NEW g, AllSums(s, B, g), NEW h, Flatten(s, h)
  PROVE  h = g
<1> DEFINE S == {n \in Nat : \A i \in 1 .. Len(s) : i <= n => h[i] = g[i]}
<1>1. Len(s) \in Nat
  OBVIOUS
<1>2. 0 \in S
  BY <1>1
<1>3. ASSUME NEW n \in Nat, n \in S PROVE n + 1 \in S
  <2>1. ASSUME NEW i \in 1 .. Len(s), i <= n + 1 PROVE h[i] = g[i]
    <3>1. CASE i <= n
      BY <3>1, <1>3
    <3>2. CASE i = n + 1
      <4>1. h[i] = IF i = 1 THEN s[i] ELSE h[i - 1] \o s[i]
        BY DEF Flatten
      <4>2. i # 1 => i - 1 \in 1 .. Len(s) /\ i - 1 <= n
        BY <3>2, <1>1
      <4>3. i # 1 => h[i - 1] = g[i - 1]
        BY <4>2, <1>3
      <4> QED BY <4>1, <4>3 DEF AllSums, Sums
    <3> QED BY <3>1, <3>2, <2>1, <1>1
  <2> QED BY <2>1
<1>4. Nat \subseteq S
  <2> HIDE DEF S
  <2> QED BY <1>2, <1>3, Induction
<1>5. \A i \in 1 .. Len(s) : h[i] = g[i]
  <2>1. Len(s) \in S
    BY <1>4, <1>1
  <2> QED BY <2>1, <1>1
<1>6. h = [i \in 1 .. Len(s) |-> h[i]] /\ g = [i \in 1 .. Len(s) |-> g[i]]
  BY DEF AllSums, Sums, Flatten
<1> QED BY <1>5, <1>6

(* FlattenSeq is the last partial sum.                                     *)
LEMMA SumsAreFlat ==
  ASSUME NEW B, NEW s \in Seq(Seq(B)), Len(s) # 0, NEW g, AllSums(s, B, g)
  PROVE  FlattenSeq(s) = g[Len(s)]
<1> DEFINE f == CHOOSE h : Flatten(s, h)
<1>1. FlattenSeq(s) = f[Len(s)]
  BY DEF FlattenSeq, Flatten
<1>2. Flatten(s, g)
  <2>1. g = [i \in 1 .. Len(s) |-> g[i]]
    BY DEF AllSums, Sums
  <2> QED BY <2>1 DEF AllSums, Sums, Flatten
<1>3. Flatten(s, f)
  BY <1>2
<1>4. f = g
  <2> HIDE DEF f
  <2> QED BY <1>3, SumsAreUnique
<1> QED BY <1>1, <1>4

(* Every sequence has its partial sums.                                    *)
LEMMA SumsExist ==
  ASSUME NEW B, NEW s \in Seq(Seq(B))
  PROVE  \E g : AllSums(s, B, g)
<1> DEFINE S == {n \in Nat : n <= Len(s) => \E g : Sums(s, n, B, g)}
<1>1. 0 \in S
  <2>1. Sums(s, 0, B, [i \in 1 .. 0 |-> <<>>])
    BY DEF Sums
  <2> QED BY <2>1
<1>2. ASSUME NEW n \in Nat, n \in S PROVE n + 1 \in S
  <2>1. SUFFICES ASSUME n + 1 <= Len(s) PROVE \E g : Sums(s, n + 1, B, g)
    OBVIOUS
  <2>2. PICK g : Sums(s, n, B, g)
    BY <1>2, <2>1
  <2>3. \A i \in 1 .. n + 1 : s[i] \in Seq(B)
    BY <2>1
  <2>4. g \in [1 .. n -> Seq(B)]
    BY <2>2 DEF Sums
  <2>5. PICK x \in Seq(B) : x = IF n = 0 THEN s[1] ELSE g[n] \o s[n + 1]
    <3>1. n # 0 => g[n] \in Seq(B) /\ s[n + 1] \in Seq(B)
      BY <2>3, <2>4
    <3>2. n # 0 => g[n] \o s[n + 1] \in Seq(B)
      BY <3>1
    <3>3. s[1] \in Seq(B)
      BY <2>3
    <3> QED BY <3>2, <3>3
  <2> DEFINE h == [i \in 1 .. n + 1 |-> IF i <= n THEN g[i] ELSE x]
  <2>6. h \in [1 .. n + 1 -> Seq(B)]
    BY <2>4, <2>5
  <2>7. ASSUME NEW i \in 1 .. n + 1
        PROVE  h[i] = IF i = 1 THEN s[i] ELSE h[i - 1] \o s[i]
    <3>1. CASE i = n + 1
      <4>1. h[i] = x
        BY <3>1
      <4>2. n # 0 => h[i - 1] = g[n]
        BY <3>1
      <4> HIDE DEF h
      <4> QED BY <4>1, <4>2, <2>5, <3>1
    <3>2. CASE i <= n
      <4>1. h[i] = g[i]
        BY <3>2
      <4>2. i \in 1 .. n
        BY <3>2
      <4>3. g[i] = IF i = 1 THEN s[i] ELSE g[i - 1] \o s[i]
        BY <2>2, <4>2 DEF Sums
      <4>4. i # 1 => h[i - 1] = g[i - 1]
        BY <3>2
      <4> HIDE DEF h
      <4> QED BY <4>1, <4>3, <4>4
    <3> QED BY <3>1, <3>2
  <2>8. Sums(s, n + 1, B, h)
    <3> HIDE DEF h
    <3> QED BY <2>6, <2>7 DEF Sums
  <2> QED BY <2>8
<1>3. Nat \subseteq S
  <2> HIDE DEF S
  <2> QED BY <1>1, <1>2, Induction
<1>4. Len(s) \in S
  BY <1>3
<1> QED BY <1>4 DEF AllSums

(* The partial sums only grow longer.                                      *)
LEMMA SumsGrow ==
  ASSUME NEW B, NEW s \in Seq(Seq(B)), NEW g, AllSums(s, B, g),
         NEW i \in 1 .. Len(s)
  PROVE  \A j \in i .. Len(s) : Len(g[i]) <= Len(g[j])
<1> DEFINE S == {n \in Nat : \A j \in i .. Len(s) : j <= n => Len(g[i]) <= Len(g[j])}
<1>0. Len(s) \in Nat /\ g \in [1 .. Len(s) -> Seq(B)]
  BY DEF AllSums, Sums
<1>1. ASSUME NEW j \in 1 .. Len(s) PROVE g[j] \in Seq(B) /\ Len(g[j]) \in Nat
  <2>1. g[j] \in Seq(B)
    BY <1>0
  <2> QED BY <2>1, LenProperties
<1>2. 0 \in S
  BY <1>1, <1>0
<1>3. ASSUME NEW n \in Nat, n \in S PROVE n + 1 \in S
  <2>1. ASSUME NEW j \in i .. Len(s), j = n + 1, j # i PROVE Len(g[i]) <= Len(g[j])
    <3>1. PICK k \in i .. Len(s) : k = j - 1
      BY <2>1, <1>0
    <3>2. g[j] = g[k] \o s[j]
      <4>1. j \in 1 .. Len(s) /\ j # 1
        BY <2>1, <1>0
      <4> QED BY <4>1, <3>1 DEF AllSums, Sums
    <3>3. PICK a \in Seq(B), b \in Seq(B), x \in Seq(B) : a = g[k] /\ b = s[j] /\ x = g[i]
      BY <1>1, <1>0
    <3>4. Len(a \o b) = Len(a) + Len(b) /\ Len(a) \in Nat /\ Len(b) \in Nat /\ Len(x) \in Nat
      BY ConcatProperties, LenProperties
    <3>5. Len(x) <= Len(a)
      BY <1>3, <2>1, <3>1, <3>3
    <3>6. Len(x) <= Len(a \o b)
      BY <3>4, <3>5
    <3> QED BY <3>2, <3>3, <3>6
  <2>2. ASSUME NEW j \in i .. Len(s), j <= n + 1 PROVE Len(g[i]) <= Len(g[j])
    <3>1. CASE j <= n
      BY <3>1, <1>3
    <3>2. CASE j = i
      <4>1. PICK x : x = g[i]
        OBVIOUS
      <4>2. Len(x) \in Nat
        BY <4>1, <1>1
      <4>3. Len(x) <= Len(x)
        BY <4>2
      <4> QED BY <4>1, <4>3, <3>2
    <3>3. j <= n \/ j = n + 1
      BY <2>2
    <3> QED BY <3>1, <3>2, <3>3, <2>1
  <2> QED BY <2>2
<1>4. Nat \subseteq S
  <2> HIDE DEF S
  <2> QED BY <1>2, <1>3, Induction
<1>5. Len(s) \in S
  BY <1>4, <1>0
<1> QED BY <1>5, <1>0

(* The partial sums are the prefixes, flattened.                           *)
IsPrefixOf(p, s, n) == Len(p) = n /\ \A i \in 1 .. n : p[i] = s[i]

(* Flattening the first n parts gives the n-th partial sum.                *)
LEMMA PrefixFlat ==
  ASSUME NEW B, NEW s \in Seq(Seq(B)), NEW g, AllSums(s, B, g), NEW n \in 1 .. Len(s),
         NEW p \in Seq(Seq(B)), IsPrefixOf(p, s, n)
  PROVE  FlattenSeq(p) = g[n]
<1>0. Len(p) = n /\ \A i \in 1 .. n : p[i] = s[i]
  BY DEF IsPrefixOf
<1>1. PICK l \in Nat, m \in Nat \ {0} : l = Len(s) /\ m = n
  OBVIOUS
<1>2. /\ g \in [1 .. l -> Seq(B)]
      /\ \A i \in 1 .. l : g[i] = IF i = 1 THEN s[i] ELSE g[i - 1] \o s[i]
  BY <1>1 DEF AllSums, Sums
<1>3. m \in 1 .. l
  BY <1>1
<1> DEFINE h == [i \in 1 .. m |-> g[i]]
<1>4. h \in [1 .. m -> Seq(B)]
  BY <1>2, <1>3
<1>5. ASSUME NEW i \in 1 .. m
      PROVE  h[i] = IF i = 1 THEN p[i] ELSE h[i - 1] \o p[i]
  <2>1. h[i] = g[i] /\ (i # 1 => h[i - 1] = g[i - 1])
    OBVIOUS
  <2>2. p[i] = s[i] /\ i \in 1 .. l
    BY <1>0, <1>1, <1>3
  <2> HIDE DEF h
  <2> QED BY <2>1, <2>2, <1>2, Zenon
<1> HIDE DEF h
<1>6. AllSums(p, B, h)
  BY <1>0, <1>1, <1>4, <1>5 DEF AllSums, Sums
<1>7. FlattenSeq(p) = h[Len(p)]
  <2>1. Len(p) # 0
    BY <1>0, <1>1
  <2> QED BY <2>1, <1>6, SumsAreFlat
<1>8. h[m] = g[m]
  BY DEF h
<1> QED BY <1>0, <1>1, <1>7, <1>8

(* What is left of s without its first k elements.                         *)
Drop(s, k) == SubSeq(s, k + 1, Len(s))
Less(k, n) == IF n < k THEN k - n ELSE 0

(* The type, the length and the elements of a concatenation.               *)
LEMMA ConcatFacts ==
  ASSUME NEW B, NEW v \in Seq(B), NEW w \in Seq(B), NEW x, x = Len(v),
         NEW y, y = Len(w), NEW r, r = v \o w
  PROVE  /\ r \in Seq(B) /\ Len(r) = x + y
         /\ \A i \in 1 .. x + y : r[i] = IF i <= x THEN v[i] ELSE w[i - x]
OBVIOUS

(* a elements and b more, k of them dropped: q of the b are, x and y stay. *)
Lengths(a, b, c, k, q, x, y, z) ==
  /\ c = a + b /\ q = Less(k, a)
  /\ x = Less(a, k) /\ y = Less(b, q) /\ z = Less(c, k)

(* The arithmetic of dropping across the seam of a concatenation.          *)
LEMMA LessFacts ==
  ASSUME NEW a \in Nat, NEW b \in Nat, NEW k \in Nat,
         NEW c, NEW q, NEW x, NEW y, NEW z, Lengths(a, b, c, k, q, x, y, z)
  PROVE  /\ q \in Nat /\ x \in Nat /\ y \in Nat /\ z \in Nat /\ z = x + y
         /\ \A i \in 1 .. z :
              /\ k + i \in 1 .. c
              /\ i <= x => k + i <= a
              /\ i > x => k + i > a /\ k + i - a = q + (i - x)
<1>1. CASE a < k
  BY <1>1 DEF Less, Lengths
<1>2. CASE k <= a
  BY <1>2 DEF Less, Lengths
<1> QED BY <1>1, <1>2

(* The type, the length and the elements of what is left of s.             *)
LEMMA DropFacts ==
  ASSUME NEW B, NEW s \in Seq(B), NEW k \in Nat, NEW a, a = Len(s), NEW n, n = Less(a, k),
         NEW d, d = Drop(s, k)
  PROVE  /\ n \in Nat /\ d \in Seq(B) /\ Len(d) = n
         /\ \A i \in 1 .. n : d[i] = s[k + i]
         /\ d = <<>> <=> a <= k
<1>0. a \in Nat /\ n \in Nat
  BY LenProperties DEF Less
<1>1. \A i \in k + 1 .. a : s[i] \in B
  OBVIOUS
<1>3. /\ d \in Seq(B)
      /\ Len(d) = IF k + 1 <= a THEN a - (k + 1) + 1 ELSE 0
      /\ \A i \in 1 .. a - (k + 1) + 1 : d[i] = s[k + 1 + i - 1]
  <2>1. PICK m \in Int : m = k + 1
    OBVIOUS
  <2>2. d = SubSeq(s, m, a) /\ \A i \in m .. a : s[i] \in B
    BY <1>1, <2>1 DEF Drop
  <2>3. /\ d \in Seq(B)
        /\ Len(d) = IF m <= a THEN a - m + 1 ELSE 0
        /\ \A i \in 1 .. a - m + 1 : d[i] = s[m + i - 1]
    BY <1>0, <2>2, SubSeqProperties
  <2> QED BY <2>3, <2>1
<1>4. Len(d) = n
  BY <1>3, <1>0 DEF Less
<1>5. ASSUME NEW i \in 1 .. n PROVE d[i] = s[k + i]
  <2>1. i \in 1 .. a - (k + 1) + 1 /\ k + 1 + i - 1 = k + i
    BY <1>0 DEF Less
  <2> QED BY <1>3, <2>1
<1>6. d = <<>> <=> a <= k
  <2>1. d = <<>> <=> Len(d) = 0
    BY <1>3, EmptySeq
  <2> QED BY <2>1, <1>4, <1>0 DEF Less
<1> QED BY <1>0, <1>3, <1>4, <1>5, <1>6

(* u is s and t; dropping k elements of u leaves l, and drops q of t.      *)
Cut(B, s, t, u, k, a, q, l, v, w) ==
  /\ s \in Seq(B) /\ t \in Seq(B) /\ k \in Nat
  /\ a = Len(s) /\ q = Less(k, a) /\ u = s \o t
  /\ l = Drop(u, k) /\ v = Drop(s, k) /\ w = Drop(t, q)

(* Dropping from a concatenation drops from its first side, then from the  *)
(* second.                                                                 *)
LEMMA DropConcat ==
  ASSUME NEW B, NEW s, NEW t, NEW u, NEW k, NEW a, NEW q, NEW l, NEW v, NEW w,
         Cut(B, s, t, u, k, a, q, l, v, w)
  PROVE  l = v \o w
<1>0. /\ s \in Seq(B) /\ t \in Seq(B) /\ k \in Nat
      /\ a = Len(s) /\ q = Less(k, a) /\ u = s \o t
      /\ l = Drop(u, k) /\ v = Drop(s, k) /\ w = Drop(t, q)
  BY DEF Cut
<1>1. PICK b, c : b = Len(t) /\ c = a + b
  OBVIOUS
<1>2. a \in Nat /\ b \in Nat
  BY <1>0, <1>1, LenProperties
<1>3. /\ u \in Seq(B) /\ Len(u) = c
      /\ \A i \in 1 .. c : u[i] = IF i <= a THEN s[i] ELSE t[i - a]
  BY <1>0, <1>1, ConcatFacts
<1>4. PICK x, y, z : x = Less(a, k) /\ y = Less(b, q) /\ z = Less(c, k)
  OBVIOUS
<1>5. Lengths(a, b, c, k, q, x, y, z)
  BY <1>0, <1>1, <1>4 DEF Lengths
<1>6. /\ q \in Nat /\ x \in Nat /\ y \in Nat /\ z \in Nat /\ z = x + y
      /\ \A i \in 1 .. z :
           /\ k + i \in 1 .. c
           /\ i <= x => k + i <= a
           /\ i > x => k + i > a /\ k + i - a = q + (i - x)
  BY <1>0, <1>2, <1>5, LessFacts, SMTT(30)
<1>7. l \in Seq(B) /\ Len(l) = z /\ \A i \in 1 .. z : l[i] = u[k + i]
  <2>1. u \in Seq(B) /\ c = Len(u) /\ z = Less(c, k) /\ l = Drop(u, k) /\ k \in Nat
    BY <1>0, <1>3, <1>4
  <2> QED BY ONLY <2>1, DropFacts
<1>8. v \in Seq(B) /\ Len(v) = x /\ \A i \in 1 .. x : v[i] = s[k + i]
  BY <1>0, <1>4, DropFacts
<1>9. w \in Seq(B) /\ Len(w) = y /\ \A i \in 1 .. y : w[i] = t[q + i]
  <2>1. t \in Seq(B) /\ b = Len(t) /\ y = Less(b, q) /\ w = Drop(t, q) /\ q \in Nat
    BY <1>0, <1>1, <1>4, <1>6
  <2> QED BY ONLY <2>1, DropFacts
<1>10. PICK r : r = v \o w
  OBVIOUS
<1>11. /\ r \in Seq(B) /\ Len(r) = x + y
       /\ \A i \in 1 .. x + y : r[i] = IF i <= x THEN v[i] ELSE w[i - x]
  BY ONLY <1>6, <1>8, <1>9, <1>10, ConcatFacts
<1>12. ASSUME NEW i \in 1 .. z PROVE l[i] = r[i]
  <2>1. /\ k + i \in 1 .. c
        /\ i <= x => k + i <= a
        /\ i > x => k + i > a /\ k + i - a = q + (i - x)
    BY <1>6
  <2>2. l[i] = u[k + i] /\ i \in 1 .. x + y
    BY <1>6, <1>7
  <2>3. CASE i <= x
    <3>1. u[k + i] = s[k + i]
      BY <2>1, <2>3, <1>3
    <3>2. v[i] = s[k + i]
      BY <2>3, <1>6, <1>8
    <3>3. r[i] = v[i]
      BY <2>2, <2>3, <1>11
    <3> QED BY <3>1, <3>2, <3>3, <2>2
  <2>4. CASE i > x
    <3>1. u[k + i] = t[k + i - a]
      <4>1. ~(k + i <= a)
        BY <2>1, <2>4, <1>2
      <4> QED BY <4>1, <2>1, <1>0, <1>3
    <3>2. i - x \in 1 .. y
      BY <2>2, <2>4, <1>6
    <3>3. w[i - x] = t[q + (i - x)]
      BY <3>2, <1>9
    <3>4. r[i] = w[i - x]
      BY <2>2, <2>4, <1>6, <1>11
    <3> QED BY <3>1, <3>3, <3>4, <2>1, <2>2, <2>4
  <2> QED BY <2>3, <2>4, <1>6
<1>13. l = r
  BY <1>6, <1>7, <1>11, <1>12, SeqEqual
<1> QED BY <1>10, <1>13

(* What consumption leaves of the parts of s, given g, their partial sums. *)
Leaves(s, g, max, left) ==
  \A i \in 1 .. Len(s) :
    left[i] = Drop(s[i], Less(max, IF i = 1 THEN 0 ELSE Len(g[i - 1])))

(* One leftover, d, with its part a and its partial sum u: either the      *)
(* first, or behind a partial sum v.                                       *)
Leaf(B, s, g, max, i, a, u, d) ==
  /\ a \in Seq(B) /\ u \in Seq(B)
  /\ i = 1 => u = a /\ d = Drop(a, max)
  /\ i # 1 => \E k \in 1 .. Len(s) : \E v \in Seq(B) : \E n, q \in Nat :
       /\ k = i - 1 /\ v = g[k] /\ u = v \o a
       /\ n = Len(v) /\ q = Less(max, n) /\ d = Drop(a, q)

(* The i-th leftover is what the bytes before the i-th part leave to be    *)
(* dropped of it.                                                          *)
LEMMA LeavesFacts ==
  ASSUME NEW B, NEW s \in Seq(Seq(B)), NEW g, AllSums(s, B, g), NEW max \in Nat,
         NEW left, Leaves(s, g, max, left), NEW i \in 1 .. Len(s),
         NEW a, a = s[i], NEW u, u = g[i], NEW d, d = left[i]
  PROVE  Leaf(B, s, g, max, i, a, u, d)
<1>1. g \in [1 .. Len(s) -> Seq(B)] /\ Len(s) \in Nat
  BY DEF AllSums, Sums
<1>2. a \in Seq(B) /\ u \in Seq(B)
  <2>1. g[i] \in Seq(B)
    BY <1>1
  <2>2. s[i] \in Seq(B)
    BY ElementOfSeq
  <2> QED BY <2>1, <2>2
<1>3. CASE i = 1
  <2>1. Less(max, 0) = max
    BY DEF Less
  <2>2. u = a
    BY <1>3 DEF AllSums, Sums
  <2>3. d = Drop(a, max)
    BY <1>3, <2>1 DEF Leaves
  <2> QED BY <2>2, <2>3, <1>2, <1>3 DEF Leaf
<1>4. CASE i # 1
  <2>1. PICK k \in 1 .. Len(s) : k = i - 1
    BY <1>4, <1>1
  <2>2. PICK v \in Seq(B) : v = g[k]
    BY <1>1
  <2>3. u = v \o a
    BY <1>4, <2>1, <2>2 DEF AllSums, Sums
  <2>4. PICK n \in Nat : n = Len(v)
    BY LenProperties
  <2>5. PICK q \in Nat : q = Less(max, n)
    <3>1. Less(max, n) \in Nat
      BY DEF Less
    <3> QED BY <3>1
  <2>6. d = Drop(a, q)
    BY <1>4, <2>1, <2>2, <2>4, <2>5 DEF Leaves
  <2> QED BY <2>1, <2>2, <2>3, <2>4, <2>5, <2>6, <1>2, <1>4 DEF Leaf
<1> QED BY <1>3, <1>4

(* e is what is left of the first i parts, d what is left of the i-th.     *)
Extends(s, g, max, i, d, e) ==
  /\ i = 1 => e = d
  /\ i # 1 => \E k \in 1 .. Len(s) : k = i - 1 /\ e = Drop(g[k], max) \o d

(* What is left of the first i parts ends in what is left of the i-th.     *)
LEMMA SumDrops ==
  ASSUME NEW B, NEW s \in Seq(Seq(B)), NEW g, AllSums(s, B, g), NEW max \in Nat,
         NEW left, Leaves(s, g, max, left), NEW i \in 1 .. Len(s),
         NEW d, d = left[i], NEW u, u = g[i], NEW e, e = Drop(u, max)
  PROVE  d \in Seq(B) /\ e \in Seq(B) /\ Extends(s, g, max, i, d, e)
<1>1. PICK a : a = s[i]
  OBVIOUS
<1>2. /\ a \in Seq(B) /\ u \in Seq(B)
      /\ i = 1 => u = a /\ d = Drop(a, max)
      /\ i # 1 => \E k \in 1 .. Len(s) : \E v \in Seq(B) : \E n, q \in Nat :
           /\ k = i - 1 /\ v = g[k] /\ u = v \o a
           /\ n = Len(v) /\ q = Less(max, n) /\ d = Drop(a, q)
  <2>1. Leaf(B, s, g, max, i, a, u, d)
    BY <1>1, LeavesFacts
  <2> QED BY <2>1 DEF Leaf
<1>3. e \in Seq(B)
  <2>1. PICK m, n : m = Len(u) /\ n = Less(m, max)
    OBVIOUS
  <2> QED BY <2>1, <1>2, DropFacts
<1>4. CASE i = 1
  <2>1. d = e
    BY <1>2, <1>4
  <2> QED BY <1>3, <1>4, <2>1 DEF Extends
<1>5. CASE i # 1
  <2>1. PICK k \in 1 .. Len(s) : \E v \in Seq(B) : \E n, q \in Nat :
           /\ k = i - 1 /\ v = g[k] /\ u = v \o a
           /\ n = Len(v) /\ q = Less(max, n) /\ d = Drop(a, q)
    BY <1>2, <1>5
  <2>2. PICK v \in Seq(B), n \in Nat, q \in Nat :
           /\ k = i - 1 /\ v = g[k] /\ u = v \o a
           /\ n = Len(v) /\ q = Less(max, n) /\ d = Drop(a, q)
    BY <2>1
  <2>3. PICK w : w = Drop(v, max)
    OBVIOUS
  <2>4. e = w \o d
    <3>1. Cut(B, v, a, u, max, n, q, e, w, d)
      BY <1>2, <2>2, <2>3 DEF Cut
    <3> QED BY <3>1, DropConcat
  <2>5. d \in Seq(B)
    <3>1. PICK m, o : m = Len(a) /\ o = Less(m, q)
      OBVIOUS
    <3> QED BY <3>1, <2>2, <1>2, DropFacts
  <2> QED BY <2>2, <2>3, <2>4, <2>5, <1>3, <1>5 DEF Extends
<1> QED BY <1>4, <1>5

(* Nothing is left of the first i parts.                                   *)
Consumed(g, max, i) == \A j \in 1 .. i : Drop(g[j], max) = <<>>

(* If nothing is left of a part that held something, nothing is left of    *)
(* any part before it.                                                     *)
LEMMA SumConsumed ==
  ASSUME NEW B, NEW s \in Seq(Seq(B)), NEW g, AllSums(s, B, g), NEW max \in Nat,
         NEW left, Leaves(s, g, max, left), NEW i \in 1 .. Len(s),
         left[i] = <<>>, s[i] # <<>>
  PROVE  Consumed(g, max, i)
<1>1. PICK a, u, d : a = s[i] /\ u = g[i] /\ d = left[i]
  OBVIOUS
<1>2. /\ a \in Seq(B) /\ u \in Seq(B)
      /\ i = 1 => u = a /\ d = Drop(a, max)
      /\ i # 1 => \E k \in 1 .. Len(s) : \E v \in Seq(B) : \E n, q \in Nat :
           /\ k = i - 1 /\ v = g[k] /\ u = v \o a
           /\ n = Len(v) /\ q = Less(max, n) /\ d = Drop(a, q)
  <2>1. Leaf(B, s, g, max, i, a, u, d)
    BY <1>1, LeavesFacts
  <2> QED BY <2>1 DEF Leaf
<1>3. PICK x \in Nat, y \in Nat : x = Len(a) /\ y = Len(u)
  BY <1>2, LenProperties
<1>4. x # 0 /\ d = <<>>
  BY <1>1, <1>2, <1>3, EmptySeq
<1>5. y <= max
  <2>1. CASE i = 1
    <3>1. PICK n : n = Less(x, max)
      OBVIOUS
    <3>2. x <= max
      BY <2>1, <3>1, <1>2, <1>3, <1>4, DropFacts
    <3> QED BY <3>2, <2>1, <1>2, <1>3
  <2>2. CASE i # 1
    <3>1. PICK v \in Seq(B), n \in Nat, q \in Nat :
            u = v \o a /\ n = Len(v) /\ q = Less(max, n) /\ d = Drop(a, q)
      BY <1>2, <2>2
    <3>2. y = n + x
      <4>1. Len(u) = n + x
        BY <3>1, <1>2, <1>3, ConcatFacts
      <4> QED BY <4>1, <1>3
    <3>3. PICK m : m = Less(x, q)
      OBVIOUS
    <3>4. x <= q
      <4>1. /\ a \in Seq(B) /\ q \in Nat /\ x = Len(a) /\ m = Less(x, q)
            /\ d = Drop(a, q) /\ d = <<>>
        BY <3>1, <3>3, <1>2, <1>3, <1>4
      <4> QED BY ONLY <4>1, DropFacts, ZenonT(30)
    <3> QED BY <3>1, <3>2, <3>4, <1>4 DEF Less
  <2> QED BY <2>1, <2>2
<1>6. ASSUME NEW j \in 1 .. i PROVE Drop(g[j], max) = <<>>
  <2>1. j \in 1 .. Len(s) /\ i \in j .. Len(s)
    OBVIOUS
  <2>2. PICK v, e : v = g[j] /\ e = Drop(v, max)
    OBVIOUS
  <2>3. v \in Seq(B)
    BY <2>1, <2>2 DEF AllSums, Sums
  <2>4. Len(v) <= Len(u)
    BY <2>1, <2>2, <1>1, SumsGrow
  <2>5. PICK z \in Nat : z = Len(v)
    BY <2>3, LenProperties
  <2>6. z <= max
    BY <2>4, <2>5, <1>3, <1>5
  <2>7. PICK n : n = Less(z, max)
    OBVIOUS
  <2>8. e = <<>>
    BY <2>2, <2>3, <2>5, <2>6, <2>7, DropFacts
  <2> QED BY <2>2, <2>8
<1> QED BY <1>6 DEF Consumed

(* t keeps, of the leftovers of s, the first and those behind the last-th. *)
Trimmed(s, left, last, t) ==
  /\ Len(t) = Len(s) - last + 1
  /\ t[1] = left[1]
  /\ \A j \in 2 .. Len(t) : t[j] = left[last + j - 1]

(* What is kept, flattened, is the whole flattened without its first max   *)
(* elements.                                                               *)
LEMMA FlatDrop ==
  ASSUME NEW B, NEW s \in Seq(Seq(B)), NEW g, AllSums(s, B, g), NEW max \in Nat,
         NEW left, Leaves(s, g, max, left), NEW last \in 1 .. Len(s),
         last # 1 => left[last] = <<>> /\ s[last] # <<>>,
         NEW t \in Seq(Seq(B)), Trimmed(s, left, last, t)
  PROVE  FlattenSeq(t) = Drop(FlattenSeq(s), max)
<1>1. PICK n \in Nat, m \in Nat : n = Len(s) /\ m = Len(t)
  BY LenProperties
<1>2. m = n - last + 1 /\ n # 0 /\ m # 0
  BY <1>1 DEF Trimmed
<1> DEFINE h == [j \in 1 .. m |-> Drop(g[last + j - 1], max)]
<1>3. \A j \in 1 .. m : last + j - 1 \in 1 .. n
  BY <1>1, <1>2
<1>4. ASSUME NEW i \in 1 .. n PROVE Drop(g[i], max) \in Seq(B)
  <2>1. PICK d, u, e : d = left[i] /\ u = g[i] /\ e = Drop(u, max)
    OBVIOUS
  <2>2. e \in Seq(B)
    BY <2>1, <1>1, SumDrops
  <2> QED BY <2>1, <2>2
<1>5. h \in [1 .. m -> Seq(B)]
  BY <1>3, <1>4
<1>6. Drop(g[1], max) = left[1]
  <2>1. PICK d, u, e : d = left[1] /\ u = g[1] /\ e = Drop(u, max)
    OBVIOUS
  <2>2. PICK i \in 1 .. Len(s) : i = 1
    BY <1>1, <1>2
  <2>3. Extends(s, g, max, i, d, e)
    BY <2>1, <2>2, SumDrops
  <2>4. e = d
    BY <2>2, <2>3 DEF Extends
  <2> QED BY <2>1, <2>4
<1>7. Drop(g[last], max) = left[1]
  <2>1. CASE last = 1
    BY <2>1, <1>6
  <2>2. CASE last # 1
    <3>1. \A j \in 1 .. last : Drop(g[j], max) = <<>>
      BY <2>2, SumConsumed DEF Consumed
    <3>2. Drop(g[1], max) = <<>> /\ Drop(g[last], max) = <<>>
      <4>1. 1 \in 1 .. last /\ last \in 1 .. last
        BY <1>1
      <4> QED BY <3>1, <4>1
    <3> QED BY <3>2, <1>6
  <2> QED BY <2>1, <2>2
<1>8. ASSUME NEW j \in 1 .. m PROVE h[j] = IF j = 1 THEN t[j] ELSE h[j - 1] \o t[j]
  <2>1. h[j] = Drop(g[last + j - 1], max)
    OBVIOUS
  <2>2. CASE j = 1
    <3>1. last + j - 1 = last
      BY <2>2, <1>1
    <3>2. t[j] = left[1]
      BY <2>2 DEF Trimmed
    <3> HIDE DEF h
    <3> QED BY <2>1, <2>2, <3>1, <3>2, <1>7
  <2>3. CASE j # 1
    <3>0. last + j - 1 \in 1 .. n /\ last + j - 1 - 1 \in 1 .. n
      BY <2>3, <1>1, <1>2
    <3>1. PICK i \in 1 .. n, k \in 1 .. n : i = last + j - 1 /\ k = i - 1
      BY <3>0
    <3>2. h[j] = Drop(g[i], max)
      BY <2>1, <3>1
    <3>3. h[j - 1] = Drop(g[k], max)
      <4>1. j - 1 \in 1 .. m /\ last + (j - 1) - 1 = k
        BY <2>3, <3>1, <1>1
      <4> QED BY <4>1
    <3>4. t[j] = left[i]
      BY <2>3, <3>1, <1>1 DEF Trimmed
    <3>5. PICK d, u, e : d = left[i] /\ u = g[i] /\ e = Drop(u, max)
      OBVIOUS
    <3>6. i # 1
      BY <2>3, <3>1, <1>1
    <3> HIDE DEF h
    <3>7. \E o \in 1 .. Len(s) : o = i - 1 /\ e = Drop(g[o], max) \o d
      <4>1. i \in 1 .. Len(s)
        BY <1>1
      <4>2. Extends(s, g, max, i, d, e)
        BY <3>5, <4>1, SumDrops
      <4> QED BY <3>6, <4>2 DEF Extends
    <3>8. e = Drop(g[k], max) \o d
      BY <3>7, <3>1
    <3> QED BY <3>2, <3>3, <3>4, <3>5, <3>8, <2>3
  <2> QED BY <2>2, <2>3
<1>9. AllSums(t, B, h)
  <2> HIDE DEF h
  <2> QED BY <1>1, <1>5, <1>8 DEF AllSums, Sums
<1>10. FlattenSeq(t) = h[m]
  <2> HIDE DEF h
  <2> QED BY <1>1, <1>2, <1>9, SumsAreFlat
<1>11. FlattenSeq(s) = g[n]
  BY <1>1, <1>2, SumsAreFlat
<1>12. h[m] = Drop(g[n], max)
  <2>1. last + m - 1 = n /\ m \in 1 .. m
    BY <1>1, <1>2
  <2> QED BY <2>1
<1> QED BY <1>10, <1>11, <1>12

(* The first k elements of d, and what lies between two cuts of it.        *)
Take(d, k) == SubSeq(d, 1, k)
Between(d, i, j) == SubSeq(d, i + 1, j)

(* v, w and u are what precedes i, lies between i and j, and precedes j.   *)
Cuts(B, d, i, j, v, w, u) ==
  /\ d \in Seq(B) /\ i \in Nat /\ j \in Nat /\ i <= j /\ j <= Len(d)
  /\ v = Take(d, i) /\ w = Between(d, i, j) /\ u = Take(d, j)

(* A longer prefix is the shorter one and what lies between the cuts.      *)
LEMMA TakeFacts ==
  ASSUME NEW B, NEW d, NEW i, NEW j, NEW v, NEW w, NEW u, Cuts(B, d, i, j, v, w, u)
  PROVE  /\ v \in Seq(B) /\ w \in Seq(B) /\ u \in Seq(B)
         /\ u = v \o w
<1>0. d \in Seq(B) /\ i \in Nat /\ j \in Nat /\ i <= j /\ j <= Len(d)
  BY DEF Cuts
<1>1. PICK n \in Nat : n = Len(d)
  BY <1>0, LenProperties
<1>2. v = SubSeq(d, 1, i) /\ w = SubSeq(d, i + 1, j) /\ u = SubSeq(d, 1, j)
  BY DEF Cuts, Take, Between
<1>3. v \in Seq(B) /\ w \in Seq(B) /\ u \in Seq(B)
  BY <1>0, <1>1, <1>2, SubSeqProperties
<1>4. u = v \o w
  <2>1. SubSeq(d, 1, i) \o SubSeq(d, i + 1, j) = SubSeq(d, 1, j)
    <3>1. 1 \in 1 .. Len(d) + 1 /\ i \in 1 - 1 .. Len(d) /\ j \in i .. Len(d)
      BY <1>0, <1>1
    <3> QED BY ONLY <3>1, <1>0, ConcatAdjacentSubSeq
  <2> QED BY <2>1, <1>2
<1> QED BY <1>3, <1>4

(* t is s with d cut into n + 1 parts, the first joined to the last of s   *)
(* and the others behind it; the i-th ends at cut[i].                      *)
Joined(s, d, m, n, cut, t) ==
  /\ m = Len(s) /\ Len(t) = m + n
  /\ \A i \in 0 .. n : cut[i] \in Nat /\ cut[i] <= Len(d)
  /\ \A i \in 1 .. n : cut[i - 1] <= cut[i]
  /\ cut[n] = Len(d)
  /\ \A i \in 1 .. m - 1 : t[i] = s[i]
  /\ t[m] = s[m] \o Take(d, cut[0])
  /\ \A i \in 1 .. n : t[m + i] = Between(d, cut[i - 1], cut[i])

Cat(v, w) == v \o w

(* S is closed under Cat, which is associative.                            *)
Catenates(S) ==
  /\ \A p, q \in S : Cat(p, q) \in S
  /\ \A p, q, r \in S : Cat(Cat(p, q), r) = Cat(p, Cat(q, r))

(* g are the partial sums of s, tk the first parts of what is cut, t the   *)
(* whole.                                                                  *)
Sides(S, s, g, tk, t, m, n) ==
  /\ g \in [1 .. m -> S] /\ tk \in [0 .. n -> S]
  /\ \A i \in 1 .. m : s[i] \in S /\ g[i] = IF i = 1 THEN s[i] ELSE Cat(g[i - 1], s[i])
  /\ \A i \in 1 .. m - 1 : t[i] = s[i]
  /\ t[m] = Cat(s[m], tk[0])
  /\ \A i \in 1 .. n : t[m + i] \in S /\ tk[i] = Cat(tk[i - 1], t[m + i])

(* h are the partial sums of t, the last of them whole.                    *)
Whole(S, t, l, h, whole) ==
  /\ h \in [1 .. l -> S]
  /\ \A i \in 1 .. l : h[i] = IF i = 1 THEN t[i] ELSE Cat(h[i - 1], t[i])
  /\ h[l] = whole

(* The partial sums of both sides, joined, are those of the whole.         *)
LEMMA JoinSums ==
  ASSUME NEW S, Catenates(S), NEW m \in Nat \ {0}, NEW n \in Nat,
         NEW s, NEW g, NEW tk, NEW t, Sides(S, s, g, tk, t, m, n)
  PROVE  \E h : Whole(S, t, m + n, h, Cat(g[m], tk[n]))
<1>0. /\ g \in [1 .. m -> S] /\ tk \in [0 .. n -> S]
      /\ \A i \in 1 .. m : s[i] \in S
      /\ t[m] = Cat(s[m], tk[0])
  BY DEF Sides
<1>00. \A p, q, r \in S : Cat(Cat(p, q), r) = Cat(p, Cat(q, r))
  BY Zenon DEF Catenates
<1>1. g[m] \in S /\ s[m] \in S /\ tk[0] \in S /\ (m # 1 => g[m - 1] \in S)
  BY <1>0
<1> DEFINE h == [i \in 1 .. m + n |-> IF i < m THEN g[i] ELSE Cat(g[m], tk[i - m])]
<1>2. h \in [1 .. m + n -> S]
  <2>1. ASSUME NEW i \in 1 .. m + n PROVE h[i] \in S
    <3>1. CASE i < m
      BY <3>1, SMTT(30) DEF Sides
    <3>2. CASE ~(i < m)
      <4>1. i - m \in 0 .. n
        BY <3>2
      <4> QED BY <4>1, <3>2, <1>1 DEF Sides, Catenates
    <3> QED BY <3>1, <3>2
  <2>2. h = [i \in 1 .. m + n |-> h[i]]
    OBVIOUS
  <2> HIDE DEF h
  <2> QED BY <2>1, <2>2
<1>3. h[m] = Cat(g[m], tk[0])
  OBVIOUS
<1>4. ASSUME NEW i \in 1 .. m + n
      PROVE  h[i] = IF i = 1 THEN t[i] ELSE Cat(h[i - 1], t[i])
  <2>1. CASE i < m
    <3>1. h[i] = g[i] /\ (i # 1 => h[i - 1] = g[i - 1])
      BY <2>1
    <3>2. t[i] = s[i] /\ g[i] = IF i = 1 THEN s[i] ELSE Cat(g[i - 1], s[i])
      BY <2>1 DEF Sides
    <3> HIDE DEF h
    <3> QED BY <3>1, <3>2
  <2>2. CASE i = m
    <3>2. g[m] = IF m = 1 THEN s[m] ELSE Cat(g[m - 1], s[m])
      BY DEF Sides
    <3>3. m # 1 => h[m - 1] = g[m - 1]
      OBVIOUS
    <3> HIDE DEF h
    <3>4. m # 1 => Cat(Cat(g[m - 1], s[m]), tk[0]) = Cat(g[m - 1], Cat(s[m], tk[0]))
      BY <1>1, <1>00, SMTT(30)
    <3>5. CASE m = 1
      BY <3>2, <3>5, <2>2, <1>0, <1>3
    <3>6. CASE m # 1
      BY <3>2, <3>3, <3>4, <3>6, <2>2, <1>0, <1>3
    <3> QED BY <3>5, <3>6
  <2>3. CASE i > m
    <3>0. i - m \in 1 .. n /\ i - m - 1 \in 0 .. n
      BY <2>3
    <3>1. PICK k \in 1 .. n, l \in 0 .. n : k = i - m /\ l = k - 1
      BY <3>0
    <3>2. h[i] = Cat(g[m], tk[k])
      BY <2>3, <3>1
    <3>3. h[i - 1] = Cat(g[m], tk[l])
      <4>1. ~(i - 1 < m) /\ i - 1 \in 1 .. m + n /\ (i - 1) - m = l
        BY <2>3, <3>1
      <4> QED BY <4>1
    <3>4. tk[k] = Cat(tk[l], t[i]) /\ t[i] \in S /\ tk[l] \in S
      <4>1. m + k = i
        BY <3>1
      <4>2. t[m + k] \in S /\ tk[k] = Cat(tk[k - 1], t[m + k]) /\ tk[l] \in S
        BY DEF Sides
      <4> QED BY <4>1, <4>2, <3>1
    <3>5. Cat(Cat(g[m], tk[l]), t[i]) = Cat(g[m], Cat(tk[l], t[i]))
      BY <3>4, <1>1, <1>00, ZenonT(30)
    <3> HIDE DEF h
    <3> QED BY <3>2, <3>3, <3>4, <3>5, <2>3
  <2> QED BY <2>1, <2>2, <2>3
<1>5. h[m + n] = Cat(g[m], tk[n])
  <2>1. ~(m + n < m) /\ m + n \in 1 .. m + n /\ m + n - m = n
    OBVIOUS
  <2> QED BY <2>1
<1> HIDE DEF h
<1>6. Whole(S, t, m + n, h, Cat(g[m], tk[n]))
  BY <1>2, <1>4, <1>5 DEF Whole
<1> QED BY <1>6

(* Concatenation of sequences is closed and associative.                   *)
LEMMA SeqCatenates ==
  ASSUME NEW B
  PROVE  Catenates(Seq(B))
<1>1. ASSUME NEW p \in Seq(B), NEW q \in Seq(B) PROVE Cat(p, q) \in Seq(B)
  <2>1. p \o q \in Seq(B)
    BY ConcatProperties
  <2> QED BY <2>1 DEF Cat
<1>2. ASSUME NEW p \in Seq(B), NEW q \in Seq(B), NEW r \in Seq(B)
      PROVE  Cat(Cat(p, q), r) = Cat(p, Cat(q, r))
  <2>1. (p \o q) \o r = p \o (q \o r)
    BY ConcatAssociative, SMTT(30)
  <2> QED BY <2>1 DEF Cat
<1> QED BY <1>1, <1>2 DEF Catenates

(* Appending d, cut at cut, to the last part and then part by part appends *)
(* d to the whole flattened.                                               *)
LEMMA FlatAppend ==
  ASSUME NEW B, NEW s \in Seq(Seq(B)), NEW t \in Seq(Seq(B)), NEW d \in Seq(B),
         NEW m \in Nat \ {0}, NEW n \in Nat, NEW cut, Joined(s, d, m, n, cut, t)
  PROVE  FlattenSeq(t) = FlattenSeq(s) \o d
<1>1. PICK g : AllSums(s, B, g)
  BY SumsExist
<1>2. m = Len(s) /\ m + n = Len(t)
  BY DEF Joined
<1>3. PICK tk : tk = [k \in 0 .. n |-> Take(d, cut[k])]
  OBVIOUS
<1>4. PICK S : S = Seq(B)
  OBVIOUS
<1>5. g \in [1 .. m -> S]
  BY <1>1, <1>2, <1>4 DEF AllSums, Sums
<1>6. ASSUME NEW i \in 1 .. m
      PROVE  s[i] \in S /\ g[i] = IF i = 1 THEN s[i] ELSE Cat(g[i - 1], s[i])
  <2>1. s[i] \in S
    BY <1>2, <1>4, ElementOfSeq
  <2>2. g[i] = IF i = 1 THEN s[i] ELSE g[i - 1] \o s[i]
    BY <1>1, <1>2 DEF AllSums, Sums
  <2> QED BY <2>1, <2>2, Zenon DEF Cat
<1>7. tk \in [0 .. n -> S]
  <2>1. ASSUME NEW k \in 0 .. n PROVE Take(d, cut[k]) \in S
    <3>1. PICK c \in Nat : c = cut[k] /\ c <= Len(d)
      BY DEF Joined
    <3>2. PICK v, w : v = Take(d, c) /\ w = Between(d, c, c)
      OBVIOUS
    <3>3. Cuts(B, d, c, c, v, w, v)
      BY <3>1, <3>2 DEF Cuts
    <3>4. v \in Seq(B)
      BY <3>3, TakeFacts
    <3> QED BY <3>1, <3>2, <3>4, <1>4
  <2> QED BY <2>1, <1>3
<1>8. ASSUME NEW i \in 1 .. n
      PROVE  t[m + i] \in S /\ tk[i] = Cat(tk[i - 1], t[m + i])
  <2>1. PICK j \in 0 .. n : j = i - 1
    <3>1. i - 1 \in 0 .. n
      OBVIOUS
    <3> QED BY <3>1
  <2>2. cut[j] \in Nat /\ cut[i] \in Nat /\ cut[j] <= cut[i] /\ cut[i] <= Len(d)
    <3>1. /\ \A k \in 0 .. n : cut[k] \in Nat /\ cut[k] <= Len(d)
          /\ \A k \in 1 .. n : cut[k - 1] <= cut[k]
      BY DEF Joined
    <3>2. i \in 0 .. n /\ j = i - 1
      BY <2>1
    <3> QED BY ONLY <3>1, <3>2, i \in 1 .. n, j \in 0 .. n
  <2>3. PICK c \in Nat, e \in Nat : c = cut[j] /\ e = cut[i] /\ c <= e /\ e <= Len(d)
    BY <2>2
  <2>4. PICK a, b, u : a = Take(d, c) /\ b = Between(d, c, e) /\ u = Take(d, e)
    OBVIOUS
  <2>5. b \in Seq(B) /\ u = a \o b
    <3>1. Cuts(B, d, c, e, a, b, u)
      BY <2>3, <2>4 DEF Cuts
    <3> QED BY <3>1, TakeFacts
  <2>6. tk[i] = u /\ tk[j] = a
    BY <1>3, <2>3, <2>4
  <2>7. t[m + i] = b
    BY <2>1, <2>3, <2>4 DEF Joined
  <2> QED BY <2>1, <2>5, <2>6, <2>7, <1>4 DEF Cat
<1>9. t[m] = Cat(s[m], tk[0])
  <2>1. t[m] = s[m] \o Take(d, cut[0])
    BY DEF Joined
  <2>2. tk[0] = Take(d, cut[0])
    BY <1>3
  <2> QED BY <2>1, <2>2, Zenon DEF Cat
<1>10. \A i \in 1 .. m - 1 : t[i] = s[i]
  BY DEF Joined
<1>11. Sides(S, s, g, tk, t, m, n)
  BY <1>5, <1>6, <1>7, <1>8, <1>9, <1>10 DEF Sides
<1>12. PICK h : Whole(S, t, m + n, h, Cat(g[m], tk[n]))
  <2>1. Catenates(S)
    BY <1>4, SeqCatenates
  <2> QED BY ONLY <2>1, <1>11, m \in Nat \ {0}, n \in Nat, JoinSums
<1>13. AllSums(t, B, h)
  <2>1. /\ h \in [1 .. m + n -> S]
        /\ \A i \in 1 .. m + n : h[i] = IF i = 1 THEN t[i] ELSE h[i - 1] \o t[i]
    BY <1>12, Zenon DEF Whole, Cat
  <2> QED BY <2>1, <1>2, <1>4 DEF AllSums, Sums
<1>14. FlattenSeq(t) = h[m + n]
  <2>1. Len(t) # 0
    BY <1>2
  <2> QED BY <2>1, <1>2, <1>13, SumsAreFlat
<1>15. FlattenSeq(s) = g[m]
  <2>1. Len(s) # 0
    BY <1>2
  <2> QED BY <2>1, <1>1, <1>2, SumsAreFlat
<1>16. tk[n] = d
  <2>1. tk[n] = Take(d, Len(d))
    BY <1>3 DEF Joined
  <2>2. Take(d, Len(d)) = d
    BY DEF Take
  <2> QED BY <2>1, <2>2
<1>17. h[m + n] = g[m] \o tk[n]
  BY <1>12, Zenon DEF Whole, Cat
<1> QED BY <1>14, <1>15, <1>16, <1>17

(***************************************************************************)
(* The connection buffers.                                                 *)
(***************************************************************************)

(* The free buffers allocateMemBuf meets before b, and how many they are.  *)
Ahead(b) == {f \in Free : Turn(f) < Turn(b)}
Rank(b) == Cardinality(Ahead(b))

(* The pool is finite.                                                     *)
LEMMA BufsFinite == IsFiniteSet(Bufs) /\ Cardinality(Bufs) = Size
<1>1. 0 \in Int /\ Size - 1 \in Int
  BY MemBufferAssumption
<1>2. IsFiniteSet(0 .. Size - 1)
      /\ Cardinality(0 .. Size - 1) = IF 0 > Size - 1 THEN 0 ELSE Size - 1 - 0 + 1
  BY <1>1, FS_Interval
<1> QED BY <1>2, MemBufferAssumption DEF Bufs

(* So are its free buffers.                                                *)
LEMMA FreeFinite == IsFiniteSet(Free) /\ Cardinality(Free) \in 0 .. Size
<1>1. Free \in SUBSET Bufs
  BY DEF Free
<1>2. IsFiniteSet(Free) /\ Cardinality(Free) <= Cardinality(Bufs)
  BY <1>1, BufsFinite, FS_Subset
<1>3. Cardinality(Free) \in Nat
  BY <1>2, FS_CardinalityType
<1> QED BY <1>2, <1>3, BufsFinite, MemBufferAssumption

(* Going round from the finder, every buffer has a turn of its own.        *)
LEMMA TurnFacts ==
  ASSUME g_mem_buffer_finder \in Bufs, NEW a \in Bufs, NEW b \in Bufs
  PROVE  /\ Turn(a) \in 1 .. Size
         /\ Turn(a) = Turn(b) => a = b
BY MemBufferAssumption DEF Turn, Bufs

(* No two free buffers have as many free buffers before them.              *)
LEMMA RankFacts ==
  ASSUME g_mem_buffer_finder \in Bufs, NEW b \in Free
  PROVE  /\ Rank(b) \in 0 .. Cardinality(Free) - 1
         /\ \A a \in Free : Rank(a) = Rank(b) => a = b
<1>1. \A a \in Free : a \in Bufs /\ Turn(a) \in Int
  BY TurnFacts DEF Free
<1>2. ASSUME NEW a \in Free
      PROVE  /\ Ahead(a) \in SUBSET Free /\ IsFiniteSet(Ahead(a))
             /\ Rank(a) \in Nat /\ a \notin Ahead(a)
  <2>1. Ahead(a) \in SUBSET Free
    BY DEF Ahead
  <2>2. IsFiniteSet(Ahead(a))
    BY <2>1, FreeFinite, FS_Subset
  <2>3. Rank(a) \in Nat
    BY <2>2, FS_CardinalityType DEF Rank
  <2>4. a \notin Ahead(a)
    BY <1>1 DEF Ahead
  <2> QED BY <2>1, <2>2, <2>3, <2>4
<1>3. Rank(b) < Cardinality(Free)
  <2>1. Rank(b) <= Cardinality(Free) /\ (Cardinality(Free) = Rank(b) => Free = Ahead(b))
    BY <1>2, FreeFinite, FS_Subset DEF Rank
  <2>2. Free # Ahead(b)
    BY <1>2
  <2> QED BY <2>1, <2>2, <1>2, FreeFinite
<1>4. ASSUME NEW x \in Free, NEW y \in Free, Turn(x) < Turn(y) PROVE Rank(x) < Rank(y)
  <2>1. Ahead(x) \in SUBSET Ahead(y)
    BY <1>1, <1>4 DEF Ahead
  <2>2. x \in Ahead(y)
    BY <1>4 DEF Ahead
  <2>3. Rank(x) <= Rank(y) /\ (Rank(y) = Rank(x) => Ahead(y) = Ahead(x))
    BY <2>1, <1>2, FS_Subset DEF Rank
  <2>4. Ahead(y) # Ahead(x)
    BY <2>2, <1>2
  <2> QED BY <2>3, <2>4, <1>2
<1>5. ASSUME NEW a \in Free, Rank(a) = Rank(b) PROVE a = b
  <2>1. ~(Turn(a) < Turn(b)) /\ ~(Turn(b) < Turn(a))
    BY <1>2, <1>4, <1>5
  <2>2. Turn(a) = Turn(b)
    BY <2>1, <1>1
  <2> QED BY <2>2, <1>1, TurnFacts
<1> QED BY <1>2, <1>3, <1>5, FreeFinite

(* Every number below that of the free buffers is the rank of one: an      *)
(* injection between finite sets of one size is onto.                      *)
LEMMA RankOnto ==
  ASSUME g_mem_buffer_finder \in Bufs, NEW i \in 0 .. Cardinality(Free) - 1
  PROVE  \E b \in Free : Rank(b) = i
<1> DEFINE T == 0 .. Cardinality(Free) - 1
           f == [b \in Free |-> Rank(b)]
<1>1. PICK n \in Nat : n = Cardinality(Free)
  BY FreeFinite
<1>2. f \in Injection(Free, T)
  BY RankFacts DEF Injection, IsInjective
<1>3. IsFiniteSet(T) /\ Cardinality(T) = n
  <2>1. 0 \in Int /\ n - 1 \in Int /\ T = 0 .. n - 1
    BY <1>1
  <2>2. IsFiniteSet(0 .. n - 1)
        /\ Cardinality(0 .. n - 1) = IF 0 > n - 1 THEN 0 ELSE n - 1 - 0 + 1
    BY <2>1, FS_Interval
  <2> QED BY <2>1, <2>2, <1>1
<1>4. f \in Surjection(Free, T)
  <2> HIDE DEF f, T
  <2> QED BY <1>1, <1>2, <1>3, FS_Injection
<1>5. \E b \in Free : f[b] = i
  BY <1>4 DEF Surjection
<1> QED BY <1>5

(* allocateMemBuf finds n different free buffers whenever there are n.     *)
LEMMA Allocates ==
  ASSUME g_mem_buffer_finder \in Bufs, NEW n \in 0 .. Cardinality(Free)
  PROVE  /\ allocateMemBuf(n) \in [1 .. n -> Free]
         /\ \A i, j \in 1 .. n : allocateMemBuf(n)[i] = allocateMemBuf(n)[j] => i = j
<1>1. PICK new : new = allocateMemBuf(n)
  OBVIOUS
<1>2. new = [i \in 1 .. n |-> CHOOSE b \in Free : Rank(b) = i - 1]
  BY <1>1 DEF allocateMemBuf, Rank, Ahead
<1>3. ASSUME NEW i \in 1 .. n PROVE new[i] \in Free /\ Rank(new[i]) = i - 1
  <2>1. i - 1 \in 0 .. Cardinality(Free) - 1
    BY FreeFinite
  <2>2. \E b \in Free : Rank(b) = i - 1
    BY <2>1, RankOnto
  <2>3. new[i] = CHOOSE b \in Free : Rank(b) = i - 1
    BY <1>2
  <2> QED BY <2>2, <2>3
<1>4. new \in [1 .. n -> Free]
  BY <1>2, <1>3
<1>5. ASSUME NEW i \in 1 .. n, NEW j \in 1 .. n, new[i] = new[j] PROVE i = j
  BY <1>3, <1>5
<1> QED BY <1>1, <1>4, <1>5

(* The buffers d needs beyond the blank of the last one: enough, and none  *)
(* of them stays empty.                                                    *)
LEMMA CeilFacts ==
  ASSUME NEW x \in Nat \ {0}, NEW n, n = Ceil(x)
  PROVE  /\ n \in Nat \ {0}
         /\ x <= n * BufSize
         /\ \A i \in 0 .. n - 1 : i * BufSize < x
<1>1. PICK q \in Nat \ {0} : q = BufSize
  BY MemBufferAssumption
<1>2. n = (x + q - 1) \div q
  BY <1>1 DEF Ceil
<1>3. n \in Int /\ n * q <= x + q - 1 /\ x + q - 1 < n * q + q
  BY <1>2
<1>4. n >= 1
  BY <1>3
<1>5. ASSUME NEW i \in 0 .. n - 1 PROVE i * q < x
  <2>1. i * q <= (n - 1) * q
    BY <1>3
  <2>2. (n - 1) * q = n * q - q
    BY <1>3
  <2> QED BY <2>1, <2>2, <1>3
<1> QED BY <1>1, <1>3, <1>4, <1>5

(* Position i of chain k of link is buffer b.                              *)
Holds(link, k, i, b) == i \in 1 .. Len(link[k]) /\ link[k][i] = b

(* The chains of all connections, and what a buffer is.                    *)
Keys == Conns \X {"ri", "wi"}
Byte == UNION {Range(d) : d \in Reads \union Writes}
Buffer == [use : BOOLEAN, data : Seq(Byte)]

(* A buffer is linked once if it is in use, nowhere if not, and holds data *)
(* unless it is a head.                                                    *)
InUse(mem, link) == \A k \in Keys, i \in Nat, b \in Bufs : Holds(link, k, i, b) => mem[b].use
Apart(link) ==
  \A k, l \in Keys, i, j \in Nat, b \in Bufs :
    Holds(link, k, i, b) /\ Holds(link, l, j, b) => k = l /\ i = j
Reached(mem, link) ==
  \A b \in Bufs : mem[b].use => \E k \in Keys, i \in Nat : Holds(link, k, i, b)
Full(mem, link) ==
  \A k \in Keys, i \in Nat, b \in Bufs : Holds(link, k, i, b) /\ i >= 2 => mem[b].data # <<>>
Counted(mem, used) == used = Size - Cardinality({b \in Bufs : ~mem[b].use})

Pool(mem, used, link) ==
  /\ mem \in [Bufs -> Buffer]
  /\ \A b \in Bufs : Len(mem[b].data) <= BufSize
  /\ link \in [Keys -> Seq(Bufs)]
  /\ InUse(mem, link) /\ Apart(link) /\ Reached(mem, link) /\ Full(mem, link)
  /\ Counted(mem, used)

(* Removing from S what A numbers.                                         *)
LEMMA CountOut ==
  ASSUME NEW S, IsFiniteSet(S), NEW A, IsFiniteSet(A), NEW T, T \subseteq S,
         NEW f \in Bijection(A, T)
  PROVE  /\ Cardinality(S \ T) = Cardinality(S) - Cardinality(A)
         /\ Cardinality(S) \in Nat /\ Cardinality(A) \in Nat
<1>1. IsFiniteSet(T) /\ Cardinality(T) = Cardinality(A)
  BY FS_Bijection DEF ExistsBijection
<1>2. Cardinality(S \ T) = Cardinality(S) - Cardinality(S \cap T)
  BY FS_Difference
<1>3. S \cap T = T
  OBVIOUS
<1>4. Cardinality(S) \in Nat /\ Cardinality(A) \in Nat
  BY FS_CardinalityType
<1> QED BY <1>1, <1>2, <1>3, <1>4

(* The new buffers, in the order in which they are linked.                 *)
Fresh(mem, n, new) ==
  /\ new \in [1 .. n -> Bufs]
  /\ \A i, j \in 1 .. n : new[i] = new[j] => i = j
  /\ \A i \in 1 .. n : ~mem[new[i]].use

(* They, and no others, come into use.                                     *)
Taken(mem, mem2, n, new) ==
  \A b \in Bufs : mem2[b].use <=> mem[b].use \/ \E i \in 1 .. n : new[i] = b

(* Then the count of the buffers in use is n higher.                       *)
LEMMA CountGrows ==
  ASSUME NEW mem, NEW mem2, NEW used, Counted(mem, used), NEW n \in Nat, NEW new,
         Fresh(mem, n, new), Taken(mem, mem2, n, new)
  PROVE  Counted(mem2, used + n)
<1>0. /\ new \in [1 .. n -> Bufs]
      /\ \A i, j \in 1 .. n : new[i] = new[j] => i = j
      /\ \A i \in 1 .. n : ~mem[new[i]].use
      /\ \A b \in Bufs : mem2[b].use <=> mem[b].use \/ \E i \in 1 .. n : new[i] = b
  BY DEF Fresh, Taken
<1> DEFINE S == {b \in Bufs : ~mem[b].use}
           T == {b \in Bufs : \E i \in 1 .. n : new[i] = b}
<1>1. S \in SUBSET Bufs /\ T \subseteq S
  BY <1>0
<1>2. IsFiniteSet(S)
  BY <1>1, BufsFinite, FS_Subset
<1>3. new \in Bijection(1 .. n, T)
  <2>1. new \in [1 .. n -> T]
    BY <1>0
  <2> QED BY <1>0, <2>1 DEF Bijection, Injection, IsInjective, Surjection
<1>4. IsFiniteSet(1 .. n) /\ Cardinality(1 .. n) = n
  <2>1. 1 \in Int /\ n \in Int
    OBVIOUS
  <2>2. Cardinality(1 .. n) = IF 1 > n THEN 0 ELSE n - 1 + 1
    BY <2>1, FS_Interval
  <2>3. IsFiniteSet(1 .. n)
    BY <2>1, FS_Interval
  <2> QED BY <2>2, <2>3
<1>5. {b \in Bufs : ~mem2[b].use} = S \ T
  BY <1>0
<1>6. Cardinality(S \ T) = Cardinality(S) - n /\ Cardinality(S) \in Nat
  <2>1. PICK A : A = 1 .. n
    OBVIOUS
  <2> HIDE DEF S, T
  <2>2. new \in Bijection(A, T) /\ IsFiniteSet(A) /\ Cardinality(A) = n
    BY <2>1, <1>3, <1>4
  <2>3. /\ Cardinality(S \ T) = Cardinality(S) - Cardinality(A)
        /\ Cardinality(S) \in Nat
    BY ONLY <2>2, <1>1, <1>2, CountOut
  <2> QED BY <2>2, <2>3
<1>7. used = Size - Cardinality(S)
  BY DEF Counted
<1>8. used + n = Size - Cardinality(S \ T)
  <2> HIDE DEF S, T
  <2> QED BY <1>6, <1>7, MemBufferAssumption
<1> QED BY <1>5, <1>8 DEF Counted

(* The buffers that A numbers go back, and no others.                      *)
Given(mem, mem2, A, f) ==
  /\ f \in [A -> Bufs]
  /\ \A i, j \in A : f[i] = f[j] => i = j
  /\ \A i \in A : mem[f[i]].use
  /\ \A b \in Bufs : mem2[b].use <=> mem[b].use /\ ~\E i \in A : f[i] = b

(* Then the count is lower by as many.                                     *)
LEMMA CountShrinks ==
  ASSUME NEW mem, NEW mem2, NEW used, Counted(mem, used), NEW A, IsFiniteSet(A), NEW f,
         Given(mem, mem2, A, f)
  PROVE  Counted(mem2, used - Cardinality(A))
<1>0. /\ f \in [A -> Bufs]
      /\ \A i, j \in A : f[i] = f[j] => i = j
      /\ \A i \in A : mem[f[i]].use
      /\ \A b \in Bufs : mem2[b].use <=> mem[b].use /\ ~\E i \in A : f[i] = b
  BY DEF Given
<1> DEFINE S == {b \in Bufs : ~mem2[b].use}
           T == {b \in Bufs : \E i \in A : f[i] = b}
<1>1. S \in SUBSET Bufs /\ T \subseteq S
  BY <1>0
<1>2. IsFiniteSet(S)
  BY <1>1, BufsFinite, FS_Subset
<1>3. f \in Bijection(A, T)
  <2>1. f \in [A -> T]
    BY <1>0
  <2> QED BY <1>0, <2>1 DEF Bijection, Injection, IsInjective, Surjection
<1>5. {b \in Bufs : ~mem[b].use} = S \ T
  BY <1>0
<1>6. /\ Cardinality(S \ T) = Cardinality(S) - Cardinality(A)
      /\ Cardinality(S) \in Nat /\ Cardinality(A) \in Nat
  <2> HIDE DEF S, T
  <2> QED BY <1>1, <1>2, <1>3, CountOut
<1>7. used = Size - Cardinality(S \ T)
  BY <1>5 DEF Counted
<1>8. used - Cardinality(A) = Size - Cardinality(S)
  <2> HIDE DEF S, T
  <2> QED BY <1>6, <1>7, MemBufferAssumption
<1> QED BY <1>8 DEF Counted

(* Chain k grows by new, buffers so far unused.                            *)
Grown(mem, mem2, link, link2, k, m, n, new) ==
  /\ link2 = [link EXCEPT ![k] = link[k] \o new]
  /\ \A b \in Bufs : mem2[b].use <=> mem[b].use \/ \E i \in 1 .. n : new[i] = b
  /\ \A b \in Bufs : mem[b].use /\ mem[b].data # <<>> => mem2[b].data # <<>>
  /\ \A i \in 1 .. n : m + i >= 2 => mem2[new[i]].data # <<>>

(* The ownership survives that: the new buffers are linked once, the old   *)
(* ones as before.                                                         *)
LEMMA Grows ==
  ASSUME NEW mem, NEW mem2, NEW link, NEW link2, NEW k \in Keys,
         link \in [Keys -> Seq(Bufs)],
         InUse(mem, link), Apart(link), Reached(mem, link), Full(mem, link),
         NEW n \in Nat, NEW new \in Seq(Bufs), Len(new) = n,
         \A i, j \in 1 .. n : new[i] = new[j] => i = j,
         \A i \in 1 .. n : ~mem[new[i]].use,
         NEW m \in Nat, m = Len(link[k]),
         Grown(mem, mem2, link, link2, k, m, n, new)
  PROVE  /\ link2 \in [Keys -> Seq(Bufs)]
         /\ InUse(mem2, link2) /\ Apart(link2) /\ Reached(mem2, link2) /\ Full(mem2, link2)
<1>1. PICK ch \in Seq(Bufs) : ch = link[k]
  OBVIOUS
<1>2. PICK r : r = ch \o new
  OBVIOUS
<1>3. /\ r \in Seq(Bufs) /\ Len(r) = m + n
      /\ \A i \in 1 .. m + n : r[i] = IF i <= m THEN ch[i] ELSE new[i - m]
  <2>1. m = Len(ch) /\ n = Len(new)
    BY <1>1
  <2> QED BY ONLY <2>1, <1>2, ch \in Seq(Bufs), new \in Seq(Bufs), ConcatFacts
<1>4. link2 = [link EXCEPT ![k] = r]
  BY <1>1, <1>2 DEF Grown
<1>5. link2 \in [Keys -> Seq(Bufs)] /\ link2[k] = r /\ \A l \in Keys : l # k => link2[l] = link[l]
  BY <1>3, <1>4
<1>6. ASSUME NEW l \in Keys, l # k, NEW i, NEW b
      PROVE  Holds(link2, l, i, b) <=> Holds(link, l, i, b)
  BY <1>5, <1>6, Zenon DEF Holds
<1>7. ASSUME NEW i \in Nat, NEW b
      PROVE  Holds(link2, k, i, b) <=> \/ Holds(link, k, i, b)
                                       \/ \E j \in 1 .. n : i = m + j /\ new[j] = b
  <2>1. Holds(link2, k, i, b) <=> i \in 1 .. m + n /\ r[i] = b
    BY <1>5, <1>3, Zenon DEF Holds
  <2>2. Holds(link, k, i, b) <=> i \in 1 .. m /\ ch[i] = b
    BY <1>1, Zenon DEF Holds
  <2>3. CASE i \in 1 .. m
    <3>1. i \in 1 .. m + n /\ r[i] = ch[i] /\ ~\E j \in 1 .. n : i = m + j
      BY <2>3, <1>3
    <3> QED BY <3>1, <2>1, <2>2, <2>3
  <2>4. CASE i \in m + 1 .. m + n
    <3>1. r[i] = new[i - m] /\ i - m \in 1 .. n /\ i = m + (i - m) /\ i \in 1 .. m + n
          /\ i \notin 1 .. m
      BY <2>4, <1>3
    <3>2. \A j \in 1 .. n : i = m + j => j = i - m
      OBVIOUS
    <3> QED BY <3>1, <3>2, <2>1, <2>2
  <2>5. CASE i \notin 1 .. m + n
    <3>1. i \notin 1 .. m /\ ~\E j \in 1 .. n : i = m + j
      BY <2>5
    <3> QED BY <3>1, <2>1, <2>2, <2>5
  <2> QED BY <2>3, <2>4, <2>5
<1>8. /\ \A b \in Bufs : mem2[b].use <=> mem[b].use \/ \E i \in 1 .. n : new[i] = b
      /\ \A b \in Bufs : mem[b].use /\ mem[b].data # <<>> => mem2[b].data # <<>>
      /\ \A i \in 1 .. n : m + i >= 2 => mem2[new[i]].data # <<>>
      /\ \A i \in 1 .. n : new[i] \in Bufs
  BY DEF Grown
<1>9. InUse(mem2, link2)
  <2>1. ASSUME NEW l \in Keys, NEW i \in Nat, NEW b \in Bufs, Holds(link2, l, i, b)
        PROVE  mem2[b].use
    <3>1. CASE Holds(link, l, i, b)
      BY <3>1, <1>8 DEF InUse
    <3>2. CASE ~Holds(link, l, i, b)
      BY <3>2, <2>1, <1>6, <1>7, <1>8, SMTT(30)
    <3> QED BY <3>1, <3>2
  <2> QED BY <2>1 DEF InUse
<1>10. Apart(link2)
  <2>1. ASSUME NEW l1 \in Keys, NEW l2 \in Keys, NEW i \in Nat, NEW j \in Nat, NEW b \in Bufs,
               Holds(link2, l1, i, b), Holds(link2, l2, j, b)
        PROVE  l1 = l2 /\ i = j
    <3>1. ASSUME NEW l \in Keys, NEW h \in Nat, Holds(link, l, h, b)
          PROVE  ~\E g \in 1 .. n : new[g] = b
      BY <3>1 DEF InUse
    <3>2. CASE Holds(link, l1, i, b)
      <4>0. ~\E g \in 1 .. n : new[g] = b
        BY <3>1, <3>2
      <4>1. Holds(link, l2, j, b)
        <5>1. CASE l2 = k
          <6>1. Holds(link2, k, j, b)
            BY <5>1, <2>1
          <6>2. Holds(link, k, j, b) \/ \E g \in 1 .. n : j = m + g /\ new[g] = b
            BY <6>1, <1>7
          <6> QED BY <6>2, <5>1, <4>0
        <5>2. CASE l2 # k
          BY <5>2, <2>1, <1>6
        <5> QED BY <5>1, <5>2
      <4> QED BY <4>1, <3>2 DEF Apart
    <3>3. CASE ~Holds(link, l1, i, b)
      <4>1. l1 = k /\ \E g \in 1 .. n : i = m + g /\ new[g] = b
        BY <3>3, <2>1, <1>6, <1>7
      <4>2. ~Holds(link, l2, j, b)
        BY <4>1, <3>1
      <4>3. l2 = k /\ \E g \in 1 .. n : j = m + g /\ new[g] = b
        BY <4>2, <2>1, <1>6, <1>7
      <4> QED BY <4>1, <4>3
    <3> QED BY <3>2, <3>3
  <2> QED BY <2>1 DEF Apart
<1>11. Reached(mem2, link2)
  <2>1. ASSUME NEW b \in Bufs, mem2[b].use
        PROVE  \E l \in Keys, i \in Nat : Holds(link2, l, i, b)
    <3>1. CASE mem[b].use
      <4>1. PICK l \in Keys, i \in Nat : Holds(link, l, i, b)
        BY <3>1 DEF Reached
      <4>2. Holds(link2, l, i, b)
        BY <4>1, <1>6, <1>7
      <4> QED BY <4>2
    <3>2. CASE ~mem[b].use
      <4>1. PICK g \in 1 .. n : new[g] = b
        BY <3>2, <2>1, <1>8
      <4>2. m + g \in Nat /\ Holds(link2, k, m + g, b)
        BY <4>1, <1>7
      <4> QED BY <4>2
    <3> QED BY <3>1, <3>2
  <2> QED BY <2>1 DEF Reached
<1>12. Full(mem2, link2)
  <2>1. ASSUME NEW l \in Keys, NEW i \in Nat, NEW b \in Bufs, Holds(link2, l, i, b), i >= 2
        PROVE  mem2[b].data # <<>>
    <3>1. CASE Holds(link, l, i, b)
      BY <3>1, <2>1, <1>8 DEF InUse, Full
    <3>2. CASE ~Holds(link, l, i, b)
      <4>1. \E g \in 1 .. n : i = m + g /\ new[g] = b
        BY <3>2, <2>1, <1>6, <1>7, SMTT(30)
      <4> QED BY <4>1, <2>1, <1>8
    <3> QED BY <3>1, <3>2
  <2> QED BY <2>1 DEF Full
<1> QED BY <1>5, <1>9, <1>10, <1>11, <1>12

(* Of chain k only the positions pos are kept, in their order; the buffers *)
(* at the positions in gone go back.                                       *)
Shrunk(mem, mem2, link, link2, k, kept, pos, gone) ==
  /\ link2 = [link EXCEPT ![k] = kept]
  /\ pos \in [1 .. Len(kept) -> Nat] /\ gone \subseteq 1 .. Len(link[k])
  /\ \A j \in 1 .. Len(kept) :
       /\ pos[j] \in (1 .. Len(link[k])) \ gone
       /\ kept[j] = link[k][pos[j]] /\ pos[j] >= j
  /\ \A i \in (1 .. Len(link[k])) \ gone : \E j \in 1 .. Len(kept) : pos[j] = i
  /\ \A i, j \in 1 .. Len(kept) : pos[i] = pos[j] => i = j
  /\ \A b \in Bufs : mem2[b].use <=> mem[b].use /\ ~\E i \in gone : link[k][i] = b
  /\ \A l \in Keys, i \in Nat, b \in Bufs :
       /\ Holds(link, l, i, b) /\ l # k => mem2[b].data = mem[b].data
       /\ Holds(link, k, i, b) /\ i \notin gone /\ i >= 2 => mem2[b].data # <<>>

(* The ownership survives that too.                                        *)
LEMMA Shrinks ==
  ASSUME NEW mem, NEW mem2, NEW link, NEW link2, NEW k \in Keys,
         link \in [Keys -> Seq(Bufs)],
         InUse(mem, link), Apart(link), Reached(mem, link), Full(mem, link),
         NEW kept \in Seq(Bufs), NEW pos, NEW gone,
         Shrunk(mem, mem2, link, link2, k, kept, pos, gone)
  PROVE  /\ link2 \in [Keys -> Seq(Bufs)]
         /\ InUse(mem2, link2) /\ Apart(link2) /\ Reached(mem2, link2) /\ Full(mem2, link2)
<1>1. /\ link2 \in [Keys -> Seq(Bufs)] /\ link2[k] = kept
      /\ \A l \in Keys : l # k => link2[l] = link[l]
  BY DEF Shrunk
<1>2. ASSUME NEW l \in Keys, l # k, NEW i, NEW b
      PROVE  Holds(link2, l, i, b) <=> Holds(link, l, i, b)
  BY <1>1, <1>2, Zenon DEF Holds
<1>3. PICK m, n : m = Len(link[k]) /\ n = Len(kept)
  OBVIOUS
<1>4. m \in Nat /\ n \in Nat
  <2>1. link[k] \in Seq(Bufs)
    OBVIOUS
  <2> QED BY <2>1, <1>3, LenProperties
<1>5. /\ \A j \in 1 .. n : pos[j] \in 1 .. m /\ pos[j] \notin gone
      /\ \A j \in 1 .. n : kept[j] = link[k][pos[j]] /\ pos[j] >= j
      /\ \A i \in 1 .. m : i \notin gone => \E j \in 1 .. n : pos[j] = i
      /\ \A i, j \in 1 .. n : pos[i] = pos[j] => i = j
      /\ gone \subseteq 1 .. m
  BY <1>3 DEF Shrunk
<1>6. /\ \A b \in Bufs : mem2[b].use <=> mem[b].use /\ ~\E i \in gone : link[k][i] = b
      /\ \A l \in Keys, i \in Nat, b \in Bufs :
           /\ Holds(link, l, i, b) /\ l # k => mem2[b].data = mem[b].data
           /\ Holds(link, k, i, b) /\ i \notin gone /\ i >= 2 => mem2[b].data # <<>>
  BY DEF Shrunk
<1>7. ASSUME NEW i \in Nat, NEW b, Holds(link2, k, i, b)
      PROVE  /\ i \in 1 .. n /\ pos[i] \in Nat /\ pos[i] >= i /\ pos[i] \notin gone
             /\ Holds(link, k, pos[i], b)
  <2>1. i \in 1 .. n /\ kept[i] = b
    BY <1>1, <1>3, <1>7 DEF Holds
  <2> QED BY <2>1, <1>3, <1>5 DEF Holds
<1>8. ASSUME NEW i \in Nat, NEW b, Holds(link, k, i, b), i \notin gone
      PROVE  \E j \in Nat : Holds(link2, k, j, b)
  <2>1. i \in 1 .. m /\ link[k][i] = b
    BY <1>3, <1>8 DEF Holds
  <2>2. PICK j \in 1 .. n : pos[j] = i
    BY <2>1, <1>5, <1>8
  <2>3. kept[j] = b
    BY <2>1, <2>2, <1>5
  <2>4. Holds(link2, k, j, b)
    BY <2>3, <1>1, <1>3 DEF Holds
  <2> QED BY <2>4
<1>9. ASSUME NEW i \in Nat, NEW b \in Bufs, NEW l \in Keys,
             Holds(link, l, i, b), l # k \/ i \notin gone
      PROVE  mem2[b].use
  <2>1. mem[b].use
    BY <1>9 DEF InUse
  <2>2. ASSUME NEW g \in gone, link[k][g] = b PROVE FALSE
    <3>1. Holds(link, k, g, b) /\ g \in Nat
      BY <2>2, <1>3, <1>5 DEF Holds
    <3>2. l = k /\ i = g
      BY <3>1, <1>9 DEF Apart
    <3> QED BY <3>2, <1>9
  <2> QED BY <2>1, <2>2, <1>6
<1>10. InUse(mem2, link2)
  <2>1. ASSUME NEW l \in Keys, NEW i \in Nat, NEW b \in Bufs, Holds(link2, l, i, b)
        PROVE  mem2[b].use
    <3>1. CASE l = k
      BY <3>1, <2>1, <1>7, <1>9
    <3>2. CASE l # k
      BY <3>2, <2>1, <1>2, <1>9
    <3> QED BY <3>1, <3>2
  <2> QED BY <2>1 DEF InUse
<1>11. Apart(link2)
  <2>1. ASSUME NEW l1 \in Keys, NEW l2 \in Keys, NEW i \in Nat, NEW j \in Nat, NEW b \in Bufs,
               Holds(link2, l1, i, b), Holds(link2, l2, j, b)
        PROVE  l1 = l2 /\ i = j
    <3>1. CASE l1 = k /\ l2 = k
      <4>1. /\ i \in 1 .. n /\ pos[i] \in Nat /\ Holds(link, k, pos[i], b)
            /\ j \in 1 .. n /\ pos[j] \in Nat /\ Holds(link, k, pos[j], b)
        BY <3>1, <2>1, <1>7
      <4>2. pos[i] = pos[j]
        BY <4>1 DEF Apart
      <4> QED BY <4>1, <4>2, <3>1, <1>5
    <3>2. CASE l1 = k /\ l2 # k
      BY <3>2, <2>1, <1>7, <1>2 DEF Apart
    <3>3. CASE l1 # k /\ l2 = k
      BY <3>3, <2>1, <1>7, <1>2 DEF Apart
    <3>4. CASE l1 # k /\ l2 # k
      BY <3>4, <2>1, <1>2 DEF Apart
    <3> QED BY <3>1, <3>2, <3>3, <3>4
  <2> QED BY <2>1 DEF Apart
<1>12. Reached(mem2, link2)
  <2>1. ASSUME NEW b \in Bufs, mem2[b].use
        PROVE  \E l \in Keys, i \in Nat : Holds(link2, l, i, b)
    <3>1. mem[b].use /\ ~\E i \in gone : link[k][i] = b
      BY <2>1, <1>6
    <3>2. PICK l \in Keys, i \in Nat : Holds(link, l, i, b)
      BY <3>1 DEF Reached
    <3>3. CASE l = k
      <4>1. i \notin gone
        BY <3>1, <3>2, <3>3 DEF Holds
      <4> QED BY <4>1, <3>2, <3>3, <1>8
    <3>4. CASE l # k
      BY <3>2, <3>4, <1>2
    <3> QED BY <3>3, <3>4
  <2> QED BY <2>1 DEF Reached
<1>13. Full(mem2, link2)
  <2>1. ASSUME NEW l \in Keys, NEW i \in Nat, NEW b \in Bufs, Holds(link2, l, i, b), i >= 2
        PROVE  mem2[b].data # <<>>
    <3>1. CASE l = k
      <4>1. pos[i] \in Nat /\ pos[i] >= 2 /\ pos[i] \notin gone /\ Holds(link, k, pos[i], b)
        BY <3>1, <2>1, <1>7
      <4> QED BY <4>1, <1>6
    <3>2. CASE l # k
      BY <3>2, <2>1, <1>2, <1>6 DEF Full
    <3> QED BY <3>1, <3>2
  <2> QED BY <2>1 DEF Full
<1> QED BY <1>1, <1>10, <1>11, <1>12, <1>13

(* What AppendMemBufList needs of the lengths: of d, of the blank of the   *)
(* last buffer, of what is free.                                           *)
Cutting(d, blank, n) ==
  /\ n = IF Len(d) <= blank THEN 0 ELSE Ceil(Len(d) - blank)
  /\ blank \in Nat /\ Len(d) \in Nat \ {0}

(* The cuts grow from the blank to the whole of d, a buffer at most apart, *)
(* and n is the least number of buffers that does.                         *)
LEMMA CuttingFacts ==
  ASSUME NEW d, NEW blank, NEW n, Cutting(d, blank, n)
  PROVE  /\ n \in Nat
         /\ \A i \in 0 .. n : Upto(d, blank, i) \in Nat /\ Upto(d, blank, i) <= Len(d)
         /\ \A i \in 1 .. n : /\ Upto(d, blank, i - 1) < Upto(d, blank, i)
                              /\ Upto(d, blank, i) - Upto(d, blank, i - 1) <= BufSize
         /\ Upto(d, blank, 0) <= blank
         /\ Upto(d, blank, n) = Len(d)
         /\ \A f \in Nat : Len(d) < f * BufSize => n <= f
<1>1. PICK q \in Nat \ {0}, x \in Nat \ {0} : q = BufSize /\ x = Len(d)
  BY MemBufferAssumption DEF Cutting
<1>2. blank \in Nat
  BY DEF Cutting
<1>3. /\ n \in Nat /\ x <= blank + n * q
      /\ \A i \in 0 .. n - 1 : blank + i * q < x
  <2>1. CASE x <= blank
    <3>1. n = 0
      BY <2>1, <1>1 DEF Cutting
    <3> QED BY <3>1, <2>1, <1>1, <1>2
  <2>2. CASE x > blank
    <3>0. x - blank \in Nat \ {0}
      BY <2>2, <1>2
    <3>1. PICK y \in Nat \ {0} : y = x - blank
      BY <3>0
    <3>2. n = Ceil(y)
      BY <3>1, <2>2, <1>1, <1>2 DEF Cutting
    <3>3. n \in Nat /\ y <= n * q /\ \A i \in 0 .. n - 1 : i * q < y
      BY <3>2, <1>1, CeilFacts
    <3>4. x <= blank + n * q
      BY <3>1, <3>3, <1>2
    <3>5. ASSUME NEW i \in 0 .. n - 1 PROVE blank + i * q < x
      <4>1. i * q < y /\ i \in Nat
        BY <3>3
      <4> QED BY <4>1, <3>1, <1>2
    <3> QED BY <3>3, <3>4, <3>5
  <2> QED BY <2>1, <2>2, <1>1, <1>2
<1>4. \A i \in Nat : Upto(d, blank, i) = IF blank + i * q < x THEN blank + i * q ELSE x
  BY <1>1 DEF Upto
<1>5. \A i \in Nat : i * q \in Nat
  BY <1>1
<1>6. ASSUME NEW i \in 0 .. n
      PROVE  Upto(d, blank, i) \in Nat /\ Upto(d, blank, i) <= x
  BY <1>4, <1>5, <1>2
<1>7. ASSUME NEW i \in 1 .. n
      PROVE  /\ Upto(d, blank, i - 1) < Upto(d, blank, i)
             /\ Upto(d, blank, i) - Upto(d, blank, i - 1) <= q
  <2>1. PICK j \in Nat : j = i - 1
    OBVIOUS
  <2>2. PICK z \in Nat : z = j * q
    BY <1>5
  <2>3. i * q = z + q
    BY <2>1, <2>2
  <2>4. blank + z < x
    <3>1. j \in 0 .. n - 1
      BY <2>1, <1>3
    <3> QED BY <3>1, <2>2, <1>3
  <2>5. Upto(d, blank, j) = blank + z
    BY <2>2, <2>4, <1>4
  <2>6. Upto(d, blank, i) = IF blank + (z + q) < x THEN blank + (z + q) ELSE x
    <3>1. i \in Nat
      OBVIOUS
    <3> QED BY <3>1, <2>3, <1>4
  <2> QED BY <2>1, <2>4, <2>5, <2>6, <1>2
<1>8. Upto(d, blank, 0) <= blank
  BY <1>4, <1>2
<1>9. Upto(d, blank, n) = x
  BY <1>3, <1>4, <1>5, <1>2
<1>10. ASSUME NEW f \in Nat, x < f * q PROVE n <= f
  <2>1. CASE n = 0
    BY <2>1
  <2>2. CASE n # 0
    <3>1. (n - 1) * q < f * q
      <4>1. blank + (n - 1) * q < x /\ (n - 1) * q \in Nat /\ f * q \in Nat
        BY <2>2, <1>3, <1>5
      <4> QED BY <4>1, <1>10, <1>2
    <3>2. n - 1 < f
      BY <3>1, <1>3
    <3> QED BY <3>2, <1>3
  <2> QED BY <2>1, <2>2
<1> QED BY <1>1, <1>3, <1>6, <1>7, <1>8, <1>9, <1>10

(* What is read or written is a sequence of bytes, and not an empty one.   *)
LEMMA InputFacts ==
  ASSUME NEW d \in Reads \union Writes
  PROVE  d \in Seq(Byte) /\ Len(d) \in Nat \ {0}
<1>1. d # <<>> /\ d \in Seq(Range(d))
  BY MemBufferAssumption
<1>2. Range(d) \subseteq Byte
  BY DEF Byte
<1>3. d \in Seq(Byte)
  BY <1>1, <1>2, SeqMonotonic
<1>4. Len(d) \in Nat /\ (Len(d) = 0 => d = <<>>)
  BY <1>1, EmptySeq, LenProperties
<1> QED BY <1>1, <1>3, <1>4

(* What a chain's buffers hold, one after the other.                       *)
Parts(mem, ch) == [i \in DOMAIN ch |-> mem[ch[i]].data]
Text(mem, ch) == FlattenSeq(Parts(mem, ch))

(* The parts of a chain: their type, their number, and each of them.       *)
LEMMA PartsFacts ==
  ASSUME NEW mem \in [Bufs -> Buffer], NEW ch \in Seq(Bufs), NEW m, m = Len(ch),
         NEW s, s = Parts(mem, ch)
  PROVE  /\ s \in Seq(Seq(Byte)) /\ Len(s) = m /\ m \in Nat
         /\ \A i \in 1 .. m : s[i] = mem[ch[i]].data
<1>1. DOMAIN ch = 1 .. m /\ m \in Nat
  BY LenProperties
<1>2. s = [i \in 1 .. m |-> mem[ch[i]].data]
  BY <1>1 DEF Parts
<1>3. ASSUME NEW i \in 1 .. m PROVE mem[ch[i]].data \in Seq(Byte)
  <2>1. ch[i] \in Bufs
    BY ElementOfSeq
  <2> QED BY <2>1 DEF Buffer
<1>4. PICK S : S = Seq(Byte)
  OBVIOUS
<1>5. s \in [1 .. m -> S]
  BY <1>2, <1>3, <1>4
<1>6. s \in Seq(S) /\ Len(s) = m
  BY <1>1, <1>5
<1> QED BY <1>1, <1>2, <1>4, <1>6

(* The chain a buffer is linked in is the only one whose text can change   *)
(* with it.                                                                *)
LEMMA OtherTexts ==
  ASSUME NEW mem, NEW mem2, NEW ch, NEW m \in Nat, DOMAIN ch = 1 .. m,
         \A i \in 1 .. m : mem2[ch[i]].data = mem[ch[i]].data
  PROVE  Text(mem2, ch) = Text(mem, ch)
<1>1. Parts(mem2, ch) = Parts(mem, ch)
  BY DEF Parts
<1> QED BY <1>1 DEF Text

(* A chain of a sound pool: its buffers are in use and all different.      *)
LEMMA PoolFacts ==
  ASSUME NEW mem, NEW used, NEW link, Pool(mem, used, link), NEW k \in Keys,
         NEW ch, ch = link[k], NEW m, m = Len(ch)
  PROVE  /\ ch \in Seq(Bufs) /\ m \in Nat /\ DOMAIN ch = 1 .. m
         /\ \A i \in 1 .. m : ch[i] \in Bufs /\ Holds(link, k, i, ch[i]) /\ mem[ch[i]].use
         /\ \A i, j \in 1 .. m : ch[i] = ch[j] => i = j
<1>1. ch \in Seq(Bufs) /\ m \in Nat /\ DOMAIN ch = 1 .. m
  <2>1. ch \in Seq(Bufs)
    BY DEF Pool
  <2> QED BY <2>1, LenProperties
<1>2. ASSUME NEW i \in 1 .. m PROVE ch[i] \in Bufs /\ Holds(link, k, i, ch[i])
  <2>1. ch[i] \in Bufs
    BY <1>1, ElementOfSeq
  <2> QED BY <2>1 DEF Holds
<1>3. InUse(mem, link) /\ Apart(link)
  BY DEF Pool
<1>4. ASSUME NEW i \in 1 .. m PROVE mem[ch[i]].use
  BY <1>2, <1>3 DEF InUse
<1>5. ASSUME NEW i \in 1 .. m, NEW j \in 1 .. m, ch[i] = ch[j] PROVE i = j
  <2>1. PICK b \in Bufs : b = ch[i]
    BY <1>2
  <2>2. Holds(link, k, i, b) /\ Holds(link, k, j, b) /\ i \in Nat /\ j \in Nat
    BY <2>1, <1>2, <1>5
  <2> QED BY <2>2, <1>3 DEF Apart
<1> QED BY <1>1, <1>2, <1>4, <1>5

(* How AppendMemBufList changes the pool: n new buffers, the last and the  *)
(* new ones written.                                                       *)
Appended(mem, mem2, d, last, blank, n, new) ==
  /\ Cutting(d, blank, n)
  /\ mem2[last] = [use |-> TRUE, data |-> mem[last].data \o Take(d, Upto(d, blank, 0))]
  /\ \A i \in 1 .. n : mem2[new[i]] = [use |-> TRUE, data |-> Piece(d, blank, i)]
  /\ \A b \in Bufs : b # last /\ (~\E i \in 1 .. n : new[i] = b) => mem2[b] = mem[b]


(* What the buffers hold then.                                             *)
Written(mem, mem2, d, last, blank, n, new) ==
  /\ mem2[last].use
  /\ mem2[last].data = mem[last].data \o Take(d, Upto(d, blank, 0))
  /\ \A i \in 1 .. n :
       /\ mem2[new[i]].use /\ mem2[new[i]].data # <<>>
       /\ mem2[new[i]].data = Between(d, Upto(d, blank, i - 1), Upto(d, blank, i))
  /\ \A b \in Bufs : b # last /\ (~\E i \in 1 .. n : new[i] = b) => mem2[b] = mem[b]

RoomIn(mem, b) == BufSize - Len(mem[b].data)

(* What the buffers hold once d is spread over them.                       *)
LEMMA AppendedFacts ==
  ASSUME NEW mem \in [Bufs -> Buffer], \A b \in Bufs : Len(mem[b].data) <= BufSize,
         NEW mem2 \in [Bufs -> Buffer], NEW d \in Seq(Byte), NEW last \in Bufs, mem[last].use,
         NEW blank, blank = RoomIn(mem, last), NEW n, NEW new,
         Fresh(mem, n, new), Appended(mem, mem2, d, last, blank, n, new)
  PROVE  /\ \A b \in Bufs : Len(mem2[b].data) <= BufSize
         /\ Written(mem, mem2, d, last, blank, n, new)
<1>1. Cutting(d, blank, n)
  BY DEF Appended
<1>2. /\ n \in Nat
      /\ \A i \in 0 .. n : Upto(d, blank, i) \in Nat /\ Upto(d, blank, i) <= Len(d)
      /\ \A i \in 1 .. n : /\ Upto(d, blank, i - 1) < Upto(d, blank, i)
                           /\ Upto(d, blank, i) - Upto(d, blank, i - 1) <= BufSize
      /\ Upto(d, blank, 0) <= blank
  BY <1>1, CuttingFacts
<1>3. mem2[last] = [use |-> TRUE, data |-> mem[last].data \o Take(d, Upto(d, blank, 0))]
  BY DEF Appended
<1>4. ASSUME NEW i \in 1 .. n
      PROVE  /\ mem2[new[i]].use
             /\ mem2[new[i]].data = Piece(d, blank, i)
  <2>1. PICK p, x : p = Piece(d, blank, i) /\ x = mem2[new[i]]
    OBVIOUS
  <2>2. x = [use |-> TRUE, data |-> p]
    BY <2>1 DEF Appended
  <2>3. x.use /\ x.data = p
    BY <2>2
  <2> QED BY <2>1, <2>3
<1>5. ASSUME NEW b \in Bufs, b # last, ~\E i \in 1 .. n : new[i] = b PROVE mem2[b] = mem[b]
  BY <1>5 DEF Appended
<1>6. PICK v \in Seq(Byte) : v = mem[last].data
  BY DEF Buffer
<1>7. /\ Len(v \o Take(d, Upto(d, blank, 0))) <= BufSize
  <2>1. PICK c \in Nat : c = Upto(d, blank, 0) /\ c <= Len(d) /\ c <= blank
    BY <1>2
  <2>2. PICK w : w = Take(d, c)
    OBVIOUS
  <2>3. w \in Seq(Byte) /\ Len(w) = c
    <3>1. w = SubSeq(d, 1, c) /\ \A i \in 1 .. c : d[i] \in Byte
      BY <2>1, <2>2, ElementOfSeq DEF Take
    <3>2. /\ SubSeq(d, 1, c) \in Seq(Byte)
          /\ Len(SubSeq(d, 1, c)) = IF 1 <= c THEN c - 1 + 1 ELSE 0
      BY <3>1, SubSeqProperties
    <3> QED BY <3>1, <3>2
  <2>4. PICK x \in Nat : x = Len(v)
    BY LenProperties
  <2>5. PICK u : u = v \o w
    OBVIOUS
  <2>6. Len(u) = x + c
    <3>1. /\ v \in Seq(Byte) /\ w \in Seq(Byte) /\ x = Len(v) /\ c = Len(w)
          /\ u = v \o w
      BY <2>3, <2>4, <2>5
    <3> QED BY ONLY <3>1, ConcatFacts
  <2>7. c <= BufSize - x
    BY <2>1, <2>4, <1>6 DEF RoomIn
  <2>8. x + c <= BufSize
    BY <2>7, MemBufferAssumption
  <2> QED BY <2>1, <2>2, <2>5, <2>6, <2>8
<1>8. ASSUME NEW i \in 1 .. n
      PROVE  /\ Piece(d, blank, i) # <<>> /\ Len(Piece(d, blank, i)) <= BufSize
             /\ Piece(d, blank, i) = Between(d, Upto(d, blank, i - 1), Upto(d, blank, i))
  <2>1. i - 1 \in 0 .. n /\ i \in 0 .. n
    BY <1>2
  <2>2. PICK c \in Nat, e \in Nat :
          /\ c = Upto(d, blank, i - 1) /\ e = Upto(d, blank, i) /\ c < e /\ e <= Len(d)
          /\ e - c <= BufSize
    <3>1. Upto(d, blank, i - 1) \in Nat /\ Upto(d, blank, i) \in Nat
          /\ Upto(d, blank, i) <= Len(d)
      BY <2>1, <1>2
    <3>2. /\ Upto(d, blank, i - 1) < Upto(d, blank, i)
          /\ Upto(d, blank, i) - Upto(d, blank, i - 1) <= BufSize
      BY <1>2
    <3> QED BY <3>1, <3>2
  <2>3. PICK m \in Int : m = c + 1
    OBVIOUS
  <2>30. PICK w : w = SubSeq(d, m, e)
    OBVIOUS
  <2>4. Piece(d, blank, i) = w /\ Between(d, c, e) = w
    BY <2>2, <2>3, <2>30 DEF Piece, Between
  <2>5. Len(w) = e - c
    <3>1. \A j \in m .. e : d[j] \in Byte
      BY <2>2, <2>3, ElementOfSeq, SMTT(30)
    <3>2. Len(SubSeq(d, m, e)) = IF m <= e THEN e - m + 1 ELSE 0
      BY <3>1, SubSeqProperties
    <3> QED BY <3>2, <2>2, <2>3, <2>30, SMTT(30)
  <2>6. w # <<>>
    BY <2>5, <2>2, EmptySeq
  <2> QED BY <2>2, <2>4, <2>5, <2>6
<1>9. ASSUME NEW b \in Bufs PROVE Len(mem2[b].data) <= BufSize
  <2>1. CASE b = last
    <3>1. PICK w : w = v \o Take(d, Upto(d, blank, 0))
      OBVIOUS
    <3>2. mem2[b] = [use |-> TRUE, data |-> w]
      BY <2>1, <3>1, <1>3, <1>6
    <3>3. mem2[b].data = w
      BY <3>2
    <3> QED BY <3>1, <3>3, <1>7
  <2>2. CASE b # last /\ \E i \in 1 .. n : new[i] = b
    <3>1. PICK i \in 1 .. n : new[i] = b
      BY <2>2
    <3>2. PICK p : p = Piece(d, blank, i)
      OBVIOUS
    <3>3. mem2[b].data = p /\ Len(p) <= BufSize
      BY <3>1, <3>2, <1>4, <1>8
    <3> QED BY <3>3
  <2>3. CASE b # last /\ ~\E i \in 1 .. n : new[i] = b
    BY <2>3, <1>5
  <2> QED BY <2>1, <2>2, <2>3
<1>10. ASSUME NEW i \in 1 .. n
       PROVE  /\ mem2[new[i]].use /\ mem2[new[i]].data # <<>>
              /\ mem2[new[i]].data = Between(d, Upto(d, blank, i - 1), Upto(d, blank, i))
  <2>1. PICK p, x : p = Piece(d, blank, i) /\ x = mem2[new[i]]
    OBVIOUS
  <2>2. x.use /\ x.data = p
    BY <2>1, <1>4
  <2>3. p # <<>> /\ p = Between(d, Upto(d, blank, i - 1), Upto(d, blank, i))
    BY <2>1, <1>8
  <2> QED BY <2>1, <2>2, <2>3
<1>11. mem2[last].use /\ mem2[last].data = mem[last].data \o Take(d, Upto(d, blank, 0))
  <2>1. PICK w : w = mem[last].data \o Take(d, Upto(d, blank, 0))
    OBVIOUS
  <2>2. mem2[last] = [use |-> TRUE, data |-> w]
    BY <2>1, <1>3
  <2>3. mem2[last].use /\ mem2[last].data = w
    BY <2>2
  <2> QED BY <2>1, <2>3
<1> QED BY <1>5, <1>9, <1>10, <1>11 DEF Written

(* Chain k of pool and pool2 receives d; the other chains keep their text. *)
Appending(mem, mem2, used, used2, link, link2, k, ch, m, d, n, new) ==
  /\ Pool(mem, used, link) /\ k \in Keys /\ ch = link[k]
  /\ m \in Nat \ {0} /\ m = Len(ch) /\ d \in Seq(Byte)
  /\ Fresh(mem, n, new)
  /\ mem2 \in [Bufs -> Buffer]
  /\ Appended(mem, mem2, d, ch[m], RoomIn(mem, ch[m]), n, new)
  /\ link2 = [link EXCEPT ![k] = ch \o new]
  /\ used2 = used + n

Gains(mem, mem2, ch, c2, d) == Text(mem2, c2) = Text(mem, ch) \o d

(* The parts, flattened, gain d at the end.                                *)
LEMMA AppendedText ==
  ASSUME NEW mem, NEW mem2, NEW used, NEW used2, NEW link, NEW link2, NEW k, NEW ch, NEW m,
         NEW d, NEW n, NEW new,
         Appending(mem, mem2, used, used2, link, link2, k, ch, m, d, n, new),
         NEW blank, blank = RoomIn(mem, ch[m]),
         NEW c2, c2 = ch \o new
  PROVE  Gains(mem, mem2, ch, c2, d)
<1>1. /\ mem \in [Bufs -> Buffer] /\ mem2 \in [Bufs -> Buffer]
      /\ \A b \in Bufs : Len(mem[b].data) <= BufSize
      /\ k \in Keys /\ d \in Seq(Byte) /\ m \in Nat \ {0} /\ m = Len(ch) /\ ch = link[k]
      /\ Fresh(mem, n, new) /\ Pool(mem, used, link)
      /\ Appended(mem, mem2, d, ch[m], blank, n, new)
  BY DEF Appending, Pool
<1>2. /\ ch \in Seq(Bufs)
      /\ \A i \in 1 .. m : ch[i] \in Bufs /\ mem[ch[i]].use
      /\ \A i, j \in 1 .. m : ch[i] = ch[j] => i = j
  BY <1>1, PoolFacts
<1>3. PICK last \in Bufs : last = ch[m] /\ mem[last].use
  BY <1>1, <1>2
<1>4. Cutting(d, blank, n)
  BY <1>1 DEF Appended
<1>5. /\ n \in Nat
      /\ \A i \in 0 .. n : Upto(d, blank, i) \in Nat /\ Upto(d, blank, i) <= Len(d)
      /\ \A i \in 1 .. n : Upto(d, blank, i - 1) < Upto(d, blank, i)
      /\ Upto(d, blank, n) = Len(d)
  BY <1>4, CuttingFacts
<1>6. /\ mem2[last].data = mem[last].data \o Take(d, Upto(d, blank, 0))
      /\ \A i \in 1 .. n :
           mem2[new[i]].data = Between(d, Upto(d, blank, i - 1), Upto(d, blank, i))
      /\ \A b \in Bufs : b # last /\ (~\E i \in 1 .. n : new[i] = b) => mem2[b] = mem[b]
  <2>1. /\ mem \in [Bufs -> Buffer] /\ mem2 \in [Bufs -> Buffer] /\ d \in Seq(Byte)
        /\ last \in Bufs /\ mem[last].use /\ Fresh(mem, n, new)
    BY <1>1, <1>3
  <2>2. \A b \in Bufs : Len(mem[b].data) <= BufSize
    BY <1>1
  <2>3. blank = RoomIn(mem, last) /\ Appended(mem, mem2, d, last, blank, n, new)
    BY <1>1, <1>3
  <2>4. Written(mem, mem2, d, last, blank, n, new)
    BY ONLY <2>1, <2>2, <2>3, AppendedFacts
  <2> QED BY <2>4 DEF Written
<1>7. new \in Seq(Bufs) /\ Len(new) = n
  BY <1>1, <1>5 DEF Fresh
<1>8. /\ c2 \in Seq(Bufs) /\ Len(c2) = m + n
      /\ \A i \in 1 .. m + n : c2[i] = IF i <= m THEN ch[i] ELSE new[i - m]
  BY ONLY <1>1, <1>2, <1>7, c2 = ch \o new, ConcatFacts, SMTT(30)
<1>9. PICK s, t : s = Parts(mem, ch) /\ t = Parts(mem2, c2)
  OBVIOUS
<1>10. s \in Seq(Seq(Byte)) /\ Len(s) = m /\ \A i \in 1 .. m : s[i] = mem[ch[i]].data
  BY <1>1, <1>2, <1>9, PartsFacts, SMTT(30)
<1>11. /\ t \in Seq(Seq(Byte)) /\ Len(t) = m + n
       /\ \A i \in 1 .. m + n : t[i] = mem2[c2[i]].data
  <2>1. PICK l : l = m + n
    OBVIOUS
  <2>2. t \in Seq(Seq(Byte)) /\ Len(t) = l /\ \A i \in 1 .. l : t[i] = mem2[c2[i]].data
    <3>1. /\ mem2 \in [Bufs -> Buffer] /\ c2 \in Seq(Bufs)
          /\ l = Len(c2) /\ t = Parts(mem2, c2)
      BY <2>1, <1>1, <1>8, <1>9
    <3> QED BY ONLY <3>1, PartsFacts
  <2> QED BY <2>1, <2>2
<1>12. PICK cut : cut = [i \in 0 .. n |-> Upto(d, blank, i)]
  OBVIOUS
<1>13. Joined(s, d, m, n, cut, t)
  <2>1. \A i \in 0 .. n : cut[i] \in Nat /\ cut[i] <= Len(d)
    BY <1>5, <1>12
  <2>2. ASSUME NEW i \in 1 .. n PROVE cut[i - 1] <= cut[i]
    <3>1. i - 1 \in 0 .. n /\ i \in 0 .. n
      BY <1>5
    <3>2. cut[i - 1] = Upto(d, blank, i - 1) /\ cut[i] = Upto(d, blank, i)
      BY <3>1, <1>12
    <3>3. cut[i - 1] < cut[i] /\ cut[i - 1] \in Nat /\ cut[i] \in Nat
      BY <3>1, <3>2, <2>1, <1>5
    <3> QED BY <3>3
  <2>3. cut[n] = Len(d)
    BY <1>5, <1>12
  <2>4. ASSUME NEW i \in 1 .. m - 1 PROVE t[i] = s[i]
    <3>1. i \in 1 .. m /\ i \in 1 .. m + n /\ i # m
      BY <1>1, <1>5
    <3>20. c2[i] = ch[i]
      BY <3>1, <1>1, <1>8
    <3>2. t[i] = mem2[ch[i]].data /\ s[i] = mem[ch[i]].data
      BY <3>1, <3>20, <1>10, <1>11, Zenon
    <3>30. ch[i] # last
      BY <3>1, <1>1, <1>2, <1>3
    <3>31. mem[ch[i]].use
      BY <3>1, <1>2
    <3>32. \A j \in 1 .. n : ~mem[new[j]].use
      BY <1>1 DEF Fresh
    <3>3. ch[i] # last /\ ~\E j \in 1 .. n : new[j] = ch[i]
      BY <3>30, <3>31, <3>32, Zenon
    <3>4. mem2[ch[i]] = mem[ch[i]]
      BY <3>1, <3>3, <1>2, <1>6
    <3> QED BY <3>2, <3>4
  <2>5. t[m] = s[m] \o Take(d, cut[0])
    <3>1. m \in 1 .. m /\ m \in 1 .. m + n
      BY <1>1, <1>5
    <3>20. c2[m] = last
      BY <3>1, <1>1, <1>3, <1>8
    <3>2. t[m] = mem2[last].data /\ s[m] = mem[last].data
      BY <3>1, <3>20, <1>3, <1>10, <1>11, Zenon
    <3>3. cut[0] = Upto(d, blank, 0)
      BY <1>5, <1>12
    <3> QED BY <3>2, <3>3, <1>6
  <2>6. ASSUME NEW i \in 1 .. n PROVE t[m + i] = Between(d, cut[i - 1], cut[i])
    <3>1. m + i \in 1 .. m + n /\ ~(m + i <= m) /\ (m + i) - m = i
      BY <1>1, <1>5
    <3>2. t[m + i] = mem2[new[i]].data
      BY <3>1, <1>8, <1>11
    <3>3. cut[i - 1] = Upto(d, blank, i - 1) /\ cut[i] = Upto(d, blank, i)
      BY <1>5, <1>12
    <3> QED BY <3>2, <3>3, <1>6
  <2> QED BY <2>1, <2>2, <2>3, <2>4, <2>5, <2>6, <1>10, <1>11 DEF Joined
<1>14. FlattenSeq(t) = FlattenSeq(s) \o d
  BY <1>1, <1>5, <1>10, <1>11, <1>13, FlatAppend
<1> QED BY <1>9, <1>14, Zenon DEF Text, Gains

(* The pool stays sound.                                                   *)
LEMMA AppendedPool ==
  ASSUME NEW mem, NEW mem2, NEW used, NEW used2, NEW link, NEW link2, NEW k, NEW ch, NEW m,
         NEW d, NEW n, NEW new,
         Appending(mem, mem2, used, used2, link, link2, k, ch, m, d, n, new)
  PROVE  Pool(mem2, used2, link2)
<1>1. /\ mem \in [Bufs -> Buffer] /\ mem2 \in [Bufs -> Buffer]
      /\ \A b \in Bufs : Len(mem[b].data) <= BufSize
      /\ k \in Keys /\ d \in Seq(Byte) /\ m \in Nat \ {0} /\ m = Len(ch) /\ ch = link[k]
      /\ Fresh(mem, n, new) /\ Pool(mem, used, link)
      /\ Appended(mem, mem2, d, ch[m], RoomIn(mem, ch[m]), n, new)
  BY DEF Appending, Pool
<1>2. PICK last, blank : last = ch[m] /\ blank = RoomIn(mem, ch[m])
  OBVIOUS
<1>3. last \in Bufs /\ mem[last].use
  BY <1>1, <1>2, PoolFacts
<1>4. n \in Nat
  <2>1. Cutting(d, blank, n)
    BY <1>1, <1>2 DEF Appended
  <2> QED BY <2>1, CuttingFacts
<1>5. (\A b \in Bufs : Len(mem2[b].data) <= BufSize) /\ Written(mem, mem2, d, last, blank, n, new)
  <2>1. /\ mem \in [Bufs -> Buffer] /\ mem2 \in [Bufs -> Buffer] /\ d \in Seq(Byte)
        /\ last \in Bufs /\ mem[last].use /\ Fresh(mem, n, new)
    BY <1>1, <1>3
  <2>2. \A b \in Bufs : Len(mem[b].data) <= BufSize
    BY <1>1
  <2>3. blank = RoomIn(mem, last) /\ Appended(mem, mem2, d, last, blank, n, new)
    BY <1>1, <1>2
  <2> QED BY ONLY <2>1, <2>2, <2>3, AppendedFacts
<1>6. PICK v \in Seq(Byte), w \in Seq(Byte) : v = mem[last].data /\ mem2[last].data = v \o w
  <2>1. mem[last].data \in Seq(Byte)
    BY <1>1, <1>3 DEF Buffer
  <2>2. PICK c \in Nat : c = Upto(d, blank, 0) /\ c <= Len(d)
    <3>1. Cutting(d, blank, n) /\ 0 \in 0 .. n
      BY <1>1, <1>2, <1>4 DEF Appended
    <3> QED BY <3>1, CuttingFacts
  <2>3. PICK w : w = Take(d, c)
    OBVIOUS
  <2>4. w \in Seq(Byte)
    <3>1. PICK x : x = Between(d, c, c)
      OBVIOUS
    <3>2. Cuts(Byte, d, c, c, w, x, w)
      BY <1>1, <2>2, <2>3, <3>1 DEF Cuts
    <3> QED BY <3>2, TakeFacts
  <2>5. mem2[last].data = mem[last].data \o w
    BY <1>5, <2>2, <2>3 DEF Written
  <2> QED BY <2>1, <2>4, <2>5
<1>7. ASSUME NEW b \in Bufs
      PROVE  /\ mem2[b].use <=> mem[b].use \/ \E i \in 1 .. n : new[i] = b
             /\ mem[b].use /\ mem[b].data # <<>> => mem2[b].data # <<>>
  <2>1. CASE b = last
    <3>1. v # <<>> => v \o w # <<>>
      BY ConcatEqualIffEmpty, ConcatSimplifications
    <3>2. mem2[b].use /\ mem[b].use
      BY <2>1, <1>3, <1>5 DEF Written
    <3> QED BY <3>1, <3>2, <2>1, <1>6
  <2>2. CASE \E i \in 1 .. n : new[i] = b
    <3>1. mem2[b].use /\ mem2[b].data # <<>>
      BY <2>2, <1>5 DEF Written
    <3> QED BY <3>1, <2>2
  <2>3. CASE b # last /\ ~\E i \in 1 .. n : new[i] = b
    <3>1. mem2[b] = mem[b]
      BY <2>3, <1>5 DEF Written
    <3> QED BY <3>1, <2>3
  <2> QED BY <2>1, <2>2, <2>3
<1>8. link2 = [link EXCEPT ![k] = link[k] \o new]
  BY <1>1 DEF Appending
<1>9. Grown(mem, mem2, link, link2, k, m, n, new)
  <2>1. \A i \in 1 .. n : mem2[new[i]].data # <<>>
    BY <1>5 DEF Written
  <2> QED BY <2>1, <1>7, <1>8 DEF Grown
<1>10. new \in Seq(Bufs) /\ Len(new) = n
  BY <1>1, <1>4 DEF Fresh
<1>11. /\ link \in [Keys -> Seq(Bufs)]
       /\ InUse(mem, link) /\ Apart(link) /\ Reached(mem, link) /\ Full(mem, link)
       /\ Counted(mem, used)
  BY <1>1 DEF Pool
<1>12. /\ \A i, j \in 1 .. n : new[i] = new[j] => i = j
       /\ \A i \in 1 .. n : ~mem[new[i]].use
       /\ new \in [1 .. n -> Bufs]
  BY <1>1 DEF Fresh
<1>13. /\ link2 \in [Keys -> Seq(Bufs)]
       /\ InUse(mem2, link2) /\ Apart(link2) /\ Reached(mem2, link2) /\ Full(mem2, link2)
  <2>1. m = Len(link[k]) /\ m \in Nat /\ k \in Keys
    BY <1>1
  <2> QED BY ONLY <2>1, <1>4, <1>9, <1>10, <1>11, <1>12, Grows
<1>14. Counted(mem2, used2)
  <2>1. Taken(mem, mem2, n, new) /\ Counted(mem, used) /\ Fresh(mem, n, new)
    BY <1>1, <1>7, <1>11 DEF Taken
  <2>2. Counted(mem2, used + n)
    BY ONLY <2>1, <1>4, CountGrows
  <2> QED BY <2>2 DEF Appending
<1> QED BY <1>1, <1>5, <1>13, <1>14 DEF Pool

(* Every other chain keeps its text.                                       *)
LEMMA OthersKeepText ==
  ASSUME NEW mem, NEW mem2, NEW used, NEW used2, NEW link, NEW link2, NEW k, NEW ch, NEW m,
         NEW d, NEW n, NEW new,
         Appending(mem, mem2, used, used2, link, link2, k, ch, m, d, n, new),
         NEW l \in Keys, l # k
  PROVE  link2[l] = link[l] /\ Text(mem2, link[l]) = Text(mem, link[l])
<1>1. /\ mem \in [Bufs -> Buffer] /\ mem2 \in [Bufs -> Buffer]
      /\ \A b \in Bufs : Len(mem[b].data) <= BufSize
      /\ k \in Keys /\ d \in Seq(Byte) /\ m \in Nat \ {0} /\ m = Len(ch) /\ ch = link[k]
      /\ Fresh(mem, n, new) /\ Pool(mem, used, link)
      /\ Appended(mem, mem2, d, ch[m], RoomIn(mem, ch[m]), n, new)
  BY DEF Appending, Pool
<1>2. link2[l] = link[l]
  BY <1>1 DEF Appending, Pool
<1>3. PICK c, n2 : c = link[l] /\ n2 = Len(c)
  OBVIOUS
<1>4. /\ n2 \in Nat /\ DOMAIN c = 1 .. n2
      /\ \A i \in 1 .. n2 : c[i] \in Bufs /\ Holds(link, l, i, c[i]) /\ mem[c[i]].use
  BY <1>1, <1>3, PoolFacts
<1>5. Holds(link, k, m, ch[m]) /\ ch[m] \in Bufs
  BY <1>1, PoolFacts
<1>6. ASSUME NEW i \in 1 .. n2 PROVE mem2[c[i]].data = mem[c[i]].data
  <2>1. c[i] # ch[m]
    <3>1. Apart(link)
      BY <1>1 DEF Pool
    <3>2. i \in Nat /\ m \in Nat
      BY <1>1
    <3> QED BY <3>1, <3>2, <1>1, <1>4, <1>5 DEF Apart
  <2>2. \A j \in 1 .. n : new[j] # c[i]
    BY <1>1, <1>4 DEF Fresh
  <2>3. mem2[c[i]] = mem[c[i]]
    BY <2>1, <2>2, <1>1, <1>4 DEF Appended
  <2> QED BY <2>3
<1>7. Text(mem2, c) = Text(mem, c)
  BY <1>4, <1>6, OtherTexts
<1> QED BY <1>2, <1>3, <1>7

(* The chain AppendMemBufList makes, and what it does to the pool.         *)
Appends(used, link, link2, k, d, r) ==
  /\ Pool(r.mem, r.used, link2)
  /\ r.finder \in Bufs
  /\ r.chain # <<>>
  /\ link2 = [link EXCEPT ![k] = r.chain]
  /\ Text(r.mem, r.chain) = Text(g_mem_buffer, link[k]) \o d
  /\ \A l \in Keys : l # k => Text(r.mem, link[l]) = Text(g_mem_buffer, link[l])

Unfolded(r, ch, d, last, blank, n, new) ==
  /\ r.chain = ch \o new
  /\ Appended(g_mem_buffer, r.mem, d, last, blank, n, new)
  /\ r.mem = [b \in Bufs |-> r.mem[b]]
  /\ r.used = g_mem_buffer_used + n
  /\ r.finder = IF n = 0 THEN g_mem_buffer_finder ELSE new[n]

(* The record AppendMemBufList makes has these parts.                      *)
LEMMA AppendUnfolds ==
  ASSUME NEW ch, NEW d, NEW last, NEW blank, NEW n, NEW new, NEW r,
         last = ch[Len(ch)], last \in Bufs, blank = RoomIn(g_mem_buffer, last),
         Cutting(d, blank, n), new = allocateMemBuf(n), Fresh(g_mem_buffer, n, new),
         ~\E i \in 1 .. n : new[i] = last,
         r = AppendMemBufList(ch, d)
  PROVE  Unfolded(r, ch, d, last, blank, n, new)
<1>1. n = IF Len(d) <= blank THEN 0 ELSE Ceil(Len(d) - blank)
  BY DEF Cutting
<1>2. blank = Room(last)
  BY DEF RoomIn, Room
<1> DEFINE mem2 == [b \in Bufs |->
             IF b = last THEN [use |-> TRUE, data |-> g_mem_buffer[b].data \o
                                                   SubSeq(d, 1, Upto(d, blank, 0))]
             ELSE IF \E i \in 1 .. n : new[i] = b
               THEN [use |-> TRUE, data |-> Piece(d, blank, CHOOSE i \in 1 .. n : new[i] = b)]
             ELSE g_mem_buffer[b]]
<1>3. r = [chain  |-> ch \o new, mem |-> mem2, used |-> g_mem_buffer_used + n,
           finder |-> IF n = 0 THEN g_mem_buffer_finder ELSE new[n]]
  BY <1>1, <1>2, SMTT(30) DEF AppendMemBufList
<1>4. mem2[last] = [use |-> TRUE, data |-> g_mem_buffer[last].data \o Take(d, Upto(d, blank, 0))]
  BY Zenon DEF Take
<1>5. ASSUME NEW i \in 1 .. n
      PROVE  mem2[new[i]] = [use |-> TRUE, data |-> Piece(d, blank, i)]
  <2>1. PICK b \in Bufs : b = new[i]
    BY DEF Fresh
  <2>2. b # last
    BY <2>1
  <2>3. (CHOOSE j \in 1 .. n : new[j] = b) = i
    BY <2>1 DEF Fresh
  <2>4. mem2[b] = [use |-> TRUE, data |-> Piece(d, blank, CHOOSE j \in 1 .. n : new[j] = b)]
    BY <2>1, <2>2, Zenon
  <2> HIDE DEF mem2
  <2> QED BY <2>1, <2>3, <2>4
<1>6. ASSUME NEW b \in Bufs, b # last, ~\E i \in 1 .. n : new[i] = b
      PROVE  mem2[b] = g_mem_buffer[b]
  BY <1>6, Zenon
<1>60. mem2 = [b \in Bufs |-> mem2[b]]
  OBVIOUS
<1> HIDE DEF mem2
<1>7. Appended(g_mem_buffer, mem2, d, last, blank, n, new)
  BY <1>4, <1>5, <1>6 DEF Appended
<1>8. r.mem = mem2 /\ r.chain = ch \o new
  BY <1>3
<1>9. r.used = g_mem_buffer_used + n
      /\ r.finder = IF n = 0 THEN g_mem_buffer_finder ELSE new[n]
  BY <1>3
<1> QED BY <1>60, <1>7, <1>8, <1>9 DEF Unfolded

(* A buffer in use is one of the buffers.                                  *)
LEMMA BufferTyped ==
  ASSUME NEW u \in Seq(Byte)
  PROVE  [use |-> TRUE, data |-> u] \in Buffer
<1>1. PICK S : S = Seq(Byte)
  OBVIOUS
<1>2. Buffer = [use : BOOLEAN, data : S] /\ u \in S
  BY <1>1 DEF Buffer
<1> QED BY ONLY <1>2

(* The pool keeps its type.                                                *)
LEMMA AppendTyped ==
  ASSUME NEW mem \in [Bufs -> Buffer], NEW mem2, mem2 = [b \in Bufs |-> mem2[b]],
         NEW d \in Seq(Byte), NEW last \in Bufs, NEW blank, NEW n, NEW new,
         Appended(mem, mem2, d, last, blank, n, new)
  PROVE  mem2 \in [Bufs -> Buffer]
<1>1. Cutting(d, blank, n)
  BY DEF Appended
<1>2. /\ n \in Nat
      /\ \A i \in 0 .. n : Upto(d, blank, i) \in Nat /\ Upto(d, blank, i) <= Len(d)
      /\ \A i \in 1 .. n : Upto(d, blank, i - 1) < Upto(d, blank, i)
  BY <1>1, CuttingFacts
<1>3. ASSUME NEW c \in Nat, NEW e \in Nat, c <= e, e <= Len(d)
      PROVE  Take(d, c) \in Seq(Byte) /\ Between(d, c, e) \in Seq(Byte)
  <2>1. PICK v, w, u : v = Take(d, c) /\ w = Between(d, c, e) /\ u = Take(d, e)
    OBVIOUS
  <2>2. Cuts(Byte, d, c, e, v, w, u)
    BY <2>1, <1>3 DEF Cuts
  <2>3. v \in Seq(Byte) /\ w \in Seq(Byte)
    BY <2>2, TakeFacts
  <2> QED BY <2>1, <2>3
<1>4. mem2[last] \in Buffer
  <2>1. PICK v \in Seq(Byte), w \in Seq(Byte) :
          v = mem[last].data /\ w = Take(d, Upto(d, blank, 0))
    <3>1. mem[last].data \in Seq(Byte)
      BY DEF Buffer
    <3>2. PICK c \in Nat : c = Upto(d, blank, 0) /\ c <= Len(d)
      BY <1>2
    <3>3. Take(d, c) \in Seq(Byte)
      BY <3>2, <1>3
    <3> QED BY <3>1, <3>2, <3>3
  <2>20. v \o w \in Seq(Byte)
    BY ConcatProperties
  <2>2. PICK u \in Seq(Byte) : u = v \o w
    BY <2>20
  <2>3. mem2[last] = [use |-> TRUE, data |-> u]
    BY <2>1, <2>2 DEF Appended
  <2> QED BY <2>3, BufferTyped
<1>5. ASSUME NEW i \in 1 .. n PROVE mem2[new[i]] \in Buffer
  <2>1. PICK p : p = Piece(d, blank, i)
    OBVIOUS
  <2>2. p \in Seq(Byte)
    <3>1. i - 1 \in 0 .. n /\ i \in 0 .. n
      BY <1>2
    <3>2. PICK c, e : c = Upto(d, blank, i - 1) /\ e = Upto(d, blank, i)
      OBVIOUS
    <3>3. c \in Nat /\ e \in Nat /\ c < e /\ e <= Len(d)
      BY <3>1, <3>2, <1>2
    <3>4. Between(d, c, e) \in Seq(Byte)
      BY <3>3, <1>3
    <3> QED BY <2>1, <3>2, <3>4 DEF Piece, Between
  <2>3. mem2[new[i]] = [use |-> TRUE, data |-> p]
    BY <2>1 DEF Appended
  <2> QED BY <2>2, <2>3, BufferTyped
<1>6. ASSUME NEW b \in Bufs PROVE mem2[b] \in Buffer
  <2>1. CASE b # last /\ ~\E i \in 1 .. n : new[i] = b
    <3>1. mem2[b] = mem[b]
      BY <2>1 DEF Appended
    <3> QED BY <3>1
  <2> QED BY <2>1, <1>4, <1>5
<1> QED BY <1>6

(* appendMemBufList: d goes to the end of chain k whole, every other chain *)
(* keeps its text, and the pool stays sound.                               *)
LEMMA AppendStep ==
  ASSUME NEW link, NEW link2, Pool(g_mem_buffer, g_mem_buffer_used, link),
         g_mem_buffer_finder \in Bufs,
         NEW k \in Keys, link[k] # <<>>, NEW d \in Reads \union Writes, Appendable(d),
         NEW r, r = AppendMemBufList(link[k], d), link2 = [link EXCEPT ![k] = r.chain]
  PROVE  Appends(g_mem_buffer_used, link, link2, k, d, r)
<1>1. PICK ch, m : ch = link[k] /\ m = Len(ch)
  OBVIOUS
<1>2. /\ ch \in Seq(Bufs) /\ m \in Nat
      /\ \A i \in 1 .. m : ch[i] \in Bufs /\ g_mem_buffer[ch[i]].use
  BY <1>1, PoolFacts
<1>3. m # 0
  BY <1>1, <1>2, EmptySeq
<1>4. PICK last, blank : last = ch[m] /\ blank = RoomIn(g_mem_buffer, last)
  OBVIOUS
<1>5. last \in Bufs /\ g_mem_buffer[last].use
  BY <1>2, <1>3, <1>4
<1>6. blank \in Nat
  <2>1. /\ Len(g_mem_buffer[last].data) <= BufSize
        /\ g_mem_buffer[last].data \in Seq(Byte)
    BY <1>5 DEF Pool, Buffer
  <2>2. Len(g_mem_buffer[last].data) \in Nat
    BY <2>1, LenProperties
  <2> QED BY <2>1, <2>2, <1>4, MemBufferAssumption DEF RoomIn
<1>7. d \in Seq(Byte) /\ Len(d) \in Nat \ {0}
  BY InputFacts
<1>8. PICK n : Cutting(d, blank, n)
  BY <1>6, <1>7 DEF Cutting
<1>9. n \in 0 .. Cardinality(Free)
  <2>1. /\ n \in Nat
        /\ \A f \in Nat : Len(d) < f * BufSize => n <= f
    BY <1>8, CuttingFacts
  <2>2. PICK f \in Nat : f = Cardinality(Free)
    BY FreeFinite
  <2>3. g_mem_buffer_used = Size - f
    BY <2>2 DEF Pool, Counted, Free
  <2>4. Size - g_mem_buffer_used = f
    BY <2>3, MemBufferAssumption
  <2>5. Len(d) < f * BufSize
    BY <2>4 DEF Appendable, getFreeMem
  <2> QED BY <2>1, <2>2, <2>5
<1>10. PICK new : new = allocateMemBuf(n)
  OBVIOUS
<1>11. /\ new \in [1 .. n -> Free]
       /\ \A i, j \in 1 .. n : new[i] = new[j] => i = j
  BY <1>9, <1>10, Allocates
<1>12. Fresh(g_mem_buffer, n, new) /\ ~\E i \in 1 .. n : new[i] = last
  BY <1>5, <1>11 DEF Fresh, Free
<1>13. /\ r.chain = ch \o new
       /\ Appended(g_mem_buffer, r.mem, d, last, blank, n, new)
       /\ r.mem = [b \in Bufs |-> r.mem[b]]
       /\ r.used = g_mem_buffer_used + n
       /\ r.finder = IF n = 0 THEN g_mem_buffer_finder ELSE new[n]
  <2>1. last = ch[Len(ch)] /\ r = AppendMemBufList(ch, d)
    BY <1>1, <1>4
  <2>2. blank = RoomIn(g_mem_buffer, last)
    BY <1>4
  <2>3. Unfolded(r, ch, d, last, blank, n, new)
    BY ONLY <2>1, <2>2, <1>5, <1>8, <1>10, <1>12, AppendUnfolds
  <2> QED BY <2>3 DEF Unfolded
<1>14. PICK mem2, c2 : mem2 = r.mem /\ c2 = r.chain
  OBVIOUS
<1>15. g_mem_buffer \in [Bufs -> Buffer] /\ mem2 \in [Bufs -> Buffer]
  <2>1. g_mem_buffer \in [Bufs -> Buffer]
    BY DEF Pool
  <2>2. mem2 = [b \in Bufs |-> mem2[b]] /\ Appended(g_mem_buffer, mem2, d, last, blank, n, new)
    BY <1>13, <1>14
  <2>3. mem2 \in [Bufs -> Buffer]
    BY ONLY <2>1, <2>2, <1>5, <1>7, AppendTyped
  <2> QED BY <2>1, <2>3
<1>16. Appending(g_mem_buffer, mem2, g_mem_buffer_used, r.used, link, link2, k, ch, m, d, n, new)
  BY <1>1, <1>2, <1>3, <1>4, <1>7, <1>12, <1>13, <1>14, <1>15 DEF Appending
<1>17. Pool(mem2, r.used, link2)
  BY <1>16, AppendedPool
<1>18. Text(mem2, c2) = Text(g_mem_buffer, ch) \o d
  <2>1. blank = RoomIn(g_mem_buffer, ch[m]) /\ c2 = ch \o new
    BY <1>4, <1>13, <1>14
  <2>2. Gains(g_mem_buffer, mem2, ch, c2, d)
    BY ONLY <2>1, <1>16, AppendedText
  <2> QED BY <2>2, Zenon DEF Gains
<1>19. \A l \in Keys : l # k => Text(mem2, link[l]) = Text(g_mem_buffer, link[l])
  BY <1>16, OthersKeepText
<1>20. r.finder \in Bufs
  <2>1. CASE n = 0
    BY <2>1, <1>13
  <2>2. CASE n # 0
    <3>1. n \in 1 .. n
      BY <2>2, <1>9, FreeFinite
    <3> QED BY <3>1, <2>2, <1>11, <1>13 DEF Free
  <2> QED BY <2>1, <2>2
<1>21. c2 # <<>>
  <2>1. c2 = ch \o new
    BY <1>13, <1>14
  <2>2. new \in Seq(Bufs)
    BY <1>9, <1>11, FreeFinite DEF Free
  <2>3. ch # <<>>
    BY <1>1
  <2> QED BY <2>1, <2>2, <2>3, <1>2, ConcatSimplifications
<1> QED BY <1>1, <1>14, <1>17, <1>18, <1>19, <1>20, <1>21 DEF Appends

(* Contents reads the pool as it is now.                                   *)
LEMMA ContentsIsText ==
  ASSUME NEW ch
  PROVE  Contents(ch) = Text(g_mem_buffer, ch)
BY DEF Contents, Text, Parts

(* A chain without buffers holds nothing.                                  *)
LEMMA EmptyText ==
  ASSUME NEW mem
  PROVE  Text(mem, <<>>) = <<>>
<1>1. Parts(mem, <<>>) = <<>>
  BY DEF Parts
<1>2. FlattenSeq(<<>>) = <<>>
  BY DEF FlattenSeq
<1> QED BY <1>1, <1>2 DEF Text

(* What the first i - 1 buffers of a chain hold.                           *)
LEMMA BeforeFacts ==
  ASSUME g_mem_buffer \in [Bufs -> Buffer], NEW ch \in Seq(Bufs),
         NEW s, s = Parts(g_mem_buffer, ch), NEW g, AllSums(s, Byte, g), NEW i \in 1 .. Len(ch)
  PROVE  Before(ch, i) = IF i = 1 THEN 0 ELSE Len(g[i - 1])
<1>1. PICK m \in Nat : m = Len(ch)
  BY LenProperties
<1>2. s \in Seq(Seq(Byte)) /\ Len(s) = m /\ \A j \in 1 .. m : s[j] = g_mem_buffer[ch[j]].data
  BY <1>1, PartsFacts
<1>3. PICK n \in Nat : n = i - 1 /\ n <= m
  <2>1. i - 1 \in Nat /\ i - 1 <= m
    BY <1>1
  <2> QED BY <2>1
<1>c. PICK c : c = SubSeq(ch, 1, n)
  OBVIOUS
<1>4. c \in Seq(Bufs) /\ Len(c) = n /\ \A j \in 1 .. n : c[j] = ch[j]
  <2>1. \A j \in 1 .. n : ch[j] \in Bufs
    BY <1>1, <1>3, ElementOfSeq
  <2>2. /\ SubSeq(ch, 1, n) \in Seq(Bufs)
        /\ Len(SubSeq(ch, 1, n)) = IF 1 <= n THEN n - 1 + 1 ELSE 0
        /\ \A j \in 1 .. n - 1 + 1 : SubSeq(ch, 1, n)[j] = ch[1 + j - 1]
    BY <2>1, SubSeqProperties
  <2>3. \A j \in 1 .. n : j \in 1 .. n - 1 + 1 /\ 1 + j - 1 = j
    OBVIOUS
  <2> QED BY <2>2, <2>3, <1>c
<1>5. Before(ch, i) = Len(Text(g_mem_buffer, c))
  BY <1>3, <1>c, ContentsIsText DEF Before
<1>6. CASE n = 0
  <2>1. c = <<>>
    BY <1>4, <1>6, EmptySeq
  <2>2. Len(Text(g_mem_buffer, c)) = 0
    BY <2>1, EmptyText
  <2> QED BY <2>2, <1>3, <1>5, <1>6
<1>7. CASE n # 0
  <2>1. PICK p : p = Parts(g_mem_buffer, c)
    OBVIOUS
  <2>2. p \in Seq(Seq(Byte)) /\ Len(p) = n /\ \A j \in 1 .. n : p[j] = g_mem_buffer[c[j]].data
    <3>1. n = Len(c) /\ c \in Seq(Bufs)
      BY <1>4
    <3> QED BY ONLY <3>1, <2>1, g_mem_buffer \in [Bufs -> Buffer], PartsFacts
  <2>3. ASSUME NEW j \in 1 .. n PROVE p[j] = s[j]
    <3>1. j \in 1 .. m /\ c[j] = ch[j]
      BY <1>3, <1>4
    <3>2. p[j] = g_mem_buffer[c[j]].data /\ s[j] = g_mem_buffer[ch[j]].data
      BY <3>1, <1>2, <2>2
    <3> QED BY <3>1, <3>2, Zenon
  <2>4. n \in 1 .. Len(s)
    BY <1>2, <1>3, <1>7
  <2>5. FlattenSeq(p) = g[n]
    <3>1. s \in Seq(Seq(Byte)) /\ p \in Seq(Seq(Byte)) /\ IsPrefixOf(p, s, n)
      BY <1>2, <2>2, <2>3 DEF IsPrefixOf
    <3> QED BY ONLY <3>1, <2>4, AllSums(s, Byte, g), PrefixFlat
  <2>6. i # 1 /\ n = i - 1
    BY <1>3, <1>7
  <2>7. Text(g_mem_buffer, c) = g[n]
    BY <2>1, <2>5 DEF Text
  <2> QED BY <2>6, <2>7, <1>5
<1> QED BY <1>6, <1>7

(* What is left of each buffer, as the lemmas on FlattenSeq have it.       *)
LEMMA LeftLeaves ==
  ASSUME g_mem_buffer \in [Bufs -> Buffer], NEW ch \in Seq(Bufs), NEW max \in Nat,
         NEW s, s = Parts(g_mem_buffer, ch), NEW g, AllSums(s, Byte, g),
         NEW left, left = [i \in 1 .. Len(ch) |-> Left(ch, max, i)]
  PROVE  Leaves(s, g, max, left)
<1>1. PICK m \in Nat : m = Len(ch)
  BY LenProperties
<1>2. s \in Seq(Seq(Byte)) /\ Len(s) = m /\ \A j \in 1 .. m : s[j] = g_mem_buffer[ch[j]].data
  BY <1>1, PartsFacts
<1>3. ASSUME NEW i \in 1 .. m
      PROVE  left[i] = Drop(s[i], Less(max, IF i = 1 THEN 0 ELSE Len(g[i - 1])))
  <2>1. PICK n, x : n = Before(ch, i) /\ x = s[i]
    OBVIOUS
  <2>2. n = IF i = 1 THEN 0 ELSE Len(g[i - 1])
    <3>1. i \in 1 .. Len(ch)
      BY <1>1
    <3> QED BY <2>1, <3>1, BeforeFacts
  <2>3. x = g_mem_buffer[ch[i]].data
    BY <2>1, <1>2
  <2>4. Left(ch, max, i) = SubSeq(x, (IF n < max THEN max - n ELSE 0) + 1, Len(x))
    BY <2>1, <2>3, Zenon DEF Left
  <2>5. left[i] = Left(ch, max, i)
    BY <1>1
  <2>6. left[i] = Drop(x, Less(max, n))
    BY <2>4, <2>5, Zenon DEF Drop, Less
  <2> QED BY <2>1, <2>2, <2>6
<1> QED BY <1>2, <1>3 DEF Leaves

(* The buffers left empty behind the head are the first ones there.        *)
LEMMA EmptiedFacts ==
  ASSUME g_mem_buffer \in [Bufs -> Buffer], NEW ch \in Seq(Bufs), NEW max \in Nat,
         NEW m \in Nat \ {0}, m = Len(ch),
         \A i \in 2 .. m : g_mem_buffer[ch[i]].data # <<>>
  PROVE  \E last \in 1 .. m :
           /\ Emptied(ch, max) = 2 .. last
           /\ (CHOOSE i \in {1} \union Emptied(ch, max) : \A j \in Emptied(ch, max) : j <= i) = last
           /\ last # 1 => Left(ch, max, last) = <<>>
<1>1. PICK s : s = Parts(g_mem_buffer, ch)
  OBVIOUS
<1>2. s \in Seq(Seq(Byte)) /\ Len(s) = m /\ \A j \in 1 .. m : s[j] = g_mem_buffer[ch[j]].data
  BY <1>1, PartsFacts
<1>3. PICK g : AllSums(s, Byte, g)
  BY <1>2, SumsExist
<1>4. PICK left : left = [i \in 1 .. Len(ch) |-> Left(ch, max, i)]
  OBVIOUS
<1>5. Leaves(s, g, max, left)
  BY <1>1, <1>3, <1>4, LeftLeaves
<1>6. PICK E : E = Emptied(ch, max)
  OBVIOUS
<1>7. E = {i \in 2 .. m : left[i] = <<>>}
  BY <1>4, <1>6 DEF Emptied
<1>8. ASSUME NEW j \in E, NEW i \in 2 .. j PROVE i \in E
  <2>0. j \in 2 .. m /\ j \in 1 .. m /\ left[j] = <<>>
    BY <1>7
  <2>1. j \in 1 .. Len(s) /\ left[j] = <<>> /\ s[j] # <<>>
    BY <2>0, <1>2
  <2>2. \A h \in 1 .. j : Drop(g[h], max) = <<>>
    <3>1. s \in Seq(Seq(Byte))
      BY <1>2
    <3>2. Consumed(g, max, j)
      BY ONLY <3>1, <1>3, <1>5, <2>1, max \in Nat, SumConsumed
    <3> QED BY <3>2 DEF Consumed
  <2>3. i \in 2 .. m /\ i \in 1 .. j /\ i - 1 \in 1 .. j /\ i # 1
    BY <1>7
  <2>4. PICK d, u, e, k : d = left[i] /\ u = g[i] /\ e = Drop(u, max) /\ k \in 1 .. j /\ k = i - 1
    BY <2>3
  <2>5. e = <<>> /\ Drop(g[k], max) = <<>>
    BY <2>2, <2>3, <2>4
  <2>6. d \in Seq(Byte) /\ Extends(s, g, max, i, d, e)
    <3>1. i \in 1 .. Len(s)
      BY <1>2, <2>3
    <3> QED BY ONLY <1>2, <1>3, <1>5, <2>4, <3>1, max \in Nat, SumDrops
  <2>7. e = Drop(g[k], max) \o d
    BY <2>3, <2>4, <2>6 DEF Extends
  <2>8. d = <<>>
    <3>1. <<>> \o d = d
      BY <2>6, ConcatEmptySeq
    <3> QED BY <2>5, <2>7, <3>1
  <2> QED BY <2>3, <2>4, <2>8, <1>7
<1>9. PICK last \in {x \in 1 .. m : \A j \in E : j <= x} :
        \A x \in {y \in 1 .. m : \A j \in E : j <= y} : last <= x
  <2> DEFINE U == {x \in 1 .. m : \A j \in E : j <= x}
  <2>1. m \in U
    BY <1>7
  <2>2. U \subseteq Nat /\ U # {}
    BY <2>1
  <2> HIDE DEF U
  <2>3. \E x \in U : \A y \in U : x <= y
    BY <2>2, LeastNat
  <2> QED BY <2>3 DEF U
<1>10. last \in {1} \union E
  <2>1. SUFFICES ASSUME last # 1, last \notin E PROVE FALSE
    OBVIOUS
  <2>2. last - 1 \in 1 .. m /\ ~(last <= last - 1)
    BY <2>1, <1>9
  <2>3. \A j \in E : j <= last - 1
    <3>1. ASSUME NEW j \in E PROVE j <= last - 1
      <4>1. j <= last /\ j # last /\ j \in Int
        BY <2>1, <1>7, <1>9
      <4> QED BY <4>1, <1>9
    <3> QED BY <3>1
  <2> QED BY <2>2, <2>3, <1>9
<1>11. E = 2 .. last
  <2>1. \A i \in E : i \in 2 .. last
    BY <1>7, <1>9
  <2>2. ASSUME NEW i \in 2 .. last PROVE i \in E
    <3>1. last \in E
      BY <1>9, <1>10
    <3> QED BY <3>1, <1>8
  <2> QED BY <2>1, <2>2
<1>12. ASSUME NEW i \in {1} \union E, \A j \in E : j <= i PROVE i = last
  BY <1>9, <1>10, <1>11, <1>12
<1>13. (CHOOSE i \in {1} \union E : \A j \in E : j <= i) = last
  BY <1>9, <1>10, <1>12
<1>14. last # 1 => Left(ch, max, last) = <<>>
  BY <1>4, <1>7, <1>9, <1>10
<1> QED BY <1>6, <1>9, <1>11, <1>13, <1>14

(* The head of a chain and what follows its last-th buffer.                *)
HeadAndRest(ch, last) == <<ch[1]>> \o SubSeq(ch, last + 1, Len(ch))

(* The position in ch of the j-th buffer kept.                             *)
Pos(last, j) == IF j = 1 THEN 1 ELSE last + j - 1

(* kept, of length n, is ch without what is before and at position last,   *)
(* but for the head.                                                       *)
Keeps(ch, m, last, kept, n) ==
  /\ kept \in Seq(Bufs) /\ Len(kept) = n /\ n \in 1 .. m
  /\ \A j \in 1 .. n : Pos(last, j) \in 1 .. m /\ kept[j] = ch[Pos(last, j)]

(* The head and what follows the last-th buffer, position by position.     *)
LEMMA KeptFacts ==
  ASSUME NEW ch \in Seq(Bufs), NEW m \in Nat \ {0}, m = Len(ch), NEW last \in 1 .. m,
         NEW kept, kept = HeadAndRest(ch, last), NEW n, n = m - last + 1
  PROVE  Keeps(ch, m, last, kept, n)
<1>0. last \in Nat \ {0} /\ m - last \in Nat
  OBVIOUS
<1>1. PICK l \in Nat \ {0}, x \in Nat : l = last /\ x = m - l
  BY <1>0
<1>2. PICK v, w : v = <<ch[1]>> /\ w = SubSeq(ch, l + 1, m)
  OBVIOUS
<1>3. v \in Seq(Bufs) /\ Len(v) = 1 /\ v[1] = ch[1]
  BY <1>2, ElementOfSeq
<1>4. w \in Seq(Bufs) /\ Len(w) = x /\ \A j \in 1 .. x : w[j] = ch[l + j]
  <2>1. PICK a \in Int : a = l + 1
    OBVIOUS
  <2>2. \A i \in a .. m : ch[i] \in Bufs
    BY <1>1, <2>1, ElementOfSeq
  <2>3. /\ SubSeq(ch, a, m) \in Seq(Bufs)
        /\ Len(SubSeq(ch, a, m)) = IF a <= m THEN m - a + 1 ELSE 0
        /\ \A i \in 1 .. m - a + 1 : SubSeq(ch, a, m)[i] = ch[a + i - 1]
    BY <2>2, SubSeqProperties
  <2>4. \A j \in 1 .. x : j \in 1 .. m - a + 1 /\ a + j - 1 = l + j
    BY <1>1, <2>1
  <2> QED BY <2>1, <2>3, <2>4, <1>1, <1>2
<1>5. /\ kept \in Seq(Bufs) /\ Len(kept) = 1 + x
      /\ \A j \in 1 .. 1 + x : kept[j] = IF j <= 1 THEN v[j] ELSE w[j - 1]
  <2>0. PICK o : o = 1
    OBVIOUS
  <2>1. kept = v \o w /\ o = Len(v) /\ x = Len(w) /\ v \in Seq(Bufs) /\ w \in Seq(Bufs)
    BY <2>0, <1>1, <1>2, <1>3, <1>4 DEF HeadAndRest
  <2>2. /\ kept \in Seq(Bufs) /\ Len(kept) = o + x
        /\ \A j \in 1 .. o + x : kept[j] = IF j <= o THEN v[j] ELSE w[j - o]
    BY ONLY <2>1, ConcatFacts
  <2> QED BY <2>0, <2>2
<1>6. n = 1 + x /\ n \in 1 .. m
  BY <1>1
<1>7. ASSUME NEW j \in 1 .. n PROVE Pos(last, j) \in 1 .. m /\ kept[j] = ch[Pos(last, j)]
  <2>1. CASE j = 1
    BY <2>1, <1>3, <1>5, <1>6 DEF Pos
  <2>2. CASE j # 1
    <3>1. j - 1 \in 1 .. x /\ j \in 1 .. 1 + x /\ ~(j <= 1)
      BY <2>2, <1>6
    <3>2. kept[j] = ch[l + (j - 1)]
      BY <3>1, <1>4, <1>5
    <3>3. Pos(last, j) = l + (j - 1)
      BY <2>2, <1>1 DEF Pos
    <3>4. l + (j - 1) \in 1 .. m
      BY <3>1, <1>1
    <3> QED BY <3>2, <3>3, <3>4
  <2> QED BY <2>1, <2>2
<1> QED BY <1>5, <1>6, <1>7 DEF Keeps

(* What Consume makes of chain ch, whose buffers 2 to last it gives back.  *)
ConsumedTo(r, ch, max, last) ==
  /\ r.chain = HeadAndRest(ch, last)
  /\ r.used = g_mem_buffer_used - Cardinality(2 .. last)
  /\ r.finder = g_mem_buffer_finder
  /\ r.mem = [b \in Bufs |-> r.mem[b]]
  /\ \A b \in Bufs : (~\E i \in DOMAIN ch : ch[i] = b) => r.mem[b] = g_mem_buffer[b]
  /\ \A i \in DOMAIN ch :
       r.mem[ch[i]] = IF i \in 2 .. last THEN Blank
                                         ELSE [use |-> TRUE, data |-> Left(ch, max, i)]

(* The record Consume makes has these parts.                               *)
LEMMA ConsumeUnfolds ==
  ASSUME NEW ch, NEW max, NEW last, Emptied(ch, max) = 2 .. last,
         (CHOOSE i \in {1} \union Emptied(ch, max) : \A j \in Emptied(ch, max) : j <= i) = last,
         \A i \in DOMAIN ch : ch[i] \in Bufs,
         \A i, j \in DOMAIN ch : ch[i] = ch[j] => i = j,
         NEW r, r = Consume(ch, max)
  PROVE  ConsumedTo(r, ch, max, last)
<1> DEFINE at(b) == CHOOSE i \in DOMAIN ch : ch[i] = b
           mem2 == [b \in Bufs |->
                      IF ~\E i \in DOMAIN ch : ch[i] = b THEN g_mem_buffer[b]
                      ELSE IF at(b) \in 2 .. last THEN Blank
                      ELSE [use |-> TRUE, data |-> Left(ch, max, at(b))]]
<1>0. PICK c, u : c = HeadAndRest(ch, last) /\ u = g_mem_buffer_used - Cardinality(2 .. last)
  OBVIOUS
<1>1. r = [chain |-> c, mem |-> mem2, used |-> u, finder |-> g_mem_buffer_finder]
  BY <1>0, Zenon DEF Consume, HeadAndRest
<1>2. ASSUME NEW i \in DOMAIN ch
      PROVE  mem2[ch[i]] = IF i \in 2 .. last THEN Blank
                           ELSE [use |-> TRUE, data |-> Left(ch, max, i)]
  <2>1. PICK b \in Bufs : b = ch[i]
    OBVIOUS
  <2>2. at(b) = i
    BY <2>1
  <2>3. mem2[b] = IF at(b) \in 2 .. last THEN Blank
                  ELSE [use |-> TRUE, data |-> Left(ch, max, at(b))]
    BY <2>1, Zenon
  <2> HIDE DEF at, mem2
  <2> QED BY <2>1, <2>2, <2>3
<1>3. ASSUME NEW b \in Bufs, ~\E i \in DOMAIN ch : ch[i] = b PROVE mem2[b] = g_mem_buffer[b]
  BY <1>3, Zenon
<1>4. mem2 = [b \in Bufs |-> mem2[b]]
  OBVIOUS
<1> HIDE DEF mem2
<1>5. r.mem = mem2 /\ r.chain = c /\ r.used = u /\ r.finder = g_mem_buffer_finder
  BY <1>1
<1> QED BY <1>0, <1>2, <1>3, <1>4, <1>5 DEF ConsumedTo

(* Chain k of the pool is consumed; the texts of the others stay.          *)
Consuming(link, link2, k, ch, m, max, last, r) ==
  /\ Pool(g_mem_buffer, g_mem_buffer_used, link)
  /\ k \in Keys /\ ch = link[k] /\ m \in Nat \ {0} /\ m = Len(ch)
  /\ max \in Nat /\ last \in 1 .. m /\ Emptied(ch, max) = 2 .. last
  /\ ConsumedTo(r, ch, max, last)
  /\ link2 = [link EXCEPT ![k] = r.chain]

Spared(mem, mem2, link, k) ==
  \A l \in Keys : l # k => Text(mem2, link[l]) = Text(mem, link[l])

(* The buffers given back are free, the others linked as before.           *)
LEMMA ConsumedPool ==
  ASSUME NEW link, NEW link2, NEW k, NEW ch, NEW m, NEW max, NEW last, NEW r,
         Consuming(link, link2, k, ch, m, max, last, r)
  PROVE  Pool(r.mem, r.used, link2) /\ Spared(g_mem_buffer, r.mem, link, k)
<1>0. /\ Pool(g_mem_buffer, g_mem_buffer_used, link)
      /\ k \in Keys /\ ch = link[k] /\ m \in Nat \ {0} /\ m = Len(ch)
      /\ max \in Nat /\ last \in 1 .. m /\ Emptied(ch, max) = 2 .. last
      /\ ConsumedTo(r, ch, max, last)
      /\ link2 = [link EXCEPT ![k] = r.chain]
  BY DEF Consuming
<1> USE <1>0
<1>1. PICK mem, mem2, gone : mem = g_mem_buffer /\ mem2 = r.mem /\ gone = 2 .. last
  OBVIOUS
<1>2. /\ mem \in [Bufs -> Buffer] /\ (\A b \in Bufs : Len(mem[b].data) <= BufSize)
      /\ link \in [Keys -> Seq(Bufs)]
      /\ InUse(mem, link) /\ Apart(link) /\ Reached(mem, link) /\ Full(mem, link)
      /\ Counted(mem, g_mem_buffer_used)
  BY <1>1 DEF Pool
<1>3. /\ ch \in Seq(Bufs) /\ DOMAIN ch = 1 .. m
      /\ \A i \in 1 .. m : ch[i] \in Bufs /\ Holds(link, k, i, ch[i]) /\ mem[ch[i]].use
      /\ \A i, j \in 1 .. m : ch[i] = ch[j] => i = j
  BY <1>1, PoolFacts
<1>4. ASSUME NEW i \in 1 .. m, i \notin gone
      PROVE  \E d \in Seq(Byte) : /\ mem2[ch[i]] = [use |-> TRUE, data |-> d]
                                  /\ Len(d) <= BufSize
                                  /\ i >= 2 => d # <<>>
  <2>1. PICK x : x = mem[ch[i]].data
    OBVIOUS
  <2>2. x \in Seq(Byte) /\ Len(x) <= BufSize
    BY <2>1, <1>2, <1>3 DEF Buffer
  <2>3. PICK q \in Nat : q = Less(max, Before(ch, i))
    <3>1. Before(ch, i) \in Nat
      <4>1. PICK s, g : s = Parts(mem, ch) /\ AllSums(s, Byte, g)
        <5>1. PICK s : s = Parts(mem, ch)
          OBVIOUS
        <5>2. s \in Seq(Seq(Byte))
          BY <5>1, <1>2, <1>3, PartsFacts
        <5> QED BY <5>1, <5>2, SumsExist
      <4>2. s \in Seq(Seq(Byte)) /\ Len(s) = m
        BY <4>1, <1>2, <1>3, PartsFacts
      <4>3. Before(ch, i) = IF i = 1 THEN 0 ELSE Len(g[i - 1])
        BY <4>1, <1>1, <1>2, <1>3, BeforeFacts
      <4>4. i # 1 => g[i - 1] \in Seq(Byte)
        BY <4>1, <4>2, SMTT(30) DEF AllSums, Sums
      <4>5. i # 1 => Len(g[i - 1]) \in Nat
        BY <4>4, LenProperties
      <4> QED BY <4>3, <4>5
    <3>2. Less(max, Before(ch, i)) \in Nat
      BY <3>1 DEF Less
    <3> QED BY <3>2
  <2>4. PICK d : d = Left(ch, max, i)
    OBVIOUS
  <2>5. d = Drop(x, q)
    BY <2>1, <2>3, <2>4, <1>1, Zenon DEF Left, Drop, Less
  <2>6. PICK a, y : a = Len(x) /\ y = Less(a, q)
    OBVIOUS
  <2>7. d \in Seq(Byte) /\ Len(d) = y
    BY <2>2, <2>5, <2>6, DropFacts
  <2>8. Len(d) <= BufSize
    <3>1. a \in Nat /\ a <= BufSize
      BY <2>2, <2>6, LenProperties
    <3> QED BY <3>1, <2>6, <2>7, MemBufferAssumption DEF Less
  <2>9. i >= 2 => d # <<>>
    BY <2>4, <1>1, <1>3, <1>4 DEF Emptied
  <2>10. mem2[ch[i]] = [use |-> TRUE, data |-> d]
    BY <2>4, <1>1, <1>3, <1>4 DEF ConsumedTo
  <2> QED BY <2>7, <2>8, <2>9, <2>10
<1>5. ASSUME NEW i \in gone PROVE i \in 1 .. m /\ mem2[ch[i]] = Blank
  <2>1. i \in 1 .. m /\ i \in 2 .. last
    BY <1>1, <1>5
  <2> QED BY <2>1, <1>1, <1>3 DEF ConsumedTo
<1>6. \A b \in Bufs : (~\E i \in 1 .. m : ch[i] = b) => mem2[b] = mem[b]
  BY <1>1, <1>3 DEF ConsumedTo
<1>7. Blank \in Buffer /\ Blank.data = <<>> /\ ~Blank.use
  <2>1. <<>> \in Seq(Byte)
    BY EmptySeq
  <2> QED BY <2>1 DEF Blank, Buffer
<1>8. ASSUME NEW b \in Bufs
      PROVE  /\ mem2[b] \in Buffer /\ Len(mem2[b].data) <= BufSize
             /\ mem2[b].use <=> mem[b].use /\ ~\E i \in gone : ch[i] = b
  <2>1. CASE ~\E i \in 1 .. m : ch[i] = b
    <3>1. ~\E i \in gone : ch[i] = b
      BY <2>1, <1>5
    <3>2. mem2[b] = mem[b]
      BY <2>1, <1>6
    <3> QED BY <3>1, <3>2, <1>2
  <2>2. CASE \E i \in gone : ch[i] = b
    <3>1. mem2[b] = Blank
      BY <2>2, <1>5
    <3>2. Len(Blank.data) <= BufSize
      BY <1>7, EmptySeq, MemBufferAssumption
    <3> QED BY <3>1, <3>2, <2>2, <1>7
  <2>3. CASE (\E i \in 1 .. m : ch[i] = b) /\ ~\E i \in gone : ch[i] = b
    <3>1. PICK i \in 1 .. m : ch[i] = b /\ i \notin gone
      BY <2>3
    <3>2. PICK d \in Seq(Byte) : mem2[b] = [use |-> TRUE, data |-> d] /\ Len(d) <= BufSize
      BY <3>1, <1>4
    <3>3. mem2[b].use /\ mem2[b].data = d /\ mem2[b] \in Buffer
      BY <3>2, BufferTyped
    <3>4. mem[b].use
      BY <3>1, <1>3
    <3> QED BY <3>2, <3>3, <3>4, <2>3
  <2> QED BY <2>1, <2>2, <2>3
<1>9. PICK kept, n : kept = r.chain /\ n = m - last + 1
  OBVIOUS
<1>10. /\ kept \in Seq(Bufs) /\ Len(kept) = n /\ n \in 1 .. m
       /\ \A j \in 1 .. n : Pos(last, j) \in 1 .. m /\ kept[j] = ch[Pos(last, j)]
  <2>1. kept = HeadAndRest(ch, last)
    BY <1>9 DEF ConsumedTo
  <2>2. /\ ch \in Seq(Bufs) /\ m \in Nat \ {0} /\ m = Len(ch) /\ last \in 1 .. m
        /\ kept = HeadAndRest(ch, last) /\ n = m - last + 1
    BY <2>1, <1>3, <1>9
  <2>3. Keeps(ch, m, last, kept, n)
    BY ONLY <2>2, KeptFacts
  <2> QED BY <2>3 DEF Keeps
<1>11. PICK pos : pos = [j \in 1 .. n |-> Pos(last, j)]
  OBVIOUS
<1>12. /\ \A j \in 1 .. n : pos[j] \in (1 .. m) \ gone /\ kept[j] = ch[pos[j]] /\ pos[j] >= j
       /\ \A i \in (1 .. m) \ gone : \E j \in 1 .. n : pos[j] = i
       /\ \A i, j \in 1 .. n : pos[i] = pos[j] => i = j
       /\ pos \in [1 .. n -> Nat] /\ gone \subseteq 1 .. m
  <2>1. ASSUME NEW j \in 1 .. n
        PROVE  /\ pos[j] \in Nat /\ pos[j] \in (1 .. m) \ gone
               /\ kept[j] = ch[pos[j]] /\ pos[j] >= j
    <3>1. pos[j] = Pos(last, j) /\ Pos(last, j) \in 1 .. m /\ kept[j] = ch[Pos(last, j)]
      BY <1>10, <1>11
    <3>2. Pos(last, j) \notin gone /\ Pos(last, j) >= j
      BY <1>1 DEF Pos
    <3> QED BY <3>1, <3>2
  <2>2. ASSUME NEW i \in (1 .. m) \ gone PROVE \E j \in 1 .. n : pos[j] = i
    <3>1. CASE i = 1
      <4>1. 1 \in 1 .. n /\ pos[1] = 1
        BY <1>10, <1>11 DEF Pos
      <4> QED BY <4>1, <3>1
    <3>2. CASE i # 1
      <4>1. i > last
        BY <3>2, <1>1
      <4>2. PICK j \in 1 .. n : j = i - last + 1
        <5>1. i - last + 1 \in 1 .. n
          BY <4>1, <1>9
        <5> QED BY <5>1
      <4>3. Pos(last, j) = i
        BY <4>1, <4>2 DEF Pos
      <4> QED BY <4>3, <1>11
    <3> QED BY <3>1, <3>2
  <2>3. ASSUME NEW i \in 1 .. n, NEW j \in 1 .. n, pos[i] = pos[j] PROVE i = j
    <3>1. Pos(last, i) = Pos(last, j)
      BY <2>3, <1>11
    <3> QED BY <3>1 DEF Pos
  <2>4. pos \in [1 .. n -> Nat]
    BY <2>1, <1>11
  <2>5. gone \subseteq 1 .. m
    BY <1>1
  <2> QED BY <2>1, <2>2, <2>3, <2>4, <2>5
<1>13. ASSUME NEW l \in Keys, l # k, NEW i \in Nat, NEW b \in Bufs, Holds(link, l, i, b)
       PROVE  mem2[b] = mem[b]
  <2>1. ASSUME NEW j \in 1 .. m, ch[j] = b PROVE FALSE
    <3>1. Holds(link, k, j, b) /\ j \in Nat
      BY <2>1, <1>3
    <3> QED BY <3>1, <1>13, <1>2 DEF Apart
  <2> QED BY <2>1, <1>6
<1>14. ASSUME NEW i \in Nat, NEW b \in Bufs, Holds(link, k, i, b), i \notin gone, i >= 2
       PROVE  mem2[b].data # <<>>
  <2>1. i \in 1 .. m /\ ch[i] = b
    BY <1>14 DEF Holds
  <2>2. PICK d : mem2[b] = [use |-> TRUE, data |-> d] /\ d # <<>>
    BY <2>1, <1>4, <1>14
  <2> QED BY <2>2
<1>15. Shrunk(mem, mem2, link, link2, k, kept, pos, gone)
  <2>1. link2 = [link EXCEPT ![k] = kept] /\ Len(link[k]) = m /\ Len(kept) = n
    BY <1>9, <1>10
  <2>2. \A j \in 1 .. n : kept[j] = link[k][pos[j]]
    BY <1>12
  <2>3. \A b \in Bufs : mem2[b].use <=> mem[b].use /\ ~\E i \in gone : link[k][i] = b
    BY <1>8
  <2>4. \A l \in Keys, i \in Nat, b \in Bufs :
          /\ Holds(link, l, i, b) /\ l # k => mem2[b].data = mem[b].data
          /\ Holds(link, k, i, b) /\ i \notin gone /\ i >= 2 => mem2[b].data # <<>>
    BY <1>13, <1>14
  <2> QED BY <2>1, <2>2, <2>3, <2>4, <1>12 DEF Shrunk
<1>16. /\ link2 \in [Keys -> Seq(Bufs)]
       /\ InUse(mem2, link2) /\ Apart(link2) /\ Reached(mem2, link2) /\ Full(mem2, link2)
  <2>1. kept \in Seq(Bufs) /\ k \in Keys
    BY <1>10
  <2> QED BY ONLY <2>1, <1>2, <1>15, Shrinks
<1>17. Counted(mem2, r.used)
  <2>1. PICK f : f = [i \in gone |-> ch[i]]
    OBVIOUS
  <2>2. Given(mem, mem2, gone, f)
    <3>1. f \in [gone -> Bufs]
      BY <2>1, <1>3, <1>5
    <3>2. \A i, j \in gone : f[i] = f[j] => i = j
      BY <2>1, <1>3, <1>5
    <3>3. \A i \in gone : mem[f[i]].use
      BY <2>1, <1>3, <1>5
    <3>4. \A b \in Bufs : mem2[b].use <=> mem[b].use /\ ~\E i \in gone : f[i] = b
      <4>1. \A i \in gone : f[i] = ch[i]
        BY <2>1
      <4> QED BY <4>1, <1>8
    <3> QED BY <3>1, <3>2, <3>3, <3>4 DEF Given
  <2>3. IsFiniteSet(gone)
    <3>1. PICK a \in Int, z \in Int : a = 2 /\ z = last
      OBVIOUS
    <3>2. IsFiniteSet(a .. z)
      BY FS_Interval
    <3> QED BY <3>1, <3>2, <1>1
  <2>4. Counted(mem2, g_mem_buffer_used - Cardinality(gone))
    BY ONLY <2>2, <2>3, <1>2, CountShrinks
  <2> QED BY <2>4, <1>1 DEF ConsumedTo
<1>18. mem2 \in [Bufs -> Buffer]
  <2>1. mem2 = [b \in Bufs |-> mem2[b]]
    BY <1>1 DEF ConsumedTo
  <2> QED BY <2>1, <1>8
<1>19. Pool(mem2, r.used, link2)
  BY <1>8, <1>16, <1>17, <1>18 DEF Pool
<1>20. ASSUME NEW l \in Keys, l # k PROVE Text(mem2, link[l]) = Text(mem, link[l])
  <2>1. PICK c, x : c = link[l] /\ x = Len(c)
    OBVIOUS
  <2>2. /\ x \in Nat /\ DOMAIN c = 1 .. x
        /\ \A i \in 1 .. x : c[i] \in Bufs /\ Holds(link, l, i, c[i])
    BY <2>1, PoolFacts
  <2>3. \A i \in 1 .. x : mem2[c[i]].data = mem[c[i]].data
    BY <2>2, <1>13, <1>20
  <2>4. Text(mem2, c) = Text(mem, c)
    BY <2>2, <2>3, OtherTexts
  <2> QED BY <2>1, <2>4
<1> QED BY <1>1, <1>19, <1>20 DEF Spared

(* What Consume makes of a chain, and what it does to the pool.            *)
Consumes(link, link2, k, max, r) ==
  /\ Pool(r.mem, r.used, link2)
  /\ r.finder = g_mem_buffer_finder
  /\ r.chain # <<>>
  /\ Text(r.mem, r.chain) = Drop(Text(g_mem_buffer, link[k]), max)
  /\ Spared(g_mem_buffer, r.mem, link, k)

(* A chain from which max bytes leave: its text, and what becomes of it.   *)
Trims(mem, mem2, ch, m, max, last, kept, n) ==
  /\ mem \in [Bufs -> Buffer] /\ mem2 \in [Bufs -> Buffer] /\ mem = g_mem_buffer
  /\ ch \in Seq(Bufs) /\ m \in Nat \ {0} /\ m = Len(ch) /\ max \in Nat /\ last \in 1 .. m
  /\ last # 1 => Left(ch, max, last) = <<>> /\ mem[ch[last]].data # <<>>
  /\ Keeps(ch, m, last, kept, n) /\ n = m - last + 1
  /\ \A j \in 1 .. n : mem2[kept[j]].data = Left(ch, max, Pos(last, j))

(* The text kept is the old one without its first max bytes.               *)
LEMMA TrimmedText ==
  ASSUME NEW mem, NEW mem2, NEW ch, NEW m, NEW max, NEW last, NEW kept, NEW n,
         Trims(mem, mem2, ch, m, max, last, kept, n)
  PROVE  Text(mem2, kept) = Drop(Text(mem, ch), max)
<1>1. PICK s, t : s = Parts(mem, ch) /\ t = Parts(mem2, kept)
  OBVIOUS
<1>2. s \in Seq(Seq(Byte)) /\ Len(s) = m /\ \A i \in 1 .. m : s[i] = mem[ch[i]].data
  <2>1. mem \in [Bufs -> Buffer] /\ ch \in Seq(Bufs) /\ m = Len(ch) /\ s = Parts(mem, ch)
    BY <1>1 DEF Trims
  <2> QED BY ONLY <2>1, PartsFacts
<1>3. t \in Seq(Seq(Byte)) /\ Len(t) = n /\ \A j \in 1 .. n : t[j] = mem2[kept[j]].data
  <2>1. mem2 \in [Bufs -> Buffer] /\ kept \in Seq(Bufs) /\ n = Len(kept) /\ t = Parts(mem2, kept)
    BY <1>1 DEF Trims, Keeps
  <2> QED BY ONLY <2>1, PartsFacts
<1>4. PICK g : AllSums(s, Byte, g)
  BY <1>2, SumsExist
<1>5. PICK left : left = [i \in 1 .. Len(ch) |-> Left(ch, max, i)]
  OBVIOUS
<1>6. Leaves(s, g, max, left)
  <2>1. /\ g_mem_buffer \in [Bufs -> Buffer] /\ ch \in Seq(Bufs) /\ max \in Nat
        /\ s = Parts(g_mem_buffer, ch)
    BY <1>1 DEF Trims
  <2> QED BY ONLY <2>1, <1>4, <1>5, LeftLeaves
<1>7. \A i \in 1 .. m : left[i] = Left(ch, max, i)
  BY <1>5 DEF Trims
<1>8. Trimmed(s, left, last, t) /\ last \in 1 .. Len(s)
  <2>1. Len(t) = Len(s) - last + 1 /\ last \in 1 .. Len(s)
    BY <1>2, <1>3 DEF Trims
  <2>2. ASSUME NEW j \in 1 .. n PROVE t[j] = left[Pos(last, j)]
    <3>1. Pos(last, j) \in 1 .. m
      BY DEF Trims, Keeps
    <3> QED BY <3>1, <1>3, <1>7 DEF Trims
  <2>3. n \in Nat \ {0}
    BY DEF Trims, Keeps
  <2>4. t[1] = left[1]
    <3>1. 1 \in 1 .. n /\ Pos(last, 1) = 1
      BY <2>3 DEF Pos
    <3> QED BY <3>1, <2>2
  <2>5. ASSUME NEW j \in 2 .. n PROVE t[j] = left[last + j - 1]
    <3>1. j \in 1 .. n /\ Pos(last, j) = last + j - 1
      BY <2>3 DEF Pos
    <3> QED BY <3>1, <2>2
  <2> QED BY <2>1, <2>4, <2>5, <1>3 DEF Trimmed
<1>9. last # 1 => left[last] = <<>> /\ s[last] # <<>>
  <2>1. last \in 1 .. m /\ (last # 1 => Left(ch, max, last) = <<>> /\ mem[ch[last]].data # <<>>)
    BY DEF Trims
  <2> QED BY <2>1, <1>2, <1>7
<1>10. FlattenSeq(t) = Drop(FlattenSeq(s), max)
  <2>1. max \in Nat
    BY DEF Trims
  <2> QED BY ONLY <2>1, <1>2, <1>3, <1>4, <1>6, <1>8, <1>9, FlatDrop
<1> QED BY <1>1, <1>10, Zenon DEF Text

(* Consume on chain k: max bytes leave its front, the pool stays sound.    *)
LEMMA ConsumeStep ==
  ASSUME NEW link, NEW link2, Pool(g_mem_buffer, g_mem_buffer_used, link),
         NEW k \in Keys, link[k] # <<>>, NEW max \in Nat,
         NEW r, r = Consume(link[k], max), link2 = [link EXCEPT ![k] = r.chain]
  PROVE  Consumes(link, link2, k, max, r)
<1>1. PICK mem, ch, m : mem = g_mem_buffer /\ ch = link[k] /\ m = Len(ch)
  OBVIOUS
<1>2. mem \in [Bufs -> Buffer] /\ Full(mem, link)
  BY <1>1 DEF Pool
<1>3. /\ ch \in Seq(Bufs) /\ m \in Nat /\ DOMAIN ch = 1 .. m
      /\ \A i \in 1 .. m : ch[i] \in Bufs /\ Holds(link, k, i, ch[i])
      /\ \A i, j \in 1 .. m : ch[i] = ch[j] => i = j
  BY <1>1, PoolFacts
<1>4. m # 0
  BY <1>1, <1>3, EmptySeq
<1>5. \A i \in 2 .. m : mem[ch[i]].data # <<>>
  <2>1. ASSUME NEW i \in 2 .. m PROVE mem[ch[i]].data # <<>>
    <3>1. i \in Nat /\ i \in 1 .. m /\ i >= 2
      BY <1>3
    <3>2. Holds(link, k, i, ch[i]) /\ ch[i] \in Bufs
      BY <3>1, <1>3
    <3> QED BY <3>1, <3>2, <1>2 DEF Full
  <2> QED BY <2>1
<1>6. PICK last \in 1 .. m :
        /\ Emptied(ch, max) = 2 .. last
        /\ (CHOOSE i \in {1} \union Emptied(ch, max) : \A j \in Emptied(ch, max) : j <= i) = last
        /\ last # 1 => Left(ch, max, last) = <<>>
  <2>1. /\ g_mem_buffer \in [Bufs -> Buffer] /\ ch \in Seq(Bufs) /\ max \in Nat
        /\ m \in Nat \ {0} /\ m = Len(ch)
        /\ \A i \in 2 .. m : g_mem_buffer[ch[i]].data # <<>>
    BY <1>1, <1>2, <1>3, <1>4, <1>5
  <2> QED BY ONLY <2>1, EmptiedFacts
<1>7. ConsumedTo(r, ch, max, last)
  <2>1. r = Consume(ch, max) /\ (\A i \in DOMAIN ch : ch[i] \in Bufs)
        /\ \A i, j \in DOMAIN ch : ch[i] = ch[j] => i = j
    BY <1>1, <1>3
  <2> QED BY ONLY <2>1, <1>6, ConsumeUnfolds
<1>8. Pool(r.mem, r.used, link2) /\ Spared(g_mem_buffer, r.mem, link, k)
  <2>1. Consuming(link, link2, k, ch, m, max, last, r)
    BY <1>1, <1>3, <1>4, <1>6, <1>7 DEF Consuming
  <2> QED BY ONLY <2>1, ConsumedPool
<1>9. PICK mem2, kept, n : mem2 = r.mem /\ kept = r.chain /\ n = m - last + 1
  OBVIOUS
<1>10. Keeps(ch, m, last, kept, n)
  <2>1. kept = HeadAndRest(ch, last)
    BY <1>7, <1>9 DEF ConsumedTo
  <2>2. /\ ch \in Seq(Bufs) /\ m \in Nat \ {0} /\ m = Len(ch) /\ last \in 1 .. m
        /\ kept = HeadAndRest(ch, last) /\ n = m - last + 1
    BY <2>1, <1>1, <1>3, <1>4, <1>9
  <2> QED BY ONLY <2>2, KeptFacts
<1>11. ASSUME NEW j \in 1 .. n PROVE mem2[kept[j]].data = Left(ch, max, Pos(last, j))
  <2>1. PICK p : p = Pos(last, j)
    OBVIOUS
  <2>2. p \in 1 .. m /\ kept[j] = ch[p]
    BY <2>1, <1>10 DEF Keeps
  <2>3. p \notin 2 .. last
    BY <2>1, <1>9 DEF Pos
  <2>4. mem2[ch[p]] = [use |-> TRUE, data |-> Left(ch, max, p)]
    BY <2>2, <2>3, <1>3, <1>7, <1>9 DEF ConsumedTo
  <2> QED BY <2>1, <2>2, <2>4
<1>12. Trims(mem, mem2, ch, m, max, last, kept, n)
  <2>1. mem2 \in [Bufs -> Buffer]
    BY <1>8, <1>9 DEF Pool
  <2>2. last # 1 => Left(ch, max, last) = <<>> /\ mem[ch[last]].data # <<>>
    BY <1>5, <1>6
  <2> QED BY <2>1, <2>2, <1>1, <1>2, <1>3, <1>4, <1>6, <1>9, <1>10, <1>11 DEF Trims
<1>13. Text(mem2, kept) = Drop(Text(mem, ch), max)
  BY ONLY <1>12, TrimmedText
<1>14. kept # <<>>
  <2>1. kept \in Seq(Bufs) /\ Len(kept) = n /\ n \in 1 .. m
    BY <1>10 DEF Keeps
  <2> QED BY <2>1, EmptySeq
<1>15. r.finder = g_mem_buffer_finder
  BY <1>7 DEF ConsumedTo
<1> QED BY <1>1, <1>8, <1>9, <1>13, <1>14, <1>15 DEF Consumes

(* A chain whose buffers are left alone keeps its text.                    *)
Untouched(mem, mem2, link, l) ==
  \A i \in Nat, b \in Bufs : Holds(link, l, i, b) => mem2[b] = mem[b]

(* Then the chain keeps its text.                                          *)
LEMMA UntouchedText ==
  ASSUME NEW mem, NEW mem2, NEW used, NEW link, Pool(mem, used, link), NEW l \in Keys,
         Untouched(mem, mem2, link, l)
  PROVE  Text(mem2, link[l]) = Text(mem, link[l])
<1>1. PICK c, x : c = link[l] /\ x = Len(c)
  OBVIOUS
<1>2. /\ x \in Nat /\ DOMAIN c = 1 .. x
      /\ \A i \in 1 .. x : c[i] \in Bufs /\ Holds(link, l, i, c[i])
  BY <1>1, PoolFacts
<1>3. ASSUME NEW i \in 1 .. x PROVE mem2[c[i]].data = mem[c[i]].data
  <2>1. PICK b \in Bufs : b = c[i] /\ Holds(link, l, i, b) /\ i \in Nat
    BY <1>2
  <2>2. mem2[b] = mem[b]
    BY <2>1 DEF Untouched
  <2> QED BY <2>1, <2>2
<1>4. Text(mem2, c) = Text(mem, c)
  BY <1>2, <1>3, OtherTexts
<1> QED BY <1>1, <1>4

(* The buffers of a chain.                                                 *)
Linked(ch) == {b \in Bufs : \E i \in DOMAIN ch : ch[i] = b}

(* tcpstruct_close: the two chains end, their buffers go back.             *)
Closed(mem, mem2, link, link2, k1, k2) ==
  /\ k1 \in Keys /\ k2 \in Keys /\ k1 # k2
  /\ mem2 = [b \in Bufs |-> IF b \in Linked(link[k1]) \union Linked(link[k2])
                              THEN Blank ELSE mem[b]]
  /\ link2 \in [Keys -> Seq(Bufs)] /\ link2[k1] = <<>> /\ link2[k2] = <<>>
  /\ \A l \in Keys : l # k1 /\ l # k2 => link2[l] = link[l]

(* Who holds b does so as a link of the chain.                             *)
LEMMA LinkedFacts ==
  ASSUME NEW mem, NEW used, NEW link, Pool(mem, used, link), NEW k \in Keys, NEW b \in Bufs
  PROVE  b \in Linked(link[k]) <=> \E i \in Nat : Holds(link, k, i, b)
<1>1. PICK ch, m : ch = link[k] /\ m = Len(ch)
  OBVIOUS
<1>2. DOMAIN ch = 1 .. m /\ m \in Nat
  BY <1>1, PoolFacts
<1> QED BY <1>1, <1>2 DEF Linked, Holds

(* Giving back a whole chain lowers the count by its length.               *)
LEMMA CountLinked ==
  ASSUME NEW mem, NEW mem2, NEW used, NEW link, Pool(mem, used, link), NEW k \in Keys,
         NEW m0, \A b \in Linked(link[k]) : m0[b].use,
         NEW u, Counted(m0, u),
         \A b \in Bufs : mem2[b].use <=> m0[b].use /\ b \notin Linked(link[k])
  PROVE  Counted(mem2, u - Len(link[k]))
<1>1. PICK ch, m, A : ch = link[k] /\ m = Len(ch) /\ A = 1 .. m
  OBVIOUS
<1>2. /\ ch \in Seq(Bufs) /\ m \in Nat /\ DOMAIN ch = 1 .. m
      /\ \A i \in 1 .. m : ch[i] \in Bufs
      /\ \A i, j \in 1 .. m : ch[i] = ch[j] => i = j
  BY <1>1, PoolFacts
<1>3. Linked(ch) = {b \in Bufs : \E i \in A : ch[i] = b}
  BY <1>1, <1>2 DEF Linked
<1>4. PICK f : f = [i \in A |-> ch[i]]
  OBVIOUS
<1>5. Given(m0, mem2, A, f)
  <2>1. f \in [A -> Bufs] /\ \A i, j \in A : f[i] = f[j] => i = j
    BY <1>1, <1>2, <1>4
  <2>2. \A i \in A : m0[f[i]].use
    BY <1>1, <1>2, <1>3, <1>4
  <2>3. \A b \in Bufs : mem2[b].use <=> m0[b].use /\ ~\E i \in A : f[i] = b
    <3>1. \A i \in A : f[i] = ch[i]
      BY <1>4
    <3> QED BY <3>1, <1>1, <1>3
  <2> QED BY <2>1, <2>2, <2>3 DEF Given
<1>6. IsFiniteSet(A) /\ Cardinality(A) = m
  <2>1. PICK o \in Int, x \in Int : o = 1 /\ x = m
    BY <1>2
  <2>2. IsFiniteSet(o .. x) /\ Cardinality(o .. x) = IF o > x THEN 0 ELSE x - o + 1
    BY FS_Interval
  <2> QED BY <2>1, <2>2, <1>1, <1>2
<1>7. Counted(mem2, u - Cardinality(A))
  BY ONLY <1>5, <1>6, Counted(m0, u), CountShrinks
<1> QED BY <1>1, <1>6, <1>7

(* The pool stays sound, every other chain keeps its text.                 *)
LEMMA CloseStep ==
  ASSUME NEW mem, NEW mem2, NEW used, NEW link, NEW link2, Pool(mem, used, link),
         NEW k1, NEW k2, Closed(mem, mem2, link, link2, k1, k2)
  PROVE  /\ Pool(mem2, used - Len(link[k1]) - Len(link[k2]), link2)
         /\ \A l \in Keys : l # k1 /\ l # k2 => Text(mem2, link[l]) = Text(mem, link[l])
<1>1. /\ mem \in [Bufs -> Buffer] /\ (\A b \in Bufs : Len(mem[b].data) <= BufSize)
      /\ link \in [Keys -> Seq(Bufs)]
      /\ InUse(mem, link) /\ Apart(link) /\ Reached(mem, link) /\ Full(mem, link)
      /\ Counted(mem, used)
  BY DEF Pool
<1>2. /\ k1 \in Keys /\ k2 \in Keys /\ k1 # k2
      /\ link2 \in [Keys -> Seq(Bufs)] /\ link2[k1] = <<>> /\ link2[k2] = <<>>
      /\ \A l \in Keys : l # k1 /\ l # k2 => link2[l] = link[l]
  BY DEF Closed
<1>3. PICK P, Q : P = Linked(link[k1]) /\ Q = Linked(link[k2])
  OBVIOUS
<1>4. \A b \in Bufs : mem2[b] = IF b \in P \union Q THEN Blank ELSE mem[b]
  BY <1>3, Zenon DEF Closed
<1>5. /\ \A b \in Bufs : b \in P <=> \E i \in Nat : Holds(link, k1, i, b)
      /\ \A b \in Bufs : b \in Q <=> \E i \in Nat : Holds(link, k2, i, b)
  BY <1>2, <1>3, LinkedFacts
<1>6. Blank \in Buffer /\ Len(Blank.data) <= BufSize /\ ~Blank.use
  <2>1. <<>> \in Seq(Byte) /\ Len(<<>>) = 0
    BY EmptySeq
  <2> QED BY <2>1, MemBufferAssumption DEF Blank, Buffer
<1>7. mem2 \in [Bufs -> Buffer] /\ \A b \in Bufs : Len(mem2[b].data) <= BufSize
  <2>1. mem2 = [b \in Bufs |-> mem2[b]]
    <3>1. mem2 = [b \in Bufs |-> IF b \in P \union Q THEN Blank ELSE mem[b]]
      BY <1>3 DEF Closed
    <3> QED BY <3>1
  <2>2. ASSUME NEW b \in Bufs PROVE mem2[b] \in Buffer /\ Len(mem2[b].data) <= BufSize
    <3>1. CASE b \in P \union Q
      BY <3>1, <1>4, <1>6
    <3>2. CASE b \notin P \union Q
      BY <3>2, <1>1, <1>4
    <3> QED BY <3>1, <3>2
  <2> QED BY <2>1, <2>2
<1>8. ASSUME NEW l \in Keys, NEW i \in Nat, NEW b \in Bufs, Holds(link2, l, i, b)
      PROVE  l # k1 /\ l # k2 /\ Holds(link, l, i, b)
  <2>1. l # k1 /\ l # k2
    <3>1. Len(<<>>) = 0
      BY EmptySeq
    <3> QED BY <3>1, <1>2, <1>8 DEF Holds
  <2> QED BY <2>1, <1>2, <1>8 DEF Holds
<1>9. ASSUME NEW l \in Keys, l # k1, l # k2, NEW i \in Nat, NEW b \in Bufs, Holds(link, l, i, b)
      PROVE  mem2[b] = mem[b]
  <2>1. b \notin P \union Q
    BY <1>1, <1>2, <1>5, <1>9 DEF Apart
  <2> QED BY <2>1, <1>4
<1>10. InUse(mem2, link2) /\ Apart(link2) /\ Full(mem2, link2)
  <2>1. InUse(mem2, link2)
    BY <1>1, <1>8, <1>9 DEF InUse
  <2>2. Apart(link2)
    BY <1>1, <1>8 DEF Apart
  <2>3. Full(mem2, link2)
    BY <1>1, <1>8, <1>9 DEF Full
  <2> QED BY <2>1, <2>2, <2>3
<1>11. Reached(mem2, link2)
  <2>1. ASSUME NEW b \in Bufs, mem2[b].use PROVE \E l \in Keys, i \in Nat : Holds(link2, l, i, b)
    <3>1. b \notin P \union Q /\ mem[b].use
      BY <2>1, <1>4, <1>6
    <3>2. PICK l \in Keys, i \in Nat : Holds(link, l, i, b)
      BY <3>1, <1>1 DEF Reached
    <3>3. l # k1 /\ l # k2
      BY <3>1, <3>2, <1>5
    <3> QED BY <3>2, <3>3, <1>2 DEF Holds
  <2> QED BY <2>1 DEF Reached
<1>12. Counted(mem2, used - Len(link[k1]) - Len(link[k2]))
  <2>1. PICK mem1 : mem1 = [b \in Bufs |-> IF b \in P THEN Blank ELSE mem[b]]
    OBVIOUS
  <2>2. \A b \in Bufs : mem1[b].use <=> mem[b].use /\ b \notin P
    <3>1. \A b \in Bufs : mem1[b] = IF b \in P THEN Blank ELSE mem[b]
      BY <2>1
    <3> QED BY <3>1, <1>6
  <2>3. \A b \in P \union Q : mem[b].use /\ b \in Bufs
    BY <1>1, <1>2, <1>3, <1>5 DEF InUse, Linked
  <2>4. P \intersect Q = {}
    BY <1>1, <1>2, <1>3, <1>5 DEF Apart, Linked
  <2>5. PICK u : u = used - Len(link[k1])
    OBVIOUS
  <2>6. Counted(mem1, u)
    <3>1. \A b \in Linked(link[k1]) : mem[b].use
      BY <2>3, <1>3
    <3>2. \A b \in Bufs : mem1[b].use <=> mem[b].use /\ b \notin Linked(link[k1])
      BY <2>2, <1>3
    <3> QED BY ONLY <3>1, <3>2, <2>5, <1>1, <1>2, Pool(mem, used, link), CountLinked
  <2>7. Counted(mem2, u - Len(link[k2]))
    <3>1. \A b \in Linked(link[k2]) : mem1[b].use
      BY <2>2, <2>3, <2>4, <1>3
    <3>2. ASSUME NEW b \in Bufs
          PROVE  mem2[b].use <=> mem1[b].use /\ b \notin Linked(link[k2])
      <4>1. CASE b \in P \union Q
        BY <4>1, <2>2, <1>3, <1>4, <1>6
      <4>2. CASE b \notin P \union Q
        BY <4>2, <2>2, <1>3, <1>4
      <4> QED BY <4>1, <4>2
    <3> QED BY ONLY <3>1, <3>2, <2>6, <1>2, Pool(mem, used, link), CountLinked
  <2> QED BY <2>5, <2>7
<1>13. ASSUME NEW l \in Keys, l # k1, l # k2 PROVE Text(mem2, link[l]) = Text(mem, link[l])
  <2>1. Untouched(mem, mem2, link, l)
    BY <1>9, <1>13 DEF Untouched
  <2> QED BY ONLY <2>1, <1>13, Pool(mem, used, link), UntouchedText
<1>14. Pool(mem2, used - Len(link[k1]) - Len(link[k2]), link2)
  BY <1>2, <1>7, <1>10, <1>11, <1>12 DEF Pool
<1> QED BY <1>13, <1>14

(* tcpstruct_accept: two buffers so far unused become the heads of two     *)
(* chains that were empty.                                                 *)
Empty == [use |-> TRUE, data |-> <<>>]

Accepted(mem, mem2, link, link2, k1, k2, new) ==
  /\ k1 \in Keys /\ k2 \in Keys /\ k1 # k2 /\ link[k1] = <<>> /\ link[k2] = <<>>
  /\ Fresh(mem, 2, new)
  /\ mem2 = [b \in Bufs |-> IF b \in {new[1], new[2]} THEN Empty ELSE mem[b]]
  /\ link2 \in [Keys -> Seq(Bufs)] /\ link2[k1] = <<new[1]>> /\ link2[k2] = <<new[2]>>
  /\ \A l \in Keys : l # k1 /\ l # k2 => link2[l] = link[l]

(* A chain of one empty buffer holds nothing.                              *)
LEMMA SingleText ==
  ASSUME NEW mem \in [Bufs -> Buffer], NEW b \in Bufs, mem[b] = Empty
  PROVE  Text(mem, <<b>>) = <<>>
<1>1. PICK ch, s : ch = <<b>> /\ s = Parts(mem, ch)
  OBVIOUS
<1>2. ch \in Seq(Bufs) /\ Len(ch) = 1 /\ ch[1] = b
  BY <1>1
<1>3. s \in Seq(Seq(Byte)) /\ Len(s) = 1 /\ \A i \in 1 .. 1 : s[i] = mem[ch[i]].data
  <2>1. PICK o : o = Len(ch)
    OBVIOUS
  <2>2. mem \in [Bufs -> Buffer] /\ ch \in Seq(Bufs) /\ o = Len(ch) /\ s = Parts(mem, ch)
    BY <2>1, <1>1, <1>2
  <2>3. s \in Seq(Seq(Byte)) /\ Len(s) = o /\ \A i \in 1 .. o : s[i] = mem[ch[i]].data
    BY ONLY <2>2, PartsFacts
  <2>4. o = 1
    BY <2>1, <1>2
  <2> QED BY <2>3, <2>4
<1>4. s[1] = <<>>
  BY <1>2, <1>3 DEF Empty
<1>5. PICK g : AllSums(s, Byte, g)
  BY <1>3, SumsExist
<1>6. g[1] = <<>>
  BY <1>3, <1>4, <1>5 DEF AllSums, Sums
<1>7. FlattenSeq(s) = g[Len(s)]
  <2>1. Len(s) # 0
    BY <1>3
  <2> QED BY ONLY <2>1, <1>3, <1>5, SumsAreFlat
<1> QED BY <1>1, <1>3, <1>6, <1>7 DEF Text

(* The pool stays sound, the new chains hold nothing, every other chain    *)
(* keeps its text.                                                         *)
LEMMA AcceptStep ==
  ASSUME NEW mem, NEW mem2, NEW used, NEW link, NEW link2, Pool(mem, used, link),
         NEW k1, NEW k2, NEW new, Accepted(mem, mem2, link, link2, k1, k2, new)
  PROVE  /\ Pool(mem2, used + 2, link2)
         /\ Text(mem2, link2[k1]) = <<>> /\ Text(mem2, link2[k2]) = <<>>
         /\ \A l \in Keys : l # k1 /\ l # k2 => Text(mem2, link[l]) = Text(mem, link[l])
<1>1. /\ mem \in [Bufs -> Buffer] /\ (\A b \in Bufs : Len(mem[b].data) <= BufSize)
      /\ link \in [Keys -> Seq(Bufs)]
      /\ InUse(mem, link) /\ Apart(link) /\ Reached(mem, link) /\ Full(mem, link)
      /\ Counted(mem, used)
  BY DEF Pool
<1>2. PICK x, y : x = new[1] /\ y = new[2]
  OBVIOUS
<1>3. /\ k1 \in Keys /\ k2 \in Keys /\ k1 # k2 /\ link[k1] = <<>> /\ link[k2] = <<>>
      /\ link2 \in [Keys -> Seq(Bufs)] /\ link2[k1] = <<x>> /\ link2[k2] = <<y>>
      /\ \A l \in Keys : l # k1 /\ l # k2 => link2[l] = link[l]
  BY <1>2 DEF Accepted
<1>4. x \in Bufs /\ y \in Bufs /\ x # y /\ ~mem[x].use /\ ~mem[y].use
  <2>1. 1 \in 1 .. 2 /\ 2 \in 1 .. 2 /\ 1 # 2
    OBVIOUS
  <2> QED BY <2>1, <1>2 DEF Accepted, Fresh
<1>5. mem2 = [b \in Bufs |-> IF b \in {x, y} THEN Empty ELSE mem[b]]
  BY <1>2 DEF Accepted
<1>6. Empty \in Buffer /\ Len(Empty.data) <= BufSize /\ Empty.use
  <2>1. <<>> \in Seq(Byte) /\ Len(<<>>) = 0
    BY EmptySeq
  <2> QED BY <2>1, MemBufferAssumption DEF Empty, Buffer
<1>7. \A b \in Bufs : mem2[b] = IF b \in {x, y} THEN Empty ELSE mem[b]
  BY <1>5
<1>8. mem2 \in [Bufs -> Buffer] /\ \A b \in Bufs : Len(mem2[b].data) <= BufSize
  <2>1. mem2 = [b \in Bufs |-> mem2[b]]
    BY <1>5
  <2>2. ASSUME NEW b \in Bufs PROVE mem2[b] \in Buffer /\ Len(mem2[b].data) <= BufSize
    <3>1. CASE b \in {x, y}
      BY <3>1, <1>6, <1>7
    <3>2. CASE b \notin {x, y}
      BY <3>2, <1>1, <1>7
    <3> QED BY <3>1, <3>2
  <2> QED BY <2>1, <2>2
<1>9. /\ Len(<<>>) = 0 /\ Len(<<x>>) = 1 /\ Len(<<y>>) = 1 /\ <<x>>[1] = x /\ <<y>>[1] = y
  OBVIOUS
<1>10. ASSUME NEW l \in Keys, NEW i \in Nat, NEW b \in Bufs
       PROVE  Holds(link2, l, i, b) <=> \/ Holds(link, l, i, b)
                                        \/ l = k1 /\ i = 1 /\ b = x
                                        \/ l = k2 /\ i = 1 /\ b = y
  <2>1. CASE l = k1
    BY <2>1, <1>3, <1>9 DEF Holds
  <2>2. CASE l = k2
    BY <2>2, <1>3, <1>9 DEF Holds
  <2>3. CASE l # k1 /\ l # k2
    BY <2>3, <1>3 DEF Holds
  <2> QED BY <2>1, <2>2, <2>3
<1>11. ASSUME NEW l \in Keys, NEW i \in Nat, NEW b \in Bufs, Holds(link, l, i, b)
       PROVE  b # x /\ b # y /\ mem2[b] = mem[b]
  <2>1. mem[b].use
    BY <1>1, <1>11 DEF InUse
  <2> QED BY <2>1, <1>4, <1>7
<1>12. InUse(mem2, link2)
  <2>1. ASSUME NEW l \in Keys, NEW i \in Nat, NEW b \in Bufs, Holds(link2, l, i, b)
        PROVE  mem2[b].use
    <3>1. CASE Holds(link, l, i, b)
      BY <3>1, <1>1, <1>11 DEF InUse
    <3>2. CASE ~Holds(link, l, i, b)
      BY <3>2, <2>1, <1>6, <1>7, <1>10
    <3> QED BY <3>1, <3>2
  <2> QED BY <2>1 DEF InUse
<1>13. Apart(link2)
  <2>1. ASSUME NEW k \in Keys, NEW l \in Keys, NEW i \in Nat, NEW j \in Nat, NEW b \in Bufs,
               Holds(link2, k, i, b), Holds(link2, l, j, b)
        PROVE  k = l /\ i = j
    <3>1. CASE Holds(link, k, i, b)
      <4>1. Holds(link, l, j, b)
        BY <3>1, <2>1, <1>10, <1>11
      <4> QED BY <3>1, <4>1, <1>1 DEF Apart
    <3>2. CASE ~Holds(link, k, i, b)
      <4>1. ~Holds(link, l, j, b)
        BY <3>2, <2>1, <1>10, <1>11
      <4> QED BY <3>2, <4>1, <2>1, <1>4, <1>10
    <3> QED BY <3>1, <3>2
  <2> QED BY <2>1 DEF Apart
<1>14. Reached(mem2, link2)
  <2>1. ASSUME NEW b \in Bufs, mem2[b].use PROVE \E l \in Keys, i \in Nat : Holds(link2, l, i, b)
    <3>1. CASE b \in {x, y}
      <4>1. 1 \in Nat
        OBVIOUS
      <4> QED BY <4>1, <3>1, <1>3, <1>10
    <3>2. CASE b \notin {x, y}
      <4>1. PICK l \in Keys, i \in Nat : Holds(link, l, i, b)
        BY <3>2, <2>1, <1>1, <1>7 DEF Reached
      <4> QED BY <4>1, <1>10
    <3> QED BY <3>1, <3>2
  <2> QED BY <2>1 DEF Reached
<1>15. Full(mem2, link2)
  <2>1. ASSUME NEW l \in Keys, NEW i \in Nat, NEW b \in Bufs, Holds(link2, l, i, b), i >= 2
        PROVE  mem2[b].data # <<>>
    <3>1. Holds(link, l, i, b)
      BY <2>1, <1>10
    <3> QED BY <3>1, <2>1, <1>1, <1>11 DEF Full
  <2> QED BY <2>1 DEF Full
<1>16. Counted(mem2, used + 2)
  <2>1. Fresh(mem, 2, new)
    BY DEF Accepted
  <2>2. Taken(mem, mem2, 2, new)
    <3>1. ASSUME NEW b \in Bufs
          PROVE  mem2[b].use <=> mem[b].use \/ \E i \in 1 .. 2 : new[i] = b
      <4>1. (\E i \in 1 .. 2 : new[i] = b) <=> b \in {x, y}
        BY <1>2
      <4>2. CASE b \in {x, y}
        BY <4>1, <4>2, <1>6, <1>7
      <4>3. CASE b \notin {x, y}
        BY <4>1, <4>3, <1>7
      <4> QED BY <4>2, <4>3
    <3> QED BY <3>1 DEF Taken
  <2> QED BY ONLY <2>1, <2>2, <1>1, CountGrows
<1>17. Pool(mem2, used + 2, link2)
  BY <1>3, <1>8, <1>12, <1>13, <1>14, <1>15, <1>16 DEF Pool
<1>18. Text(mem2, link2[k1]) = <<>> /\ Text(mem2, link2[k2]) = <<>>
  <2>1. mem2[x] = Empty /\ mem2[y] = Empty
    BY <1>4, <1>7
  <2>2. Text(mem2, <<x>>) = <<>> /\ Text(mem2, <<y>>) = <<>>
    BY <2>1, <1>4, <1>8, SingleText
  <2> QED BY <2>2, <1>3
<1>19. ASSUME NEW l \in Keys PROVE Text(mem2, link[l]) = Text(mem, link[l])
  <2>1. Untouched(mem, mem2, link, l)
    BY <1>11 DEF Untouched
  <2> QED BY ONLY <2>1, <1>19, Pool(mem, used, link), UntouchedText
<1> QED BY <1>17, <1>18, <1>19

(* What a chain holds is a sequence of bytes.                              *)
LEMMA TextTyped ==
  ASSUME NEW mem \in [Bufs -> Buffer], NEW ch \in Seq(Bufs)
  PROVE  Text(mem, ch) \in Seq(Byte)
<1>1. PICK s, m : s = Parts(mem, ch) /\ m = Len(ch)
  OBVIOUS
<1>2. s \in Seq(Seq(Byte)) /\ Len(s) = m /\ m \in Nat
  BY <1>1, PartsFacts
<1>3. CASE m = 0
  <2>1. ch = <<>>
    BY <1>1, <1>3, EmptySeq
  <2> QED BY <2>1, EmptyText, EmptySeq
<1>4. CASE m # 0
  <2>1. PICK g : AllSums(s, Byte, g)
    BY <1>2, SumsExist
  <2>2. FlattenSeq(s) = g[m]
    <3>1. Len(s) # 0
      BY <1>2, <1>4
    <3>2. FlattenSeq(s) = g[Len(s)]
      BY ONLY <3>1, <1>2, <2>1, SumsAreFlat
    <3> QED BY <3>2, <1>2
  <2>3. g[m] \in Seq(Byte)
    BY <2>1, <1>2, <1>4 DEF AllSums, Sums
  <2> QED BY <2>2, <2>3, <1>1, Zenon DEF Text
<1> QED BY <1>3, <1>4

-----------------------------------------------------------------------------
(* The inductive invariant: the pool is sound, and a connection has its    *)
(* two chains as long as it is in use.                                     *)
Session == [use : BOOLEAN, closed_by_remote : BOOLEAN, ri : Seq(Bufs), wi : Seq(Bufs)]

Link(con) == [k \in Keys |-> IF k[2] = "ri" THEN con[k[1]].ri ELSE con[k[1]].wi]

Headed(s) == IF s.use THEN s.ri # <<>> /\ s.wi # <<>> ELSE s.ri = <<>> /\ s.wi = <<>>

IInv ==
  /\ Pool(g_mem_buffer, g_mem_buffer_used, Link(g_con))
  /\ g_mem_buffer_finder \in Bufs
  /\ g_con \in [Conns -> Session]
  /\ \A c \in Conns : Headed(g_con[c])

(* The chains of a session, looked up by their keys.                       *)
LEMMA LinkFacts ==
  ASSUME NEW con \in [Conns -> Session], NEW c \in Conns
  PROVE  /\ Link(con) \in [Keys -> Seq(Bufs)]
         /\ <<c, "ri">> \in Keys /\ <<c, "wi">> \in Keys /\ <<c, "ri">> # <<c, "wi">>
         /\ Link(con)[<<c, "ri">>] = con[c].ri /\ Link(con)[<<c, "wi">>] = con[c].wi
<1>1. <<c, "ri">> \in Keys /\ <<c, "wi">> \in Keys /\ <<c, "ri">> # <<c, "wi">>
  BY DEF Keys
<1>2. Link(con)[<<c, "ri">>] = con[c].ri /\ Link(con)[<<c, "wi">>] = con[c].wi
  BY <1>1 DEF Link
<1>3. ASSUME NEW k \in Keys
      PROVE  (IF k[2] = "ri" THEN con[k[1]].ri ELSE con[k[1]].wi) \in Seq(Bufs)
  BY DEF Keys, Session
<1>4. Link(con) \in [Keys -> Seq(Bufs)]
  BY <1>3 DEF Link
<1> QED BY <1>1, <1>2, <1>4

(* One session becomes s.                                                  *)
Moved(con, con2, c, s) ==
  /\ con2 \in [Conns -> Session] /\ con2[c] = s
  /\ \A d \in Conns : d # c => con2[d] = con[d]
  /\ \A l \in Keys : l # <<c, "ri">> /\ l # <<c, "wi">> => Link(con2)[l] = Link(con)[l]

(* The chains of every other session stay.                                 *)
LEMMA SessionChanges ==
  ASSUME NEW con \in [Conns -> Session], NEW c \in Conns, NEW s \in Session,
         NEW con2, con2 = [con EXCEPT ![c] = s]
  PROVE  Moved(con, con2, c, s)
<1>1. /\ con2 \in [Conns -> Session] /\ con2[c] = s
      /\ \A d \in Conns : d # c => con2[d] = con[d]
  OBVIOUS
<1>2. ASSUME NEW l \in Keys, l # <<c, "ri">>, l # <<c, "wi">> PROVE Link(con2)[l] = Link(con)[l]
  <2>1. l[1] \in Conns /\ l[1] # c
    BY <1>2 DEF Keys
  <2> QED BY <2>1, <1>1 DEF Link
<1> QED BY <1>1, <1>2 DEF Moved

(* con2 is con but for one chain of c, which is now ch.                    *)
RiMoved(con, con2, c, ch, s) ==
  /\ con2 = [con EXCEPT ![c] = s]
  /\ s.ri = ch /\ s.wi = con[c].wi
  /\ s.use = con[c].use /\ s.closed_by_remote = con[c].closed_by_remote
  /\ Link(con2) = [Link(con) EXCEPT ![<<c, "ri">>] = ch]

(* One received chain changed is one session changed.                      *)
LEMMA RiChanges ==
  ASSUME NEW con \in [Conns -> Session], NEW c \in Conns, NEW ch \in Seq(Bufs),
         NEW con2, con2 = [con EXCEPT ![c].ri = ch]
  PROVE  \E s \in Session : RiMoved(con, con2, c, ch, s)
<1>1. PICK s : s = [con[c] EXCEPT !.ri = ch]
  OBVIOUS
<1>2. con2 = [con EXCEPT ![c] = s]
  BY <1>1
<1>3. /\ s \in Session /\ s.ri = ch /\ s.wi = con[c].wi
      /\ s.use = con[c].use /\ s.closed_by_remote = con[c].closed_by_remote
  BY <1>1 DEF Session
<1>4. /\ con2 \in [Conns -> Session] /\ con2[c] = s
      /\ \A l \in Keys : l # <<c, "ri">> /\ l # <<c, "wi">> => Link(con2)[l] = Link(con)[l]
  <2>1. con \in [Conns -> Session] /\ c \in Conns /\ s \in Session
    BY <1>3
  <2>2. Moved(con, con2, c, s)
    BY ONLY <2>1, <1>2, SessionChanges
  <2> QED BY <2>2 DEF Moved
<1>5. /\ Link(con2)[<<c, "ri">>] = ch /\ Link(con2)[<<c, "wi">>] = Link(con)[<<c, "wi">>]
      /\ Link(con2) \in [Keys -> Seq(Bufs)] /\ Link(con) \in [Keys -> Seq(Bufs)]
      /\ <<c, "ri">> \in Keys /\ <<c, "ri">> # <<c, "wi">>
  BY <1>3, <1>4, LinkFacts
<1>6. Link(con2) = [Link(con) EXCEPT ![<<c, "ri">>] = ch]
  <2>1. PICK l1, l2, k, k2 :
          l1 = Link(con) /\ l2 = Link(con2) /\ k = <<c, "ri">> /\ k2 = <<c, "wi">>
    OBVIOUS
  <2>2. /\ l1 \in [Keys -> Seq(Bufs)] /\ l2 \in [Keys -> Seq(Bufs)] /\ k \in Keys
        /\ l2[k] = ch /\ \A l \in Keys : l # k => l2[l] = l1[l]
    BY <2>1, <1>4, <1>5
  <2>3. l2 = [l1 EXCEPT ![k] = ch]
    BY ONLY <2>2
  <2> QED BY <2>1, <2>3
<1> QED BY <1>2, <1>3, <1>6 DEF RiMoved

WiMoved(con, con2, c, ch, s) ==
  /\ con2 = [con EXCEPT ![c] = s]
  /\ s.wi = ch /\ s.ri = con[c].ri
  /\ s.use = con[c].use /\ s.closed_by_remote = con[c].closed_by_remote
  /\ Link(con2) = [Link(con) EXCEPT ![<<c, "wi">>] = ch]

(* One chain to be sent changed is one session changed.                    *)
LEMMA WiChanges ==
  ASSUME NEW con \in [Conns -> Session], NEW c \in Conns, NEW ch \in Seq(Bufs),
         NEW con2, con2 = [con EXCEPT ![c].wi = ch]
  PROVE  \E s \in Session : WiMoved(con, con2, c, ch, s)
<1>1. PICK s : s = [con[c] EXCEPT !.wi = ch]
  OBVIOUS
<1>2. con2 = [con EXCEPT ![c] = s]
  BY <1>1
<1>3. /\ s \in Session /\ s.wi = ch /\ s.ri = con[c].ri
      /\ s.use = con[c].use /\ s.closed_by_remote = con[c].closed_by_remote
  BY <1>1 DEF Session
<1>4. /\ con2 \in [Conns -> Session] /\ con2[c] = s
      /\ \A l \in Keys : l # <<c, "ri">> /\ l # <<c, "wi">> => Link(con2)[l] = Link(con)[l]
  <2>1. con \in [Conns -> Session] /\ c \in Conns /\ s \in Session
    BY <1>3
  <2>2. Moved(con, con2, c, s)
    BY ONLY <2>1, <1>2, SessionChanges
  <2> QED BY <2>2 DEF Moved
<1>5. /\ Link(con2)[<<c, "wi">>] = ch /\ Link(con2)[<<c, "ri">>] = Link(con)[<<c, "ri">>]
      /\ Link(con2) \in [Keys -> Seq(Bufs)] /\ Link(con) \in [Keys -> Seq(Bufs)]
      /\ <<c, "wi">> \in Keys /\ <<c, "ri">> # <<c, "wi">>
  BY <1>3, <1>4, LinkFacts
<1>6. Link(con2) = [Link(con) EXCEPT ![<<c, "wi">>] = ch]
  <2>1. PICK l1, l2, k, k2 :
          l1 = Link(con) /\ l2 = Link(con2) /\ k = <<c, "wi">> /\ k2 = <<c, "ri">>
    OBVIOUS
  <2>2. /\ l1 \in [Keys -> Seq(Bufs)] /\ l2 \in [Keys -> Seq(Bufs)] /\ k \in Keys
        /\ l2[k] = ch /\ \A l \in Keys : l # k => l2[l] = l1[l]
    BY <2>1, <1>4, <1>5
  <2>3. l2 = [l1 EXCEPT ![k] = ch]
    BY ONLY <2>2
  <2> QED BY <2>1, <2>3
<1> QED BY <1>2, <1>3, <1>6 DEF WiMoved

(* The byte streams of a state of the chains.                              *)
Ins(mem, con) == [c \in Conns |-> Text(mem, con[c].ri)]
Outs(mem, con) == [c \in Conns |-> Text(mem, con[c].wi)]

(* The streams of ByteStreams are those of this state and the next.        *)
LEMMA StreamsNow ==
  /\ in = Ins(g_mem_buffer, g_con) /\ out = Outs(g_mem_buffer, g_con)
  /\ in' = Ins(g_mem_buffer', g_con') /\ out' = Outs(g_mem_buffer', g_con')
BY DEF in, out, Ins, Outs, Contents, Text, Parts

(* Every session but c keeps its texts.                                    *)
Aloof(mem, mem2, con, c) ==
  \A l \in Keys : l # <<c, "ri">> /\ l # <<c, "wi">> =>
    Text(mem2, Link(con)[l]) = Text(mem, Link(con)[l])

(* The streams of c, and no others, follow its session.                    *)
Follows(mem, mem2, con, con2, c, s) ==
  /\ Ins(mem2, con2) = [Ins(mem, con) EXCEPT ![c] = Text(mem2, s.ri)]
  /\ Outs(mem2, con2) = [Outs(mem, con) EXCEPT ![c] = Text(mem2, s.wi)]

(* If only session c changes, only its streams do.                         *)
LEMMA StreamsFollow ==
  ASSUME NEW mem, NEW mem2, NEW con \in [Conns -> Session], NEW c \in Conns, NEW s \in Session,
         NEW con2, con2 = [con EXCEPT ![c] = s], Aloof(mem, mem2, con, c)
  PROVE  Follows(mem, mem2, con, con2, c, s)
<1>1. con2[c] = s /\ \A d \in Conns : d # c => con2[d] = con[d]
  OBVIOUS
<1>2. ASSUME NEW d \in Conns, d # c
      PROVE  /\ Text(mem2, con2[d].ri) = Text(mem, con[d].ri)
             /\ Text(mem2, con2[d].wi) = Text(mem, con[d].wi)
  <2>1. PICK k, l : k = <<d, "ri">> /\ l = <<d, "wi">>
    OBVIOUS
  <2>2. /\ k \in Keys /\ l \in Keys
        /\ k # <<c, "ri">> /\ k # <<c, "wi">> /\ l # <<c, "ri">> /\ l # <<c, "wi">>
    BY <2>1, <1>2 DEF Keys
  <2>3. Link(con)[k] = con[d].ri /\ Link(con)[l] = con[d].wi
    BY <2>1, LinkFacts
  <2> QED BY <2>2, <2>3, <1>1, <1>2 DEF Aloof
<1>3. Ins(mem2, con2) = [Ins(mem, con) EXCEPT ![c] = Text(mem2, s.ri)]
  <2>1. ASSUME NEW d \in Conns
        PROVE  Text(mem2, con2[d].ri) = IF d = c THEN Text(mem2, s.ri) ELSE Text(mem, con[d].ri)
    BY <1>1, <1>2
  <2> QED BY <2>1 DEF Ins
<1>4. Outs(mem2, con2) = [Outs(mem, con) EXCEPT ![c] = Text(mem2, s.wi)]
  <2>1. ASSUME NEW d \in Conns
        PROVE  Text(mem2, con2[d].wi) = IF d = c THEN Text(mem2, s.wi) ELSE Text(mem, con[d].wi)
    BY <1>1, <1>2
  <2> QED BY <2>1 DEF Outs
<1> QED BY <1>3, <1>4 DEF Follows

(* A step that changes session c and leaves the pool sound.                *)
Streamed(c, s) ==
  /\ IInv'
  /\ open' = [open EXCEPT ![c] = s.use] /\ eof' = [eof EXCEPT ![c] = s.closed_by_remote]
  /\ in' = [in EXCEPT ![c] = Text(g_mem_buffer', s.ri)]
  /\ out' = [out EXCEPT ![c] = Text(g_mem_buffer', s.wi)]

(* The invariant is preserved, the streams of c follow its session.        *)
LEMMA SessionStep ==
  ASSUME IInv, NEW c \in Conns, NEW s \in Session, Headed(s),
         g_con' = [g_con EXCEPT ![c] = s],
         Pool(g_mem_buffer', g_mem_buffer_used', Link(g_con')), g_mem_buffer_finder' \in Bufs,
         Aloof(g_mem_buffer, g_mem_buffer', g_con, c)
  PROVE  Streamed(c, s)
<1>1. PICK mem, mem2, con, con2 :
        mem = g_mem_buffer /\ mem2 = g_mem_buffer' /\ con = g_con /\ con2 = g_con'
  OBVIOUS
<1>2. con \in [Conns -> Session] /\ \A d \in Conns : Headed(con[d])
  BY <1>1 DEF IInv
<1>3. con2 = [con EXCEPT ![c] = s] /\ Aloof(mem, mem2, con, c)
  BY <1>1
<1>4. Follows(mem, mem2, con, con2, c, s)
  BY ONLY <1>2, <1>3, c \in Conns, s \in Session, StreamsFollow
<1>5. Moved(con, con2, c, s)
  <2>1. con \in [Conns -> Session] /\ c \in Conns /\ s \in Session
    BY <1>2
  <2> QED BY ONLY <2>1, <1>3, SessionChanges
<1>6. con2 \in [Conns -> Session] /\ con2[c] = s /\ \A d \in Conns : d # c => con2[d] = con[d]
  BY <1>5 DEF Moved
<1>7. \A d \in Conns : Headed(con2[d])
  BY <1>2, <1>6
<1>8. IInv'
  BY <1>1, <1>6, <1>7 DEF IInv
<1>9. open' = [open EXCEPT ![c] = s.use] /\ eof' = [eof EXCEPT ![c] = s.closed_by_remote]
  <2>1. /\ open = [d \in Conns |-> con[d].use] /\ open' = [d \in Conns |-> con2[d].use]
        /\ eof = [d \in Conns |-> con[d].closed_by_remote]
        /\ eof' = [d \in Conns |-> con2[d].closed_by_remote]
    BY <1>1 DEF open, eof
  <2>2. [d \in Conns |-> con2[d].use] = [[d \in Conns |-> con[d].use] EXCEPT ![c] = s.use]
    BY ONLY <1>6
  <2>3. [d \in Conns |-> con2[d].closed_by_remote]
          = [[d \in Conns |-> con[d].closed_by_remote] EXCEPT ![c] = s.closed_by_remote]
    BY ONLY <1>6
  <2> QED BY <2>1, <2>2, <2>3
<1>10. /\ in' = [in EXCEPT ![c] = Text(mem2, s.ri)]
       /\ out' = [out EXCEPT ![c] = Text(mem2, s.wi)]
  BY <1>1, <1>4, StreamsNow DEF Follows
<1> QED BY <1>1, <1>8, <1>9, <1>10 DEF Streamed

(* One chain of session c changes, and with it its stream, to t.           *)
Steps(c, x, r, t) ==
  /\ Becomes(r)
  /\ Pool(r.mem, r.used, [Link(g_con) EXCEPT ![<<c, x>>] = r.chain])
  /\ r.finder \in Bufs /\ r.chain # <<>>
  /\ Text(r.mem, r.chain) = t
  /\ Spared(g_mem_buffer, r.mem, Link(g_con), <<c, x>>)

(* A step of the received chain: the invariant, and the stream in.         *)
LEMMA RiStep ==
  ASSUME IInv, NEW c \in Conns, g_con[c].use, NEW r, NEW t, Steps(c, "ri", r, t),
         g_con' = [g_con EXCEPT ![c].ri = r.chain]
  PROVE  IInv' /\ open' = open /\ eof' = eof /\ out' = out /\ in' = [in EXCEPT ![c] = t]
<1>1. PICK mem, mem2, con, con2, ch : /\ mem = g_mem_buffer /\ mem2 = r.mem
                                      /\ con = g_con /\ con2 = g_con' /\ ch = r.chain
  OBVIOUS
<1>2. con \in [Conns -> Session] /\ \A d \in Conns : Headed(con[d])
  BY <1>1 DEF IInv
<1>3. /\ Link(con) \in [Keys -> Seq(Bufs)]
      /\ <<c, "ri">> \in Keys /\ <<c, "wi">> \in Keys /\ <<c, "ri">> # <<c, "wi">>
      /\ Link(con)[<<c, "wi">>] = con[c].wi
  BY <1>2, LinkFacts
<1>4. PICK link2 : link2 = [Link(con) EXCEPT ![<<c, "ri">>] = ch]
  OBVIOUS
<1>5. Pool(mem2, r.used, link2) /\ Spared(mem, mem2, Link(con), <<c, "ri">>)
  BY <1>1, <1>4 DEF Steps
<1>6. ch \in Seq(Bufs)
  <2>1. link2 \in [Keys -> Seq(Bufs)] /\ link2[<<c, "ri">>] = ch
    BY <1>3, <1>4, <1>5 DEF Pool
  <2> QED BY <2>1, <1>3
<1>7. PICK s \in Session :
        /\ con2 = [con EXCEPT ![c] = s]
        /\ s.ri = ch /\ s.wi = con[c].wi
        /\ s.use = con[c].use /\ s.closed_by_remote = con[c].closed_by_remote
        /\ Link(con2) = [Link(con) EXCEPT ![<<c, "ri">>] = ch]
  <2>1. con2 = [con EXCEPT ![c].ri = ch]
    BY <1>1
  <2>2. con \in [Conns -> Session] /\ c \in Conns /\ ch \in Seq(Bufs)
    BY <1>2, <1>6
  <2>3. PICK s \in Session : RiMoved(con, con2, c, ch, s)
    BY ONLY <2>1, <2>2, RiChanges
  <2> QED BY <2>3 DEF RiMoved
<1>8. Headed(s)
  <2>1. con[c].wi # <<>> /\ s.use
    BY <1>1, <1>2, <1>7 DEF Headed
  <2>2. ch # <<>>
    BY <1>1 DEF Steps
  <2> QED BY <2>1, <2>2, <1>7 DEF Headed
<1>9. Aloof(mem, mem2, con, c)
  BY <1>5 DEF Spared, Aloof
<1>10. mem2 = g_mem_buffer' /\ r.used = g_mem_buffer_used' /\ r.finder = g_mem_buffer_finder'
  BY <1>1 DEF Steps, Becomes
<1>11. Streamed(c, s)
  <2>1. g_con' = [g_con EXCEPT ![c] = s] /\ Aloof(g_mem_buffer, g_mem_buffer', g_con, c)
    BY <1>1, <1>7, <1>9, <1>10
  <2>2. Pool(g_mem_buffer', g_mem_buffer_used', Link(g_con')) /\ g_mem_buffer_finder' \in Bufs
    BY <1>1, <1>4, <1>5, <1>7, <1>10 DEF Steps
  <2> QED BY ONLY <2>1, <2>2, <1>8, IInv, c \in Conns, s \in Session, SessionStep
<1>12. Text(mem2, s.ri) = t /\ Text(mem2, s.wi) = Text(mem, s.wi)
  <2>1. Text(mem2, s.ri) = t
    BY <1>1, <1>7 DEF Steps
  <2> QED BY <2>1, <1>3, <1>5, <1>7 DEF Spared
<1>13. /\ open = [d \in Conns |-> con[d].use] /\ eof = [d \in Conns |-> con[d].closed_by_remote]
       /\ out = [d \in Conns |-> Text(mem, con[d].wi)]
  BY <1>1, StreamsNow DEF open, eof, Outs
<1>14. open' = open /\ eof' = eof /\ out' = out
  <2>1. /\ open' = [open EXCEPT ![c] = open[c]] /\ eof' = [eof EXCEPT ![c] = eof[c]]
        /\ out' = [out EXCEPT ![c] = out[c]]
    <3>1. open[c] = s.use /\ eof[c] = s.closed_by_remote /\ out[c] = Text(mem2, s.wi)
      BY <1>7, <1>12, <1>13
    <3> QED BY <3>1, <1>10, <1>11 DEF Streamed
  <2> QED BY <2>1, <1>13
<1> QED BY <1>10, <1>11, <1>12, <1>14 DEF Streamed

(* A step of the chain to be sent: the invariant, and the stream out.      *)
LEMMA WiStep ==
  ASSUME IInv, NEW c \in Conns, g_con[c].use, NEW r, NEW t, Steps(c, "wi", r, t),
         g_con' = [g_con EXCEPT ![c].wi = r.chain]
  PROVE  IInv' /\ open' = open /\ eof' = eof /\ in' = in /\ out' = [out EXCEPT ![c] = t]
<1>1. PICK mem, mem2, con, con2, ch : /\ mem = g_mem_buffer /\ mem2 = r.mem
                                      /\ con = g_con /\ con2 = g_con' /\ ch = r.chain
  OBVIOUS
<1>2. con \in [Conns -> Session] /\ \A d \in Conns : Headed(con[d])
  BY <1>1 DEF IInv
<1>3. /\ Link(con) \in [Keys -> Seq(Bufs)]
      /\ <<c, "wi">> \in Keys /\ <<c, "ri">> \in Keys /\ <<c, "wi">> # <<c, "ri">>
      /\ Link(con)[<<c, "ri">>] = con[c].ri
  BY <1>2, LinkFacts
<1>4. PICK link2 : link2 = [Link(con) EXCEPT ![<<c, "wi">>] = ch]
  OBVIOUS
<1>5. Pool(mem2, r.used, link2) /\ Spared(mem, mem2, Link(con), <<c, "wi">>)
  BY <1>1, <1>4 DEF Steps
<1>6. ch \in Seq(Bufs)
  <2>1. link2 \in [Keys -> Seq(Bufs)] /\ link2[<<c, "wi">>] = ch
    BY <1>3, <1>4, <1>5 DEF Pool
  <2> QED BY <2>1, <1>3
<1>7. PICK s \in Session :
        /\ con2 = [con EXCEPT ![c] = s]
        /\ s.wi = ch /\ s.ri = con[c].ri
        /\ s.use = con[c].use /\ s.closed_by_remote = con[c].closed_by_remote
        /\ Link(con2) = [Link(con) EXCEPT ![<<c, "wi">>] = ch]
  <2>1. con2 = [con EXCEPT ![c].wi = ch]
    BY <1>1
  <2>2. con \in [Conns -> Session] /\ c \in Conns /\ ch \in Seq(Bufs)
    BY <1>2, <1>6
  <2>3. PICK s \in Session : WiMoved(con, con2, c, ch, s)
    BY ONLY <2>1, <2>2, WiChanges
  <2> QED BY <2>3 DEF WiMoved
<1>8. Headed(s)
  <2>1. con[c].ri # <<>> /\ s.use
    BY <1>1, <1>2, <1>7 DEF Headed
  <2>2. ch # <<>>
    BY <1>1 DEF Steps
  <2> QED BY <2>1, <2>2, <1>7 DEF Headed
<1>9. Aloof(mem, mem2, con, c)
  BY <1>5 DEF Spared, Aloof
<1>10. mem2 = g_mem_buffer' /\ r.used = g_mem_buffer_used' /\ r.finder = g_mem_buffer_finder'
  BY <1>1 DEF Steps, Becomes
<1>11. Streamed(c, s)
  <2>1. g_con' = [g_con EXCEPT ![c] = s] /\ Aloof(g_mem_buffer, g_mem_buffer', g_con, c)
    BY <1>1, <1>7, <1>9, <1>10
  <2>2. Pool(g_mem_buffer', g_mem_buffer_used', Link(g_con')) /\ g_mem_buffer_finder' \in Bufs
    BY <1>1, <1>4, <1>5, <1>7, <1>10 DEF Steps
  <2> QED BY ONLY <2>1, <2>2, <1>8, IInv, c \in Conns, s \in Session, SessionStep
<1>12. Text(mem2, s.wi) = t /\ Text(mem2, s.ri) = Text(mem, s.ri)
  <2>1. Text(mem2, s.wi) = t
    BY <1>1, <1>7 DEF Steps
  <2> QED BY <2>1, <1>3, <1>5, <1>7 DEF Spared
<1>13. /\ open = [d \in Conns |-> con[d].use] /\ eof = [d \in Conns |-> con[d].closed_by_remote]
       /\ in = [d \in Conns |-> Text(mem, con[d].ri)]
  BY <1>1, StreamsNow DEF open, eof, Ins
<1>14. open' = open /\ eof' = eof /\ in' = in
  <2>1. /\ open' = [open EXCEPT ![c] = open[c]] /\ eof' = [eof EXCEPT ![c] = eof[c]]
        /\ in' = [in EXCEPT ![c] = in[c]]
    <3>1. open[c] = s.use /\ eof[c] = s.closed_by_remote /\ in[c] = Text(mem2, s.ri)
      BY <1>7, <1>12, <1>13
    <3> QED BY <3>1, <1>10, <1>11 DEF Streamed
  <2> QED BY <2>1, <1>13
<1> QED BY <1>10, <1>11, <1>12, <1>14 DEF Streamed

(* What the chains of a connection in use hold.                            *)
LEMMA StreamsHold ==
  ASSUME IInv, NEW c \in Conns
  PROVE  /\ in[c] = Text(g_mem_buffer, Link(g_con)[<<c, "ri">>])
         /\ out[c] = Text(g_mem_buffer, Link(g_con)[<<c, "wi">>])
         /\ in[c] = Contents(g_con[c].ri) /\ out[c] = Contents(g_con[c].wi)
         /\ in[c] \in Seq(Byte) /\ out[c] \in Seq(Byte)
<1>1. g_con \in [Conns -> Session] /\ g_mem_buffer \in [Bufs -> Buffer]
  BY DEF IInv, Pool
<1>2. Link(g_con)[<<c, "ri">>] = g_con[c].ri /\ Link(g_con)[<<c, "wi">>] = g_con[c].wi
  BY <1>1, LinkFacts
<1>3. in[c] = Text(g_mem_buffer, g_con[c].ri) /\ out[c] = Text(g_mem_buffer, g_con[c].wi)
  BY StreamsNow DEF Ins, Outs
<1>4. g_con[c].ri \in Seq(Bufs) /\ g_con[c].wi \in Seq(Bufs)
  BY <1>1 DEF Session
<1>5. in[c] = Contents(g_con[c].ri) /\ out[c] = Contents(g_con[c].wi)
  BY DEF in, out
<1>6. in[c] \in Seq(Byte) /\ out[c] \in Seq(Byte)
  BY <1>1, <1>3, <1>4, TextTyped
<1> QED BY <1>2, <1>3, <1>5, <1>6

(* appendMemBufList on a chain of a connection.                            *)
LEMMA AppendSteps ==
  ASSUME IInv, NEW c \in Conns, NEW x \in {"ri", "wi"}, NEW ch, ch = Link(g_con)[<<c, x>>],
         ch # <<>>, NEW d \in Reads \union Writes, Appendable(d),
         NEW r, r = AppendMemBufList(ch, d), Becomes(r)
  PROVE  Steps(c, x, r, Text(g_mem_buffer, ch) \o d)
<1>1. PICK link, link2, k : /\ link = Link(g_con) /\ k = <<c, x>>
                            /\ link2 = [link EXCEPT ![k] = r.chain]
  OBVIOUS
<1>2. /\ Pool(g_mem_buffer, g_mem_buffer_used, link) /\ g_mem_buffer_finder \in Bufs
      /\ k \in Keys /\ link[k] # <<>> /\ d \in Reads \union Writes /\ Appendable(d)
      /\ r = AppendMemBufList(link[k], d) /\ link2 = [link EXCEPT ![k] = r.chain]
  BY <1>1 DEF IInv, Keys
<1>3. Appends(g_mem_buffer_used, link, link2, k, d, r)
  BY ONLY <1>2, AppendStep
<1>4. Spared(g_mem_buffer, r.mem, link, k)
  BY <1>3 DEF Appends, Spared
<1> QED BY <1>1, <1>3, <1>4 DEF Appends, Steps

(* consumeMemBufList on a chain of a connection.                           *)
LEMMA ConsumeSteps ==
  ASSUME IInv, NEW c \in Conns, NEW x \in {"ri", "wi"}, NEW ch, ch = Link(g_con)[<<c, x>>],
         ch # <<>>, NEW max \in Nat, NEW r, r = Consume(ch, max), Becomes(r)
  PROVE  Steps(c, x, r, Drop(Text(g_mem_buffer, ch), max))
<1>1. PICK link, link2, k : /\ link = Link(g_con) /\ k = <<c, x>>
                            /\ link2 = [link EXCEPT ![k] = r.chain]
  OBVIOUS
<1>2. /\ Pool(g_mem_buffer, g_mem_buffer_used, link) /\ g_mem_buffer_finder \in Bufs
      /\ k \in Keys /\ link[k] # <<>> /\ max \in Nat
      /\ r = Consume(link[k], max) /\ link2 = [link EXCEPT ![k] = r.chain]
  BY <1>1 DEF IInv, Keys
<1>3. Consumes(link, link2, k, max, r)
  BY ONLY <1>2, ConsumeStep
<1> QED BY <1>1, <1>2, <1>3 DEF Consumes, Steps

(* The other end of c is found closed.                                     *)
LEMMA MarkStep ==
  ASSUME IInv, NEW c \in Conns, Polled(c), MarkRemoteClosed(c)
  PROVE  IInv' /\ Lines!Finish(c)
<1>1. g_con \in [Conns -> Session] /\ Headed(g_con[c])
  BY DEF IInv
<1>2. PICK s : s = [g_con[c] EXCEPT !.closed_by_remote = TRUE]
  OBVIOUS
<1>3. /\ s \in Session /\ s.use = g_con[c].use /\ s.closed_by_remote = TRUE
      /\ s.ri = g_con[c].ri /\ s.wi = g_con[c].wi
  BY <1>1, <1>2 DEF Session
<1>4. g_con' = [g_con EXCEPT ![c] = s]
  BY <1>2 DEF MarkRemoteClosed
<1>5. /\ g_mem_buffer' = g_mem_buffer /\ g_mem_buffer_used' = g_mem_buffer_used
      /\ g_mem_buffer_finder' = g_mem_buffer_finder
  BY DEF MarkRemoteClosed, pool
<1>6. PICK con, con2 : con = g_con /\ con2 = g_con'
  OBVIOUS
<1>7. Moved(con, con2, c, s)
  <2>1. con \in [Conns -> Session] /\ c \in Conns /\ s \in Session
        /\ con2 = [con EXCEPT ![c] = s]
    BY <1>1, <1>3, <1>4, <1>6
  <2> QED BY ONLY <2>1, SessionChanges
<1>8. Link(con2) = Link(con)
  <2>1. /\ Link(con2)[<<c, "ri">>] = Link(con)[<<c, "ri">>]
        /\ Link(con2)[<<c, "wi">>] = Link(con)[<<c, "wi">>]
        /\ Link(con2) \in [Keys -> Seq(Bufs)] /\ Link(con) \in [Keys -> Seq(Bufs)]
    BY <1>1, <1>3, <1>6, <1>7, LinkFacts DEF Moved
  <2>2. \A l \in Keys : Link(con2)[l] = Link(con)[l]
    BY <2>1, <1>7 DEF Moved
  <2> QED BY <2>1, <2>2
<1>9. Streamed(c, s)
  <2>1. Pool(g_mem_buffer', g_mem_buffer_used', Link(g_con')) /\ g_mem_buffer_finder' \in Bufs
    BY <1>5, <1>6, <1>8 DEF IInv
  <2>2. Aloof(g_mem_buffer, g_mem_buffer', g_con, c)
    BY <1>5 DEF Aloof
  <2>3. Headed(s)
    BY <1>1, <1>3 DEF Headed
  <2> QED BY ONLY <2>1, <2>2, <2>3, <1>3, <1>4, IInv, c \in Conns, SessionStep
<1>10. /\ open = [d \in Conns |-> g_con[d].use]
       /\ in = [d \in Conns |-> Text(g_mem_buffer, g_con[d].ri)]
       /\ out = [d \in Conns |-> Text(g_mem_buffer, g_con[d].wi)]
  BY StreamsNow DEF open, Ins, Outs
<1>11. open' = open /\ in' = in /\ out' = out
  <2>1. /\ open' = [open EXCEPT ![c] = open[c]] /\ in' = [in EXCEPT ![c] = in[c]]
        /\ out' = [out EXCEPT ![c] = out[c]]
    <3>1. /\ open[c] = s.use /\ in[c] = Text(g_mem_buffer', s.ri)
          /\ out[c] = Text(g_mem_buffer', s.wi)
      BY <1>3, <1>5, <1>10
    <3> QED BY <3>1, <1>9 DEF Streamed
  <2> QED BY <2>1, <1>10
<1>12. eof' = [eof EXCEPT ![c] = TRUE] /\ IInv'
  BY <1>3, <1>9 DEF Streamed
<1>13. open[c] /\ ~eof[c]
  BY DEF Polled, open, eof
<1> QED BY <1>11, <1>12, <1>13 DEF Lines!Finish

(* A connection closed: its streams are empty, its buffers in the pool.    *)
LEMMA DiscardStep ==
  ASSUME IInv, NEW c \in Conns, tcpstruct_close(c)
  PROVE  IInv' /\ Lines!Discard(c)
<1>1. g_con \in [Conns -> Session] /\ Headed(g_con[c])
  BY DEF IInv
<1>2. PICK r, e, s1, s2, s : /\ r = g_con[c] /\ e = <<>>
                             /\ s1 = [r EXCEPT !.use = FALSE]
                             /\ s2 = [s1 EXCEPT !.ri = e]
                             /\ s = [s2 EXCEPT !.wi = e]
  OBVIOUS
<1>3. /\ s \in Session /\ s.use = FALSE /\ s.closed_by_remote = g_con[c].closed_by_remote
      /\ s.ri = <<>> /\ s.wi = <<>>
  <2>1. e \in Seq(Bufs)
    BY <1>2, EmptySeq
  <2>2. s1 \in Session /\ s1.use = FALSE /\ s1.closed_by_remote = g_con[c].closed_by_remote
    BY <1>1, <1>2 DEF Session
  <2>3. /\ s2 \in Session /\ s2.use = FALSE
        /\ s2.closed_by_remote = g_con[c].closed_by_remote /\ s2.ri = e
    BY <2>1, <2>2, <1>2 DEF Session
  <2> QED BY <2>1, <2>3, <1>2 DEF Session
<1>4. g_con' = [g_con EXCEPT ![c] = s]
  <2>1. g_con' = [g_con EXCEPT ![c].use = FALSE, ![c].ri = <<>>, ![c].wi = <<>>]
    BY DEF tcpstruct_close
  <2>2. [g_con EXCEPT ![c].use = FALSE, ![c].ri = <<>>, ![c].wi = <<>>]
          = [g_con EXCEPT ![c] = [g_con[c] EXCEPT !.use = FALSE, !.ri = <<>>, !.wi = <<>>]]
    BY <1>1
  <2>3. [g_con[c] EXCEPT !.use = FALSE, !.ri = <<>>, !.wi = <<>>] = s
    BY ONLY <1>2
  <2> QED BY <2>1, <2>2, <2>3
<1>5. PICK con, con2, k1, k2 : /\ con = g_con /\ con2 = g_con'
                               /\ k1 = <<c, "ri">> /\ k2 = <<c, "wi">>
  OBVIOUS
<1>6. Moved(con, con2, c, s)
  <2>1. con \in [Conns -> Session] /\ c \in Conns /\ s \in Session
        /\ con2 = [con EXCEPT ![c] = s]
    BY <1>1, <1>3, <1>4, <1>5
  <2> QED BY ONLY <2>1, SessionChanges
<1>7. /\ Link(con2)[k1] = <<>> /\ Link(con2)[k2] = <<>> /\ Link(con2) \in [Keys -> Seq(Bufs)]
      /\ Link(con)[k1] = g_con[c].ri /\ Link(con)[k2] = g_con[c].wi
      /\ k1 \in Keys /\ k2 \in Keys /\ k1 # k2
  BY <1>1, <1>3, <1>5, <1>6, LinkFacts DEF Moved
<1>8. PICK link, link2, mem, mem2 : /\ link = Link(con) /\ link2 = Link(con2)
                                    /\ mem = g_mem_buffer /\ mem2 = g_mem_buffer'
  OBVIOUS
<1>9. Closed(mem, mem2, link, link2, k1, k2)
  <2>1. mem2 = [b \in Bufs |-> IF b \in Linked(link[k1]) \union Linked(link[k2])
                                 THEN Blank ELSE mem[b]]
    BY <1>7, <1>8 DEF tcpstruct_close, Linked
  <2> QED BY <2>1, <1>5, <1>6, <1>7, <1>8 DEF Closed, Moved
<1>10. /\ Pool(mem2, g_mem_buffer_used - Len(link[k1]) - Len(link[k2]), link2)
       /\ \A l \in Keys : l # k1 /\ l # k2 => Text(mem2, link[l]) = Text(mem, link[l])
  <2>1. Pool(mem, g_mem_buffer_used, link)
    BY <1>5, <1>8 DEF IInv
  <2> QED BY ONLY <2>1, <1>9, CloseStep
<1>11. Streamed(c, s)
  <2>1. g_mem_buffer_used' = g_mem_buffer_used - Len(link[k1]) - Len(link[k2])
    BY <1>7, <1>8 DEF tcpstruct_close
  <2>2. Pool(g_mem_buffer', g_mem_buffer_used', Link(g_con'))
    BY <2>1, <1>5, <1>8, <1>10
  <2>3. g_mem_buffer_finder' \in Bufs
    BY DEF tcpstruct_close, IInv
  <2>4. Aloof(g_mem_buffer, g_mem_buffer', g_con, c)
    BY <1>5, <1>8, <1>10 DEF Aloof
  <2>5. Headed(s)
    BY <1>3 DEF Headed
  <2> QED BY ONLY <2>2, <2>3, <2>4, <2>5, <1>3, <1>4, IInv, c \in Conns, SessionStep
<1>12. IInv' /\ open' = [open EXCEPT ![c] = FALSE]
  BY <1>3, <1>11 DEF Streamed
<1>13. in' = [in EXCEPT ![c] = <<>>] /\ out' = [out EXCEPT ![c] = <<>>]
  BY <1>3, <1>11, EmptyText DEF Streamed
<1>14. eof' = eof
  <2>1. eof = [d \in Conns |-> g_con[d].closed_by_remote]
    BY DEF eof
  <2>2. eof' = [eof EXCEPT ![c] = eof[c]]
    BY <2>1, <1>3, <1>11 DEF Streamed
  <2> QED BY <2>1, <2>2
<1> QED BY <1>12, <1>13, <1>14 DEF Lines!Discard

(* A blank connection takes two buffers of the pool as its heads, or the   *)
(* streams stay as they are.                                               *)
LEMMA OpenStep ==
  ASSUME IInv, NEW c \in Conns, Accept(c)
  PROVE  IInv' /\ (Lines!Open(c) \/ UNCHANGED Lines!streams)
<1>1. PICK n : n = IF Cardinality(Free) < 2 THEN Cardinality(Free) ELSE 2
  OBVIOUS
<1>2. n \in 0 .. Cardinality(Free) /\ n \in {0, 1, 2}
  BY <1>1, FreeFinite
<1>3. PICK new : new = allocateMemBuf(n)
  OBVIOUS
<1>4. new \in [1 .. n -> Free] /\ \A i, j \in 1 .. n : new[i] = new[j] => i = j
  <2>1. g_mem_buffer_finder \in Bufs
    BY DEF IInv
  <2> QED BY <2>1, <1>2, <1>3, Allocates
<1>5. PICK last : last = IF n = 0 THEN g_mem_buffer_finder ELSE new[n]
  OBVIOUS
<1>6. last \in Bufs
  <2>1. CASE n = 0
    BY <2>1, <1>5 DEF IInv
  <2>2. CASE n # 0
    <3>1. n \in 1 .. n
      BY <2>2, <1>2
    <3>2. new[n] \in Free
      BY <3>1, <1>4
    <3> QED BY <3>2, <2>2, <1>5 DEF Free
  <2> QED BY <2>1, <2>2
<1>7. PICK found :
        found = [b \in Bufs |-> IF b \in {new[1], new[2]} THEN Empty ELSE g_mem_buffer[b]]
  OBVIOUS
<1>8. /\ FirstBlank(c)
      /\ \/ /\ n = 2
            /\ Becomes([mem |-> found, used |-> g_mem_buffer_used + 2, finder |-> last])
            /\ g_con' = [g_con EXCEPT ![c] =
                 [use |-> TRUE, closed_by_remote |-> FALSE,
                  ri |-> <<new[1]>>, wi |-> <<new[2]>>]]
         \/ /\ g_mem_buffer_finder' = last
            /\ UNCHANGED <<g_mem_buffer, g_mem_buffer_used, g_con>>
  BY <1>1, <1>3, <1>5, <1>7 DEF Accept, Empty
<1>9. CASE /\ g_mem_buffer_finder' = last
           /\ UNCHANGED <<g_mem_buffer, g_mem_buffer_used, g_con>>
  <2>1. g_mem_buffer' = g_mem_buffer /\ g_mem_buffer_used' = g_mem_buffer_used /\ g_con' = g_con
    BY <1>9
  <2>2. IInv'
    BY <2>1, <1>6, <1>9 DEF IInv
  <2>3. open' = open /\ eof' = eof /\ in' = in /\ out' = out
    BY <2>1, StreamsNow DEF open, eof
  <2> QED BY <2>2, <2>3 DEF Lines!streams
<1>10. CASE /\ n = 2
            /\ Becomes([mem |-> found, used |-> g_mem_buffer_used + 2, finder |-> last])
            /\ g_con' = [g_con EXCEPT ![c] =
                 [use |-> TRUE, closed_by_remote |-> FALSE,
                  ri |-> <<new[1]>>, wi |-> <<new[2]>>]]
  <2>1. g_con \in [Conns -> Session] /\ Headed(g_con[c]) /\ ~g_con[c].use
    BY <1>8 DEF IInv, FirstBlank
  <2>2. PICK x, y : x = new[1] /\ y = new[2]
    OBVIOUS
  <2>3. /\ x \in Bufs /\ y \in Bufs /\ Fresh(g_mem_buffer, 2, new)
    <3>1. 1 \in 1 .. 2 /\ 2 \in 1 .. 2
      OBVIOUS
    <3>2. new \in [1 .. 2 -> Free] /\ \A i, j \in 1 .. 2 : new[i] = new[j] => i = j
      BY <1>4, <1>10
    <3> QED BY <3>1, <3>2, <2>2 DEF Fresh, Free
  <2>4. PICK s : s = [use |-> TRUE, closed_by_remote |-> FALSE, ri |-> <<x>>, wi |-> <<y>>]
    OBVIOUS
  <2>5. /\ s \in Session /\ s.use = TRUE /\ s.closed_by_remote = FALSE
        /\ s.ri = <<x>> /\ s.wi = <<y>>
    BY <2>3, <2>4 DEF Session
  <2>6. g_con' = [g_con EXCEPT ![c] = s]
    BY <2>2, <2>4, <1>10
  <2>7. /\ g_mem_buffer' = found /\ g_mem_buffer_used' = g_mem_buffer_used + 2
        /\ g_mem_buffer_finder' = last
    BY <1>10 DEF Becomes
  <2>8. PICK con, con2, k1, k2 : /\ con = g_con /\ con2 = g_con'
                                 /\ k1 = <<c, "ri">> /\ k2 = <<c, "wi">>
    OBVIOUS
  <2>9. Moved(con, con2, c, s)
    <3>1. con \in [Conns -> Session] /\ c \in Conns /\ s \in Session
          /\ con2 = [con EXCEPT ![c] = s]
      BY <2>1, <2>5, <2>6, <2>8
    <3> QED BY ONLY <3>1, SessionChanges
  <2>10. /\ Link(con2)[k1] = <<x>> /\ Link(con2)[k2] = <<y>>
         /\ Link(con2) \in [Keys -> Seq(Bufs)]
         /\ Link(con)[k1] = <<>> /\ Link(con)[k2] = <<>>
         /\ k1 \in Keys /\ k2 \in Keys /\ k1 # k2
    <3>1. g_con[c].ri = <<>> /\ g_con[c].wi = <<>>
      BY <2>1 DEF Headed
    <3> QED BY <3>1, <2>1, <2>5, <2>8, <2>9, LinkFacts DEF Moved
  <2>11. PICK link, link2, mem, mem2 : /\ link = Link(con) /\ link2 = Link(con2)
                                       /\ mem = g_mem_buffer /\ mem2 = g_mem_buffer'
    OBVIOUS
  <2>12. Accepted(mem, mem2, link, link2, k1, k2, new)
    <3>1. mem2 = [b \in Bufs |-> IF b \in {new[1], new[2]} THEN Empty ELSE mem[b]]
      BY <2>7, <2>11, <1>7
    <3> QED BY <3>1, <2>2, <2>3, <2>8, <2>9, <2>10, <2>11 DEF Accepted, Moved
  <2>13. /\ Pool(mem2, g_mem_buffer_used + 2, link2)
         /\ Text(mem2, link2[k1]) = <<>> /\ Text(mem2, link2[k2]) = <<>>
         /\ \A l \in Keys : l # k1 /\ l # k2 => Text(mem2, link[l]) = Text(mem, link[l])
    <3>1. Pool(mem, g_mem_buffer_used, link)
      BY <2>8, <2>11 DEF IInv
    <3> QED BY ONLY <3>1, <2>12, AcceptStep
  <2>14. Streamed(c, s)
    <3>1. Pool(g_mem_buffer', g_mem_buffer_used', Link(g_con')) /\ g_mem_buffer_finder' \in Bufs
      BY <2>7, <2>8, <2>11, <2>13, <1>6
    <3>2. Aloof(g_mem_buffer, g_mem_buffer', g_con, c)
      BY <2>8, <2>11, <2>13 DEF Aloof
    <3>3. Headed(s)
      BY <2>5 DEF Headed
    <3> QED BY ONLY <3>1, <3>2, <3>3, <2>5, <2>6, IInv, c \in Conns, SessionStep
  <2>15. IInv' /\ open' = [open EXCEPT ![c] = TRUE] /\ eof' = [eof EXCEPT ![c] = FALSE]
    BY <2>5, <2>14 DEF Streamed
  <2>16. in' = in /\ out' = out
    <3>1. in = Ins(g_mem_buffer, g_con) /\ out = Outs(g_mem_buffer, g_con)
      BY StreamsNow
    <3>2. in[c] = <<>> /\ out[c] = <<>>
      <4>1. g_con[c].ri = <<>> /\ g_con[c].wi = <<>>
        BY <2>1 DEF Headed
      <4> QED BY <3>1, <4>1, EmptyText DEF Ins, Outs
    <3>3. Text(mem2, s.ri) = <<>> /\ Text(mem2, s.wi) = <<>>
      BY <2>5, <2>10, <2>11, <2>13
    <3>4. in' = [in EXCEPT ![c] = in[c]] /\ out' = [out EXCEPT ![c] = out[c]]
      BY <3>2, <3>3, <2>11, <2>14 DEF Streamed
    <3> QED BY <3>1, <3>4 DEF Ins, Outs
  <2>17. ~open[c]
    BY <2>1 DEF open
  <2> QED BY <2>15, <2>16, <2>17 DEF Lines!Open
<1> QED BY <1>8, <1>9, <1>10

(* tcpstruct_accept reads from c.                                          *)
LEMMA ReadStep ==
  ASSUME IInv, NEW c \in Conns, Read(c)
  PROVE  IInv' /\ (Lines!Finish(c) \/ \E d \in Reads \union Writes : Lines!Arrive(c, d))
<1>1. Polled(c) /\ g_con[c].use /\ ~g_con[c].closed_by_remote
  BY DEF Read, Polled
<1>2. CASE MarkRemoteClosed(c)
  BY <1>1, <1>2, MarkStep
<1>3. CASE ~MarkRemoteClosed(c)
  <2>1. PICK d \in Reads :
          IF Appendable(d)
            THEN LET r == AppendMemBufList(g_con[c].ri, d) IN
                 Becomes(r) /\ g_con' = [g_con EXCEPT ![c].ri = r.chain]
            ELSE MarkRemoteClosed(c)
    BY <1>3 DEF Read
  <2>2. PICK ch, r : ch = g_con[c].ri /\ r = AppendMemBufList(ch, d)
    OBVIOUS
  <2>3. Appendable(d) /\ Becomes(r) /\ g_con' = [g_con EXCEPT ![c].ri = r.chain]
    BY <2>1, <2>2, <1>3
  <2>4. ch # <<>>
    BY <2>2, <1>1 DEF IInv, Headed
  <2>5. ch = Link(g_con)[<<c, "ri">>] /\ in[c] = Text(g_mem_buffer, ch)
    <3>1. g_con \in [Conns -> Session]
      BY DEF IInv
    <3> QED BY <3>1, <2>2, LinkFacts, StreamsHold
  <2>6. Steps(c, "ri", r, Text(g_mem_buffer, ch) \o d)
    <3>1. d \in Reads \union Writes /\ "ri" \in {"ri", "wi"}
      OBVIOUS
    <3> QED BY ONLY <3>1, <2>2, <2>3, <2>4, <2>5, IInv, c \in Conns, AppendSteps
  <2>7. PICK t : t = in[c] \o d
    OBVIOUS
  <2>8. Steps(c, "ri", r, t)
    BY <2>5, <2>6, <2>7
  <2>9. IInv' /\ open' = open /\ eof' = eof /\ out' = out /\ in' = [in EXCEPT ![c] = t]
    BY ONLY <2>3, <2>8, <1>1, IInv, c \in Conns, RiStep
  <2>10. open[c] /\ ~eof[c]
    BY <1>1 DEF open, eof
  <2> QED BY <2>7, <2>9, <2>10 DEF Lines!Arrive
<1> QED BY <1>2, <1>3

(* tcpstruct_accept writes to c.                                           *)
LEMMA SendStep ==
  ASSUME IInv, NEW c \in Conns, Send(c)
  PROVE  IInv' /\ (Lines!Finish(c) \/ \E n \in 1 .. Len(out[c]) : Lines!Transmit(c, n))
<1>1. Polled(c) /\ g_con[c].use /\ ~g_con[c].closed_by_remote
  BY DEF Send, Polled
<1>2. CASE MarkRemoteClosed(c)
  BY <1>1, <1>2, MarkStep
<1>3. CASE ~MarkRemoteClosed(c)
  <2>1. PICK n \in 1 .. PeekSize :
          /\ n <= Len(Contents(g_con[c].wi))
          /\ LET r == Consume(g_con[c].wi, n) IN
             Becomes(r) /\ g_con' = [g_con EXCEPT ![c].wi = r.chain]
    BY <1>3 DEF Send
  <2>2. PICK ch, r : ch = g_con[c].wi /\ r = Consume(ch, n)
    OBVIOUS
  <2>3. Becomes(r) /\ g_con' = [g_con EXCEPT ![c].wi = r.chain]
    BY <2>1, <2>2
  <2>4. ch # <<>>
    BY <2>2, <1>1 DEF IInv, Headed
  <2>5. /\ ch = Link(g_con)[<<c, "wi">>] /\ out[c] = Text(g_mem_buffer, ch)
        /\ out[c] = Contents(ch) /\ out[c] \in Seq(Byte)
    <3>1. g_con \in [Conns -> Session]
      BY DEF IInv
    <3> QED BY <3>1, <2>2, LinkFacts, StreamsHold
  <2>6. Steps(c, "wi", r, Drop(Text(g_mem_buffer, ch), n))
    <3>1. n \in Nat /\ "wi" \in {"ri", "wi"}
      BY <2>1
    <3> QED BY ONLY <3>1, <2>2, <2>3, <2>4, <2>5, IInv, c \in Conns, ConsumeSteps
  <2>7. PICK t : t = SubSeq(out[c], n + 1, Len(out[c]))
    OBVIOUS
  <2>8. Steps(c, "wi", r, t)
    BY <2>5, <2>6, <2>7 DEF Drop
  <2>9. IInv' /\ open' = open /\ eof' = eof /\ in' = in /\ out' = [out EXCEPT ![c] = t]
    BY ONLY <2>3, <2>8, <1>1, IInv, c \in Conns, WiStep
  <2>10. open[c] /\ ~eof[c]
    BY <1>1 DEF open, eof
  <2>11. n \in 1 .. Len(out[c])
    <3>1. Len(out[c]) \in Nat /\ n <= Len(out[c])
      BY <2>1, <2>2, <2>5, LenProperties
    <3> QED BY <3>1, <2>1
  <2>12. Lines!Transmit(c, n)
    BY <2>7, <2>9, <2>10 DEF Lines!Transmit
  <2> QED BY <2>9, <2>11, <2>12
<1> QED BY <1>2, <1>3

(* tcpstruct_write queues a message for c.                                 *)
LEMMA WriteStep ==
  ASSUME IInv, NEW c \in Conns, Write(c)
  PROVE  IInv' /\ \E d \in Reads \union Writes : Lines!Enqueue(c, d)
<1>1. g_con[c].use
  BY DEF Write
<1>2. PICK d \in Writes :
        /\ Appendable(d)
        /\ LET r == AppendMemBufList(g_con[c].wi, d) IN
           Becomes(r) /\ g_con' = [g_con EXCEPT ![c].wi = r.chain]
  BY DEF Write
<1>3. PICK ch, r : ch = g_con[c].wi /\ r = AppendMemBufList(ch, d)
  OBVIOUS
<1>4. Appendable(d) /\ Becomes(r) /\ g_con' = [g_con EXCEPT ![c].wi = r.chain]
  BY <1>2, <1>3
<1>5. ch # <<>>
  BY <1>1, <1>3 DEF IInv, Headed
<1>6. ch = Link(g_con)[<<c, "wi">>] /\ out[c] = Text(g_mem_buffer, ch)
  <2>1. g_con \in [Conns -> Session]
    BY DEF IInv
  <2> QED BY <2>1, <1>3, LinkFacts, StreamsHold
<1>7. Steps(c, "wi", r, Text(g_mem_buffer, ch) \o d)
  <2>1. d \in Reads \union Writes /\ "wi" \in {"ri", "wi"}
    OBVIOUS
  <2> QED BY ONLY <2>1, <1>3, <1>4, <1>5, <1>6, IInv, c \in Conns, AppendSteps
<1>8. PICK t : t = out[c] \o d
  OBVIOUS
<1>9. Steps(c, "wi", r, t)
  BY <1>6, <1>7, <1>8
<1>10. IInv' /\ open' = open /\ eof' = eof /\ in' = in /\ out' = [out EXCEPT ![c] = t]
  BY ONLY <1>1, <1>4, <1>9, IInv, c \in Conns, WiStep
<1>11. open[c]
  BY <1>1 DEF open
<1> QED BY <1>8, <1>10, <1>11 DEF Lines!Enqueue

(* tcpstruct_readline_chop and the dispatch of what it found.              *)
LEMMA LineStep ==
  ASSUME IInv, NEW c \in Conns, Line(c)
  PROVE  IInv' /\ (Lines!GiveUp(c) \/ \E n \in 0 .. Len(in[c]) : Lines!Deliver(c, n))
<1>1. g_con[c].use /\ open[c]
  BY DEF Line, open
<1>2. PICK s : s = Contents(g_con[c].ri)
  OBVIOUS
<1>3. in[c] = s
  BY <1>2, StreamsHold
<1>4. \/ \E n \in 0 .. Len(s) :
           /\ Lines!LineOf(s, n) /\ n <= MaxLine
           /\ SubSeq(s, 1, n) \in Bad /\ tcpstruct_close(c)
      \/ \E n \in 0 .. Len(s) :
           /\ Lines!LineOf(s, n) /\ n <= MaxLine
           /\ SubSeq(s, 1, n) \notin Bad
           /\ LET r == Consume(g_con[c].ri, n + 1) IN
              Becomes(r) /\ g_con' = [g_con EXCEPT ![c].ri = r.chain]
      \/ \E n \in 0 .. Len(s) : Lines!LineOf(s, n) /\ n > MaxLine /\ tcpstruct_close(c)
      \/ ~Lines!HasLine(s) /\ g_con[c].closed_by_remote /\ tcpstruct_close(c)
  <2>1. \/ \E n \in 0 .. Len(s) :
             /\ Lines!LineOf(s, n) /\ n <= MaxLine
             /\ IF SubSeq(s, 1, n) \in Bad
                  THEN tcpstruct_close(c)
                  ELSE LET r == Consume(g_con[c].ri, n + 1) IN
                       Becomes(r) /\ g_con' = [g_con EXCEPT ![c].ri = r.chain]
        \/ \E n \in 0 .. Len(s) : Lines!LineOf(s, n) /\ n > MaxLine /\ tcpstruct_close(c)
        \/ ~Lines!HasLine(s) /\ g_con[c].closed_by_remote /\ tcpstruct_close(c)
    BY <1>2, Zenon DEF Line
  <2> QED BY <2>1, Zenon
<1>5. tcpstruct_close(c) => IInv' /\ Lines!Discard(c)
  BY DiscardStep
<1>6. ASSUME NEW n \in 0 .. Len(s), Lines!LineOf(s, n), n <= MaxLine,
             SubSeq(s, 1, n) \in Bad, tcpstruct_close(c)
      PROVE  IInv' /\ Lines!Deliver(c, n)
  BY <1>1, <1>3, <1>5, <1>6 DEF Lines!Deliver
<1>7. ASSUME NEW n \in 0 .. Len(s), Lines!LineOf(s, n), n > MaxLine, tcpstruct_close(c)
      PROVE  IInv' /\ Lines!GiveUp(c)
  BY <1>1, <1>3, <1>5, <1>7, Zenon DEF Lines!GiveUp
<1>8. ASSUME ~Lines!HasLine(s), g_con[c].closed_by_remote, tcpstruct_close(c)
      PROVE  IInv' /\ Lines!GiveUp(c)
  <2>1. eof[c]
    BY <1>8 DEF eof
  <2> QED BY <2>1, <1>1, <1>3, <1>5, <1>8, Zenon DEF Lines!GiveUp
<1>9. ASSUME NEW n \in 0 .. Len(s), Lines!LineOf(s, n), n <= MaxLine, SubSeq(s, 1, n) \notin Bad,
             LET r == Consume(g_con[c].ri, n + 1) IN
             Becomes(r) /\ g_con' = [g_con EXCEPT ![c].ri = r.chain]
      PROVE  IInv' /\ Lines!Deliver(c, n)
  <2>1. PICK ch, m, r : ch = g_con[c].ri /\ m = n + 1 /\ r = Consume(ch, m)
    OBVIOUS
  <2>2. Becomes(r) /\ g_con' = [g_con EXCEPT ![c].ri = r.chain]
    BY <2>1, <1>9
  <2>3. ch # <<>>
    BY <2>1, <1>1 DEF IInv, Headed
  <2>4. ch = Link(g_con)[<<c, "ri">>] /\ s = Text(g_mem_buffer, ch)
    <3>1. g_con \in [Conns -> Session]
      BY DEF IInv
    <3> QED BY <3>1, <2>1, <1>3, LinkFacts, StreamsHold
  <2>5. Steps(c, "ri", r, Drop(s, m))
    <3>1. m \in Nat /\ "ri" \in {"ri", "wi"}
      BY <2>1
    <3>2. Steps(c, "ri", r, Drop(Text(g_mem_buffer, ch), m))
      BY ONLY <3>1, <2>1, <2>2, <2>3, <2>4, IInv, c \in Conns, ConsumeSteps
    <3> QED BY <3>2, <2>4
  <2>6. PICK t : t = SubSeq(s, n + 2, Len(s))
    OBVIOUS
  <2>7. Steps(c, "ri", r, t)
    <3>1. m + 1 = n + 2
      BY <2>1
    <3> QED BY <3>1, <2>5, <2>6 DEF Drop
  <2>8. IInv' /\ open' = open /\ eof' = eof /\ out' = out /\ in' = [in EXCEPT ![c] = t]
    BY ONLY <2>2, <2>7, <1>1, IInv, c \in Conns, RiStep
  <2> QED BY <2>6, <2>8, <1>1, <1>3, <1>9 DEF Lines!Deliver
<1> QED BY <1>3, <1>4, <1>6, <1>7, <1>8, <1>9

-----------------------------------------------------------------------------
(* The initial states: no connection, every buffer free.                   *)
LEMMA InitOK ==
  ASSUME Init
  PROVE  IInv /\ Lines!StreamsInit
<1>1. g_con = [c \in Conns |-> NoSession]
  BY DEF Init
<1>2. NoSession \in Session /\ NoSession.ri = <<>> /\ NoSession.wi = <<>>
      /\ NoSession.use = FALSE /\ NoSession.closed_by_remote = FALSE
  <2>1. <<>> \in Seq(Bufs)
    BY EmptySeq
  <2> QED BY <2>1 DEF NoSession, Session
<1>3. g_con \in [Conns -> Session] /\ \A c \in Conns : Headed(g_con[c])
  BY <1>1, <1>2 DEF Headed
<1>4. PICK link : link = Link(g_con)
  OBVIOUS
<1>5. \A k \in Keys : link[k] = <<>>
  BY <1>1, <1>2, <1>4 DEF Link, Keys
<1>6. link \in [Keys -> Seq(Bufs)]
  <2>1. link = [k \in Keys |-> link[k]] /\ <<>> \in Seq(Bufs)
    BY <1>4, EmptySeq DEF Link
  <2> QED BY <2>1, <1>5
<1>7. \A k \in Keys, i \in Nat, b \in Bufs : ~Holds(link, k, i, b)
  <2>1. Len(<<>>) = 0
    BY EmptySeq
  <2> QED BY <2>1, <1>5 DEF Holds
<1>8. g_mem_buffer = [b \in Bufs |-> Blank] /\ ~Blank.use /\ Len(Blank.data) <= BufSize
      /\ Blank \in Buffer
  <2>1. <<>> \in Seq(Byte) /\ Len(<<>>) = 0
    BY EmptySeq
  <2> QED BY <2>1, MemBufferAssumption DEF Init, Blank, Buffer
<1>9. Counted(g_mem_buffer, g_mem_buffer_used)
  <2>1. {b \in Bufs : ~g_mem_buffer[b].use} = Bufs
    BY <1>8
  <2>2. g_mem_buffer_used = 0 /\ Size - Size = 0
    BY MemBufferAssumption DEF Init
  <2> QED BY <2>1, <2>2, BufsFinite DEF Counted
<1>10. Pool(g_mem_buffer, g_mem_buffer_used, link)
  <2>1. InUse(g_mem_buffer, link) /\ Apart(link)
        /\ Full(g_mem_buffer, link)
    BY <1>7 DEF InUse, Apart, Full
  <2>2. Reached(g_mem_buffer, link)
    BY <1>8 DEF Reached
  <2> QED BY <2>1, <2>2, <1>6, <1>8, <1>9 DEF Pool
<1>11. g_mem_buffer_finder \in Bufs
  BY MemBufferAssumption DEF Init, Bufs
<1>12. Lines!StreamsInit
  <2>1. open = [c \in Conns |-> FALSE] /\ eof = [c \in Conns |-> FALSE]
    BY <1>1, <1>2 DEF open, eof
  <2>2. in = [c \in Conns |-> <<>>] /\ out = [c \in Conns |-> <<>>]
    BY <1>1, <1>2, StreamsNow, EmptyText DEF Ins, Outs
  <2> QED BY <2>1, <2>2 DEF Lines!StreamsInit
<1> QED BY <1>3, <1>4, <1>10, <1>11, <1>12 DEF IInv

(* Every step preserves the invariant and is a step of the streams, or     *)
(* leaves them alone.                                                      *)
LEMMA NextOK ==
  ASSUME IInv, [Next]_vars
  PROVE  IInv' /\ [Lines!StreamsNext]_(Lines!streams)
<1>1. ASSUME NEW c \in Conns, Read(c) \/ Send(c) \/ Accept(c) \/ Line(c) \/ Write(c)
      PROVE  IInv' /\ [Lines!StreamsNext]_(Lines!streams)
  <2>1. CASE Read(c)
    <3>1. IInv' /\ (Lines!Finish(c) \/ \E d \in Reads \union Writes : Lines!Arrive(c, d))
      BY <2>1, ReadStep
    <3> QED BY <3>1, Zenon DEF Lines!StreamsNext
  <2>2. CASE Send(c)
    <3>1. IInv' /\ (Lines!Finish(c) \/ \E n \in 1 .. Len(out[c]) : Lines!Transmit(c, n))
      BY <2>2, SendStep
    <3> QED BY <3>1, Zenon DEF Lines!StreamsNext
  <2>3. CASE Accept(c)
    <3>1. IInv' /\ (Lines!Open(c) \/ UNCHANGED Lines!streams)
      BY <2>3, OpenStep
    <3> QED BY <3>1, Zenon DEF Lines!StreamsNext
  <2>4. CASE Line(c)
    <3>1. IInv' /\ (Lines!GiveUp(c) \/ \E n \in 0 .. Len(in[c]) : Lines!Deliver(c, n))
      BY <2>4, LineStep
    <3> QED BY <3>1, Zenon DEF Lines!StreamsNext
  <2>5. CASE Write(c)
    <3>1. IInv' /\ \E d \in Reads \union Writes : Lines!Enqueue(c, d)
      BY <2>5, WriteStep
    <3> QED BY <3>1, Zenon DEF Lines!StreamsNext
  <2> QED BY <1>1, <2>1, <2>2, <2>3, <2>4, <2>5
<1>2. CASE UNCHANGED vars
  <2>1. /\ g_mem_buffer' = g_mem_buffer /\ g_mem_buffer_used' = g_mem_buffer_used
        /\ g_mem_buffer_finder' = g_mem_buffer_finder /\ g_con' = g_con
    BY <1>2 DEF vars, pool
  <2>2. IInv'
    BY <2>1 DEF IInv
  <2>3. open' = open /\ eof' = eof /\ in' = in /\ out' = out
    BY <2>1, StreamsNow DEF open, eof
  <2> QED BY <2>2, <2>3 DEF Lines!streams
<1> QED BY <1>1, <1>2 DEF Next

(* The invariant holds in every state.                                     *)
THEOREM MemBufferInvariant == Spec => []IInv
<1>1. Init => IInv
  BY InitOK
<1>2. IInv /\ [Next]_vars => IInv'
  BY NextOK
<1> QED BY <1>1, <1>2, PTL DEF Spec

(* The chains implement the byte streams.                                  *)
THEOREM MemBufferRefines == Spec => RefinesByteStreams
<1>1. Init => Lines!StreamsInit
  BY InitOK
<1>2. IInv /\ [Next]_vars => [Lines!StreamsNext]_(Lines!streams)
  BY NextOK
<1> QED BY <1>1, <1>2, MemBufferInvariant, PTL DEF Spec, RefinesByteStreams, Lines!StreamsSpec

-----------------------------------------------------------------------------
(* No chain has more buffers than there are.                               *)
LEMMA ChainBounded ==
  ASSUME NEW mem, NEW used, NEW link, Pool(mem, used, link), NEW k \in Keys
  PROVE  Len(link[k]) <= Size
<1>1. PICK ch, m, S : ch = link[k] /\ m = Len(ch) /\ S = 1 .. m
  OBVIOUS
<1>2. /\ m \in Nat /\ DOMAIN ch = 1 .. m
      /\ \A i \in 1 .. m : ch[i] \in Bufs
      /\ \A i, j \in 1 .. m : ch[i] = ch[j] => i = j
  BY <1>1, PoolFacts
<1>3. PICK f : f = [i \in S |-> ch[i]]
  OBVIOUS
<1>4. f \in Injection(S, Bufs)
  BY <1>1, <1>2, <1>3 DEF Injection, IsInjective
<1>5. IsFiniteSet(S) /\ Cardinality(S) = m
  <2>1. PICK o \in Int, x \in Int : o = 1 /\ x = m
    BY <1>2
  <2>2. IsFiniteSet(o .. x) /\ Cardinality(o .. x) = IF o > x THEN 0 ELSE x - o + 1
    BY FS_Interval
  <2> QED BY <2>1, <2>2, <1>1, <1>2
<1>6. Cardinality(S) <= Cardinality(Bufs)
  <2>1. IsFiniteSet(Bufs)
    BY BufsFinite
  <2> QED BY ONLY <2>1, <1>4, FS_Injection
<1> QED BY <1>1, <1>5, <1>6, BufsFinite

(* The invariant gives the types,                                          *)
LEMMA TypesOK ==
  ASSUME IInv
  PROVE  TypeOK
<1>1. /\ g_mem_buffer \in [Bufs -> Buffer] /\ (\A b \in Bufs : Len(g_mem_buffer[b].data) <= BufSize)
      /\ Counted(g_mem_buffer, g_mem_buffer_used)
      /\ Pool(g_mem_buffer, g_mem_buffer_used, Link(g_con))
      /\ g_mem_buffer_finder \in Bufs /\ g_con \in [Conns -> Session]
  BY DEF IInv, Pool
<1>2. g_mem_buffer_used \in 0 .. Size
  <2>1. g_mem_buffer_used = Size - Cardinality(Free) /\ Cardinality(Free) \in 0 .. Size
    BY <1>1, FreeFinite DEF Counted, Free
  <2> QED BY <2>1, MemBufferAssumption
<1>3. ASSUME NEW b \in Bufs PROVE g_mem_buffer[b].use \in BOOLEAN
  BY <1>1 DEF Buffer
<1>4. ASSUME NEW c \in Conns
      PROVE  /\ g_con[c].use \in BOOLEAN /\ g_con[c].closed_by_remote \in BOOLEAN
             /\ Chain(g_con[c].ri) /\ Chain(g_con[c].wi)
  <2>1. /\ g_con[c].use \in BOOLEAN /\ g_con[c].closed_by_remote \in BOOLEAN
        /\ g_con[c].ri \in Seq(Bufs) /\ g_con[c].wi \in Seq(Bufs)
    BY <1>1 DEF Session
  <2>2. Len(g_con[c].ri) <= Size /\ Len(g_con[c].wi) <= Size
    <3>1. PICK link, k1, k2 : link = Link(g_con) /\ k1 = <<c, "ri">> /\ k2 = <<c, "wi">>
      OBVIOUS
    <3>2. k1 \in Keys /\ k2 \in Keys /\ link[k1] = g_con[c].ri /\ link[k2] = g_con[c].wi
      BY <3>1, <1>1, LinkFacts
    <3>3. Pool(g_mem_buffer, g_mem_buffer_used, link)
      BY <3>1, <1>1
    <3>4. Len(link[k1]) <= Size
      BY ONLY <3>2, <3>3, ChainBounded
    <3>5. Len(link[k2]) <= Size
      BY ONLY <3>2, <3>3, ChainBounded
    <3> QED BY <3>2, <3>4, <3>5
  <2> QED BY <2>1, <2>2 DEF Chain
<1> QED BY <1>1, <1>2, <1>3, <1>4 DEF TypeOK

(* The place <<c, x, i>> of buffer b.                                      *)
LEMMA PlaceFacts ==
  ASSUME IInv, NEW b \in Bufs, NEW c \in Conns, NEW x \in {"ri", "wi"}, NEW i \in Nat
  PROVE  <<c, x, i>> \in Places(b) <=> Holds(Link(g_con), <<c, x>>, i, b)
<1>1. PICK ch, k, link : ch = g_con[c][x] /\ k = <<c, x>> /\ link = Link(g_con)
  OBVIOUS
<1>2. k \in Keys /\ link[k] = ch
  <2>1. g_con \in [Conns -> Session]
    BY DEF IInv
  <2>2. Link(g_con)[<<c, "ri">>] = g_con[c].ri /\ Link(g_con)[<<c, "wi">>] = g_con[c].wi
    BY <2>1, LinkFacts
  <2> QED BY <2>2, <1>1 DEF Keys
<1>3. Pool(g_mem_buffer, g_mem_buffer_used, link)
  BY <1>1 DEF IInv
<1>4. PICK m : m = Len(ch)
  OBVIOUS
<1>5. m \in Nat /\ DOMAIN ch = 1 .. m /\ m <= Size
  <2>1. ch = link[k]
    BY <1>2
  <2>2. m \in Nat /\ DOMAIN ch = 1 .. m
    BY ONLY <2>1, <1>2, <1>3, <1>4, PoolFacts
  <2>3. Len(link[k]) <= Size
    BY ONLY <1>2, <1>3, ChainBounded
  <2> QED BY <2>1, <2>2, <2>3, <1>4
<1>6. PICK p : p = <<c, x, i>>
  OBVIOUS
<1>7. p[1] = c /\ p[2] = x /\ p[3] = i
  BY <1>6
<1>8. p \in Places(b) <=> i \in 1 .. Size /\ i \in DOMAIN ch /\ ch[i] = b
  <2>1. p \in Conns \X {"ri", "wi"} \X (1 .. Size) <=> i \in 1 .. Size
    BY <1>6
  <2>2. p \in Places(b) <=> /\ p \in Conns \X {"ri", "wi"} \X (1 .. Size)
                            /\ p[3] \in DOMAIN g_con[p[1]][p[2]] /\ g_con[p[1]][p[2]][p[3]] = b
    BY DEF Places
  <2> QED BY <2>1, <2>2, <1>1, <1>7
<1>9. i \in 1 .. Size /\ i \in DOMAIN ch <=> i \in 1 .. m
  BY <1>5, MemBufferAssumption
<1> QED BY <1>1, <1>2, <1>4, <1>6, <1>8, <1>9 DEF Holds

(* the ownership the runs check: the one place of a buffer in use is the   *)
(* one the invariant names,                                                *)
LEMMA OwnedOK ==
  ASSUME IInv
  PROVE  BuffersOwned
<1>1. PICK link, mem : link = Link(g_con) /\ mem = g_mem_buffer
  OBVIOUS
<1>2. /\ InUse(mem, link) /\ Apart(link) /\ Reached(mem, link)
      /\ Counted(mem, g_mem_buffer_used)
  BY <1>1 DEF IInv, Pool
<1>3. ASSUME NEW b \in Bufs, NEW p \in Places(b)
      PROVE  \E c \in Conns, x \in {"ri", "wi"}, i \in Nat :
               p = <<c, x, i>> /\ Holds(link, <<c, x>>, i, b)
  <2>1. PICK c \in Conns, x \in {"ri", "wi"}, i \in 1 .. Size : p = <<c, x, i>>
    BY DEF Places
  <2>2. i \in Nat /\ <<c, x, i>> \in Places(b)
    BY <2>1, MemBufferAssumption
  <2> QED BY <2>1, <2>2, <1>1, PlaceFacts
<1>4. ASSUME NEW b \in Bufs, ~mem[b].use PROVE Cardinality(Places(b)) = 0
  <2>1. Places(b) = {}
    <3>1. ASSUME NEW p \in Places(b) PROVE FALSE
      <4>1. PICK c \in Conns, x \in {"ri", "wi"}, i \in Nat : Holds(link, <<c, x>>, i, b)
        BY <1>3
      <4> QED BY <4>1, <1>2, <1>4 DEF InUse, Keys
    <3> QED BY <3>1
  <2> QED BY <2>1, FS_EmptySet
<1>5. ASSUME NEW b \in Bufs, mem[b].use PROVE Cardinality(Places(b)) = 1
  <2>1. PICK k \in Keys, i \in Nat : Holds(link, k, i, b)
    BY <1>2, <1>5 DEF Reached
  <2>2. PICK c \in Conns, x \in {"ri", "wi"} : k = <<c, x>>
    BY DEF Keys
  <2>3. PICK q : q = <<c, x, i>>
    OBVIOUS
  <2>4. q \in Places(b)
    BY <2>1, <2>2, <2>3, <1>1, PlaceFacts
  <2>5. ASSUME NEW p \in Places(b) PROVE p = q
    <3>1. PICK d \in Conns, y \in {"ri", "wi"}, j \in Nat :
            p = <<d, y, j>> /\ Holds(link, <<d, y>>, j, b)
      BY <1>3
    <3>2. PICK l \in Keys : l = <<d, y>>
      BY DEF Keys
    <3>3. l = k /\ j = i
      BY <3>1, <3>2, <2>1, <1>2 DEF Apart
    <3> QED BY <3>1, <3>2, <3>3, <2>2, <2>3
  <2>6. Places(b) = {q}
    BY <2>4, <2>5
  <2> QED BY <2>6, FS_Singleton
<1>6. g_mem_buffer_used = Size - Cardinality(Free)
  BY <1>1, <1>2 DEF Counted, Free
<1> QED BY <1>1, <1>4, <1>5, <1>6 DEF BuffersOwned

(* and that only heads are empty.                                          *)
LEMMA HeadsOK ==
  ASSUME IInv
  PROVE  NothingEmptyBehindHead
<1>1. ASSUME NEW c \in Conns, g_con[c].use, NEW x \in {"ri", "wi"}, NEW ch,
             ch = Link(g_con)[<<c, x>>], ch # <<>>, NEW i \in 2 .. Len(ch)
      PROVE  g_mem_buffer[ch[i]].data # <<>>
  <2>1. PICK k, m : k = <<c, x>> /\ m = Len(ch)
    OBVIOUS
  <2>2. /\ k \in Keys /\ ch = Link(g_con)[k]
        /\ Pool(g_mem_buffer, g_mem_buffer_used, Link(g_con))
    BY <2>1, <1>1 DEF Keys, IInv
  <2>3. m \in Nat /\ \A j \in 1 .. m : ch[j] \in Bufs /\ Holds(Link(g_con), k, j, ch[j])
    BY ONLY <2>1, <2>2, PoolFacts
  <2>4. i \in 1 .. m /\ i \in Nat /\ i >= 2
    BY <2>1, <2>3
  <2>5. Full(g_mem_buffer, Link(g_con))
    BY <2>2 DEF Pool
  <2> QED BY <2>2, <2>3, <2>4, <2>5 DEF Full
<1>2. ASSUME NEW c \in Conns, g_con[c].use
      PROVE  /\ g_con[c].ri = Link(g_con)[<<c, "ri">>] /\ g_con[c].wi = Link(g_con)[<<c, "wi">>]
             /\ g_con[c].ri # <<>> /\ g_con[c].wi # <<>>
  BY <1>2, LinkFacts DEF IInv, Headed
<1>3. ASSUME NEW c \in Conns, g_con[c].use, NEW ch \in {g_con[c].ri, g_con[c].wi}
      PROVE  ch # <<>> /\ \A i \in 2 .. Len(ch) : g_mem_buffer[ch[i]].data # <<>>
  <2>1. PICK x \in {"ri", "wi"} : ch = Link(g_con)[<<c, x>>]
    BY <1>2, <1>3
  <2>2. ch # <<>>
    BY <1>2, <1>3
  <2>3. ASSUME NEW i \in 2 .. Len(ch) PROVE g_mem_buffer[ch[i]].data # <<>>
    BY ONLY <2>1, <2>2, <2>3, <1>1, <1>3, c \in Conns
  <2> QED BY <2>2, <2>3
<1> QED BY <1>3 DEF NothingEmptyBehindHead

(* Every state has its types.                                              *)
THEOREM MemBufferTypeOK == Spec => []TypeOK
BY MemBufferInvariant, TypesOK, PTL

(* The pool and the chains agree: no buffer leaks, none is linked twice.   *)
THEOREM MemBufferBuffersOwned == Spec => []BuffersOwned
BY MemBufferInvariant, OwnedOK, PTL

(* Behind a head no buffer is kept empty.                                  *)
THEOREM MemBufferNothingEmptyBehindHead == Spec => []NothingEmptyBehindHead
BY MemBufferInvariant, HeadsOK, PTL
=============================================================================
