---------------------------- MODULE Battle_proofs ----------------------------
(***************************************************************************)
(* Theorems about Battle.  Good says of a state of the players and the     *)
(* battles what the properties need; each operation on such a state keeps  *)
(* it, because it only sends players away (LeaveStep), lets players in who *)
(* are in no battle (EnterStep), changes nothing but modes (ModeStep), or  *)
(* links and unlinks a battle in a chain (LinkStep, DeleteStep).           *)
(***************************************************************************)
EXTENDS Battle, FiniteSetTheorems, TLAPS

Character == [mode : CharModes, at : Battles \union {None}, watch : BOOLEAN,
              dead : BOOLEAN]
Slots == [use : BOOLEAN, mode : BattleModes, type : Types, turn : 0 .. 1,
          side : [Sides -> SUBSET Players],
          next : Battles \union {None}, before : Battles \union {None}]
States == [pl : [Players -> Character], bt : [Battles -> Slots]]

(* A free slot is blank.                                                   *)
Blank(s) == \A b \in Battles : ~s.bt[b].use => s.bt[b] = Unused

(* EntriesAgree, of any state, in two parts.                               *)
Agree(s) ==
  \A p \in Players :
    /\ \A b \in Battles : p \in Entries(s, b) <=> s.pl[p].at = b
    /\ s.pl[p].at # None => s.bt[s.pl[p].at].use
    /\ s.pl[p].at = None <=> s.pl[p].mode \in {"NONE", "FINAL"}

(* At most one player stands on both sides of a battle.                    *)
Single(s) ==
  \A b \in Battles : \A p, q \in s.bt[b].side[0] \intersect s.bt[b].side[1] : p = q

(* DuelsAreClosed, of any state; and only such a battle has a second side  *)
(* of players.                                                             *)
Seated(s) ==
  \A b \in Battles :
    /\ s.bt[b].type = "P_vs_P" => \A p \in Entries(s, b) : s.pl[p].mode # "RESCUE"
    /\ \A j \in Sides : Cardinality(s.bt[b].side[j]) <= PlayerMax
    /\ s.bt[b].side[1] # {} => s.bt[b].type = "P_vs_P"

(* pNext and pBefore name each other, and battles in use.                  *)
Linked(s) ==
  \A b, c \in Battles :
    /\ s.bt[b].next = c <=> s.bt[c].before = b
    /\ s.bt[b].next = c => s.bt[b].use /\ s.bt[c].use /\ s.bt[c].type = "WATCH"

(* No chain leads back to where it began: of any battles, one is in front. *)
Founded(s) == \A S \in SUBSET Battles : S # {} => \E b \in S : s.bt[b].before \notin S

(* Whoever watches hangs behind a battle that is no watch battle.          *)
Headed(s, b) ==
  \E m \in Battles : s.bt[m].use /\ s.bt[m].type # "WATCH" /\ b \in Behind(s, m)
AllHeaded(s) ==
  \A b \in Battles : s.bt[b].type = "WATCH" /\ Entries(s, b) # {} => Headed(s, b)

Good(s) ==
  /\ s \in States
  /\ Blank(s) /\ Agree(s) /\ Single(s) /\ Seated(s)
  /\ Linked(s) /\ Founded(s) /\ AllHeaded(s)

-----------------------------------------------------------------------------
(* The battles behind b are the least that contain what follows b and what *)
(* follows them.                                                           *)
LEMMA BehindLeast ==
  ASSUME NEW s, NEW b \in Battles,
         NEW S \in SUBSET Battles,
         \A d \in S \union {b} : s.bt[d].next \in S \union {None}
  PROVE  Behind(s, b) \subseteq S
<1> SUFFICES ASSUME NEW c \in Behind(s, b), c \notin S PROVE FALSE
  OBVIOUS
<1>1. S \in SUBSET (Battles \ {c})
  OBVIOUS
<1>2. \E d \in S \union {b} : s.bt[d].next \notin S \union {None}
  BY <1>1 DEF Behind
<1> QED BY <1>2

(* What follows b, or a battle behind b, is behind b.                      *)
LEMMA BehindFollows ==
  ASSUME NEW s, NEW b \in Battles, NEW d \in Behind(s, b) \union {b},
         s.bt[d].next \in Battles
  PROVE  s.bt[d].next \in Behind(s, b)
<1> DEFINE e == s.bt[d].next
<1> SUFFICES ASSUME NEW S \in SUBSET (Battles \ {e}),
                    \A x \in S \union {b} : s.bt[x].next \in S \union {None}
             PROVE  FALSE
  BY DEF Behind
<1>1. Behind(s, b) \subseteq S
  BY BehindLeast
<1>2. e \in S \union {None}
  BY <1>1
<1> QED BY <1>2, BattleAssumption DEF BattleAssumption

(* Whatever is behind a battle is a watch battle in use.                   *)
LEMMA BehindWatch ==
  ASSUME NEW s, s \in States, Linked(s), NEW b \in Battles
  PROVE  \A c \in Behind(s, b) : c \in Battles /\ s.bt[c].use /\ s.bt[c].type = "WATCH"
<1> DEFINE S == {c \in Battles : s.bt[c].use /\ s.bt[c].type = "WATCH"}
<1>1. \A d \in Battles : s.bt[d].next \in S \union {None}
  BY DEF States, Slots, Linked
<1>2. S \in SUBSET Battles
  OBVIOUS
<1>3. \A c \in S : s.bt[c].use /\ s.bt[c].type = "WATCH"
  OBVIOUS
<1> HIDE DEF S
<1>4. \A d \in S \union {b} : s.bt[d].next \in S \union {None}
  BY <1>1, <1>2
<1>5. Behind(s, b) \subseteq S
  BY <1>2, <1>4, BehindLeast
<1> QED BY <1>2, <1>3, <1>5

(* The chains of n are those of s.                                         *)
SameChains(s, n) ==
  \A b \in Battles : /\ n.bt[b].use <=> s.bt[b].use
                     /\ n.bt[b].type = s.bt[b].type
                     /\ n.bt[b].next = s.bt[b].next
                     /\ n.bt[b].before = s.bt[b].before

(* What is behind a battle depends on the pNext alone.                     *)
LEMMA BehindKept ==
  ASSUME NEW s, NEW n \in States, \A c \in Battles : n.bt[c].next = s.bt[c].next,
         NEW b \in Battles
  PROVE  Behind(s, b) \subseteq Behind(n, b)
<1> DEFINE S == Behind(n, b)
<1>1. S \in SUBSET Battles
  BY DEF Behind
<1>2. \A d \in S \union {b} : s.bt[d].next \in S \union {None}
  <2> SUFFICES ASSUME NEW d \in S \union {b} PROVE s.bt[d].next \in S \union {None}
    OBVIOUS
  <2>1. d \in Battles /\ n.bt[d].next \in Battles \union {None}
    BY <1>1 DEF States, Slots
  <2>2. s.bt[d].next = n.bt[d].next
    BY <2>1
  <2> QED BY <2>1, <2>2, BehindFollows
<1> HIDE DEF S
<1>3. Behind(s, b) \subseteq S
  BY <1>1, <1>2, BehindLeast
<1> QED BY <1>3 DEF S

(* Chains that are the same are as good.                                   *)
LEMMA ChainsKept ==
  ASSUME NEW s, NEW n \in States, SameChains(s, n), Linked(s), Founded(s)
  PROVE  /\ Linked(n) /\ Founded(n)
         /\ \A b \in Battles : Headed(s, b) => Headed(n, b)
<1>1. ASSUME NEW b \in Battles PROVE Behind(s, b) \subseteq Behind(n, b)
  BY BehindKept DEF SameChains
<1>2. Linked(n)
  BY DEF SameChains, Linked
<1>3. Founded(n)
  BY DEF SameChains, Founded
<1> QED BY <1>1, <1>2, <1>3 DEF SameChains, Headed

(* What Agree says of one player.                                          *)
LEMMA AgreeOne ==
  ASSUME NEW s, Good(s), NEW p \in Players
  PROVE  /\ s.pl[p].at \in Battles \union {None}
         /\ \A b \in Battles : p \in Entries(s, b) <=> s.pl[p].at = b
         /\ \A b \in Battles : s.pl[p].at = b => s.bt[b].use
<1>1. s.pl[p].at \in Battles \union {None}
  BY DEF Good, States, Character
<1>2. \A b \in Battles : p \in Entries(s, b) <=> s.pl[p].at = b
  BY DEF Good, Agree
<1>3. ASSUME NEW b \in Battles, s.pl[p].at = b PROVE s.bt[b].use
  <2>1. s.pl[p].at # None
    BY <1>3, BattleAssumption DEF BattleAssumption
  <2> QED BY <1>3, <2>1 DEF Good, Agree
<1> QED BY <1>1, <1>2, <1>3

-----------------------------------------------------------------------------
(* A step that changes nothing but modes, turns and who lies dead: nobody  *)
(* comes to help, and nobody comes into or out of a battle by it.          *)
LEMMA ModeStep ==
  ASSUME NEW s, Good(s), NEW n \in States, Blank(n), SameChains(s, n),
         \A b \in Battles : n.bt[b].side = s.bt[b].side,
         \A p \in Players :
           /\ n.pl[p].at = s.pl[p].at
           /\ n.pl[p].mode = "RESCUE" => s.pl[p].mode = "RESCUE"
           /\ n.pl[p].mode \in {"NONE", "FINAL"} <=> s.pl[p].mode \in {"NONE", "FINAL"}
  PROVE  Good(n)
<1>1. \A b \in Battles : Entries(n, b) = Entries(s, b)
  BY DEF Entries
<1>2. Agree(n)
  <2> SUFFICES ASSUME NEW p \in Players
               PROVE  /\ \A b \in Battles : p \in Entries(n, b) <=> n.pl[p].at = b
                      /\ n.pl[p].at # None => n.bt[n.pl[p].at].use
                      /\ n.pl[p].at = None <=> n.pl[p].mode \in {"NONE", "FINAL"}
    BY DEF Agree
  <2>1. n.pl[p].at = s.pl[p].at /\ s.pl[p].at \in Battles \union {None}
    BY DEF Good, States, Character
  <2>2. \A b \in Battles : p \in Entries(n, b) <=> s.pl[p].at = b
    BY <1>1 DEF Good, Agree
  <2>3. s.pl[p].at # None => n.bt[s.pl[p].at].use
    BY <2>1 DEF Good, Agree, SameChains
  <2>4. s.pl[p].at = None <=> n.pl[p].mode \in {"NONE", "FINAL"}
    BY DEF Good, Agree
  <2> QED BY <2>1, <2>2, <2>3, <2>4
<1>3. Seated(n)
  <2> SUFFICES ASSUME NEW b \in Battles
               PROVE  /\ n.bt[b].type = "P_vs_P" =>
                           \A p \in Entries(n, b) : n.pl[p].mode # "RESCUE"
                      /\ \A j \in Sides : Cardinality(n.bt[b].side[j]) <= PlayerMax
                      /\ n.bt[b].side[1] # {} => n.bt[b].type = "P_vs_P"
    BY DEF Seated
  <2>1. Entries(n, b) \subseteq Players
    BY DEF Entries, States, Slots, Sides
  <2> QED BY <1>1, <2>1 DEF Good, Seated, SameChains
<1>4. Linked(n) /\ Founded(n) /\ AllHeaded(n)
  BY <1>1, ChainsKept DEF Good, AllHeaded, SameChains
<1>5. Single(n)
  BY DEF Good, Single
<1> QED BY <1>2, <1>3, <1>4, <1>5 DEF Good

(* A step by which the players of gone leave whatever battle they are in.  *)
Left(s, n, gone) ==
  /\ \A b \in Battles, j \in Sides : n.bt[b].side[j] = s.bt[b].side[j] \ gone
  /\ \A p \in gone : n.pl[p].at = None /\ n.pl[p].mode \in {"NONE", "FINAL"}
  /\ \A p \in Players \ gone : n.pl[p] = s.pl[p]

(* Such a step keeps a good state good.                                    *)
LEMMA LeaveStep ==
  ASSUME NEW s, Good(s), NEW n \in States, Blank(n), SameChains(s, n),
         NEW gone \in SUBSET Players, Left(s, n, gone)
  PROVE  Good(n)
<1> USE DEF Left
<1>1. \A b \in Battles : Entries(n, b) = Entries(s, b) \ gone
  BY DEF Entries, Sides
<1>2. Agree(n)
  <2> SUFFICES ASSUME NEW p \in Players
               PROVE  /\ \A b \in Battles : p \in Entries(n, b) <=> n.pl[p].at = b
                      /\ n.pl[p].at # None => n.bt[n.pl[p].at].use
                      /\ n.pl[p].at = None <=> n.pl[p].mode \in {"NONE", "FINAL"}
    BY DEF Agree
  <2>1. CASE p \in gone
    BY <1>1, <2>1, BattleAssumption DEF BattleAssumption
  <2>2. CASE p \notin gone
    <3>1. n.pl[p] = s.pl[p] /\ s.pl[p].at \in Battles \union {None}
      BY <2>2 DEF Good, States, Character
    <3>2. \A b \in Battles : p \in Entries(n, b) <=> s.pl[p].at = b
      BY <1>1, <2>2 DEF Good, Agree
    <3>3. s.pl[p].at # None => n.bt[s.pl[p].at].use
      <4>1. ASSUME NEW b \in Battles, s.pl[p].at = b PROVE n.bt[b].use
        BY <4>1, AgreeOne DEF SameChains
      <4> QED BY <3>1, <4>1
    <3>4. s.pl[p].at = None <=> s.pl[p].mode \in {"NONE", "FINAL"}
      BY DEF Good, Agree
    <3> QED BY <3>1, <3>2, <3>3, <3>4
  <2> QED BY <2>1, <2>2
<1>3. Seated(n)
  <2> SUFFICES ASSUME NEW b \in Battles
               PROVE  /\ n.bt[b].type = "P_vs_P" =>
                           \A p \in Entries(n, b) : n.pl[p].mode # "RESCUE"
                      /\ \A j \in Sides : Cardinality(n.bt[b].side[j]) <= PlayerMax
                      /\ n.bt[b].side[1] # {} => n.bt[b].type = "P_vs_P"
    BY DEF Seated
  <2>1. Entries(s, b) \subseteq Players
    BY DEF Entries, Good, States, Slots, Sides
  <2>2. ASSUME n.bt[b].type = "P_vs_P", NEW p \in Entries(n, b)
        PROVE  n.pl[p].mode # "RESCUE"
    <3>1. p \in Entries(s, b) /\ p \in Players \ gone
      BY <1>1, <2>1, <2>2
    <3> QED BY <2>2, <3>1 DEF Good, Seated, SameChains
  <2>3. ASSUME NEW j \in Sides PROVE Cardinality(n.bt[b].side[j]) <= PlayerMax
    <3>1. s.bt[b].side[j] \subseteq Players /\ n.bt[b].side[j] \subseteq s.bt[b].side[j]
      BY DEF Good, States, Slots
    <3>2. IsFiniteSet(s.bt[b].side[j])
      BY <3>1, BattleAssumption, FS_Subset DEF BattleAssumption
    <3>3. /\ Cardinality(n.bt[b].side[j]) <= Cardinality(s.bt[b].side[j])
          /\ IsFiniteSet(n.bt[b].side[j])
      BY <3>1, <3>2, FS_Subset
    <3>4. /\ Cardinality(n.bt[b].side[j]) \in Nat
          /\ Cardinality(s.bt[b].side[j]) \in Nat
      BY <3>2, <3>3, FS_CardinalityType
    <3>5. Cardinality(s.bt[b].side[j]) <= PlayerMax
      BY DEF Good, Seated
    <3> QED BY <3>3, <3>4, <3>5, BattleAssumption DEF BattleAssumption
  <2>4. n.bt[b].side[1] # {} => n.bt[b].type = "P_vs_P"
    BY DEF Good, Seated, SameChains, Sides
  <2> QED BY <2>2, <2>3, <2>4
<1>4. Linked(n) /\ Founded(n) /\ AllHeaded(n)
  <2>1. Linked(n) /\ Founded(n) /\ \A b \in Battles : Headed(s, b) => Headed(n, b)
    BY ChainsKept DEF Good
  <2> QED BY <1>1, <2>1 DEF Good, AllHeaded, SameChains
<1>5. Single(n)
  <2> SUFFICES ASSUME NEW b \in Battles,
                      NEW p \in n.bt[b].side[0] \intersect n.bt[b].side[1],
                      NEW q \in n.bt[b].side[0] \intersect n.bt[b].side[1]
               PROVE  p = q
    BY DEF Single
  <2>1. /\ n.bt[b].side[0] = s.bt[b].side[0] \ gone
        /\ n.bt[b].side[1] = s.bt[b].side[1] \ gone
    BY DEF Sides
  <2> QED BY <2>1 DEF Good, Single
<1> QED BY <1>2, <1>3, <1>4, <1>5 DEF Good

(* A step by which the players of P, who are in no other battle, come into *)
(* the battle b.  A battle between players takes no rescuers, the only one *)
(* with a second side of players; a watch battle hangs where it should.    *)
Entered(s, n, P, b, j) ==
  /\ \A c \in Battles, k \in Sides :
       n.bt[c].side[k] = IF c = b /\ k = j THEN s.bt[c].side[k] \union P
                         ELSE s.bt[c].side[k]
  /\ \A p \in P : /\ s.pl[p].at \in {None, b} /\ n.pl[p].at = b
                  /\ n.pl[p].mode \notin {"NONE", "FINAL"}
                  /\ s.bt[b].type = "P_vs_P" => n.pl[p].mode # "RESCUE"
  /\ \A p \in Players \ P : n.pl[p] = s.pl[p]

(* Such a step keeps a good state good.                                    *)
LEMMA EnterStep ==
  ASSUME NEW s, Good(s), NEW n \in States, Blank(n), SameChains(s, n),
         NEW P \in SUBSET Players, NEW b \in Battles, NEW j \in Sides,
         Entered(s, n, P, b, j), s.bt[b].use,
         j = 1 => s.bt[b].type = "P_vs_P",
         Cardinality(s.bt[b].side[j] \union P) <= PlayerMax,
         s.bt[b].type = "WATCH" => Headed(s, b),
         \A p, q \in n.bt[b].side[0] \intersect n.bt[b].side[1] : p = q
  PROVE  Good(n)
<1> USE DEF Entered
<1>a. 0 \in Sides /\ 1 \in Sides /\ j \in {0, 1}
  BY DEF Sides
<1>0. ASSUME NEW c \in Battles
      PROVE  /\ c # b => /\ n.bt[c].side[0] = s.bt[c].side[0]
                        /\ n.bt[c].side[1] = s.bt[c].side[1]
             /\ n.bt[c].side[0] \subseteq s.bt[c].side[0] \union P
             /\ n.bt[c].side[1] \subseteq s.bt[c].side[1] \union P
             /\ \/ n.bt[c].side[0] = s.bt[c].side[0]
                \/ n.bt[c].side[1] = s.bt[c].side[1]
             /\ s.bt[c].type # "P_vs_P" => n.bt[c].side[1] = s.bt[c].side[1]
  <2> DEFINE S(k) == s.bt[c].side[k]
             N(k) == n.bt[c].side[k]
  <2>1. /\ N(0) = IF c = b /\ 0 = j THEN S(0) \union P ELSE S(0)
        /\ N(1) = IF c = b /\ 1 = j THEN S(1) \union P ELSE S(1)
    BY <1>a, ZenonT(30)
  <2> HIDE DEF S, N
  <2>2. /\ c # b => N(0) = S(0) /\ N(1) = S(1)
        /\ N(0) \subseteq S(0) \union P /\ N(1) \subseteq S(1) \union P
        /\ N(0) = S(0) \/ N(1) = S(1)
        /\ s.bt[c].type # "P_vs_P" => N(1) = S(1)
    BY <2>1
  <2> QED BY <2>2 DEF S, N
<1>1. /\ Entries(n, b) = Entries(s, b) \union P
      /\ \A c \in Battles \ {b} : Entries(n, c) = Entries(s, c)
  BY DEF Entries, Sides
<1>2. Agree(n)
  <2> SUFFICES ASSUME NEW p \in Players
               PROVE  /\ \A c \in Battles : p \in Entries(n, c) <=> n.pl[p].at = c
                      /\ n.pl[p].at # None => n.bt[n.pl[p].at].use
                      /\ n.pl[p].at = None <=> n.pl[p].mode \in {"NONE", "FINAL"}
    BY DEF Agree
  <2>1. CASE p \in P
    <3>1. \A c \in Battles \ {b} : p \notin Entries(s, c)
      <4>1. s.pl[p].at \in {None, b} /\ None \notin Battles
        BY <2>1, BattleAssumption DEF BattleAssumption
      <4> QED BY <4>1, AgreeOne
    <3>2. \A c \in Battles : p \in Entries(n, c) <=> c = b
      BY <1>1, <2>1, <3>1
    <3>3. n.bt[b].use /\ b # None
      BY BattleAssumption DEF SameChains, BattleAssumption
    <3> QED BY <2>1, <3>2, <3>3
  <2>2. CASE p \notin P
    <3>1. n.pl[p] = s.pl[p] /\ s.pl[p].at \in Battles \union {None}
      BY <2>2 DEF Good, States, Character
    <3>2. \A c \in Battles : p \in Entries(n, c) <=> s.pl[p].at = c
      <4>1. \A c \in Battles : p \in Entries(n, c) <=> p \in Entries(s, c)
        BY <1>1, <2>2
      <4> QED BY <4>1, AgreeOne
    <3>3. s.pl[p].at # None => n.bt[s.pl[p].at].use
      BY <3>1 DEF Good, Agree, SameChains
    <3>4. s.pl[p].at = None <=> s.pl[p].mode \in {"NONE", "FINAL"}
      BY DEF Good, Agree
    <3> QED BY <3>1, <3>2, <3>3, <3>4
  <2> QED BY <2>1, <2>2
<1>3. Seated(n)
  <2> SUFFICES ASSUME NEW c \in Battles
               PROVE  /\ n.bt[c].type = "P_vs_P" =>
                           \A p \in Entries(n, c) : n.pl[p].mode # "RESCUE"
                      /\ \A k \in Sides : Cardinality(n.bt[c].side[k]) <= PlayerMax
                      /\ n.bt[c].side[1] # {} => n.bt[c].type = "P_vs_P"
    BY DEF Seated
  <2>1. Entries(s, c) \subseteq Players
    BY DEF Entries, Good, States, Slots, Sides
  <2>2. ASSUME n.bt[c].type = "P_vs_P", NEW p \in Entries(n, c)
        PROVE  n.pl[p].mode # "RESCUE"
    <3>1. s.bt[c].type = "P_vs_P"
      BY <2>2 DEF SameChains
    <3>2. CASE p \in P
      <4>1. c = b
        <5>1. c # b => p \in Entries(s, c)
          BY <1>1, <2>2
        <5>2. s.pl[p].at \in {None, b} /\ c # None
          BY <3>2, BattleAssumption DEF BattleAssumption
        <5> QED BY <5>1, <5>2, <3>2 DEF Good, Agree
      <4> QED BY <3>1, <3>2, <4>1
    <3>3. CASE p \notin P
      <4>1. p \in Entries(s, c)
        BY <1>1, <2>2, <3>3
      <4> QED BY <2>1, <3>1, <3>3, <4>1 DEF Good, Seated
    <3> QED BY <3>2, <3>3
  <2>3. ASSUME NEW k \in Sides PROVE Cardinality(n.bt[c].side[k]) <= PlayerMax
    <3>1. n.bt[c].side[k] = IF c = b /\ k = j THEN s.bt[c].side[k] \union P
                            ELSE s.bt[c].side[k]
      OBVIOUS
    <3>2. Cardinality(s.bt[c].side[k]) <= PlayerMax
      BY DEF Good, Seated
    <3> QED BY ONLY <3>1, <3>2, Cardinality(s.bt[b].side[j] \union P) <= PlayerMax
  <2>4. n.bt[c].side[1] # {} => n.bt[c].type = "P_vs_P"
    <3>1. n.bt[c].type = s.bt[c].type
      BY DEF SameChains
    <3> QED BY <1>0, <3>1 DEF Good, Seated
  <2> QED BY <2>2, <2>3, <2>4
<1>4. Linked(n) /\ Founded(n) /\ AllHeaded(n)
  <2>1. Linked(n) /\ Founded(n) /\ \A c \in Battles : Headed(s, c) => Headed(n, c)
    BY ChainsKept DEF Good
  <2> QED BY <1>1, <2>1 DEF Good, AllHeaded, SameChains
<1>5. Single(n)
  <2> SUFFICES ASSUME NEW c \in Battles,
                      NEW p \in n.bt[c].side[0] \intersect n.bt[c].side[1],
                      NEW q \in n.bt[c].side[0] \intersect n.bt[c].side[1]
               PROVE  p = q
    BY DEF Single
  <2>1. CASE c = b
    BY <2>1
  <2>2. CASE c # b
    <3>1. n.bt[c].side[0] = s.bt[c].side[0] /\ n.bt[c].side[1] = s.bt[c].side[1]
      BY <1>0, <2>2
    <3> QED BY <3>1 DEF Good, Single
  <2> QED BY <2>1, <2>2
<1> QED BY <1>2, <1>3, <1>4, <1>5 DEF Good

-----------------------------------------------------------------------------
(* A battle is linked into the chain behind top, one put at nobody's       *)
(* disposal before: what was behind a battle is behind it still.           *)
LEMMA LinkStep ==
  ASSUME NEW s, Good(s), NEW n \in States, Blank(n),
         NEW top \in Battles, NEW b \in Battles, NEW old, old = s.bt[top].next,
         top # b, s.bt[top].use, s.bt[b].use, s.bt[b].type = "WATCH",
         s.bt[b].next = None, s.bt[b].before = None, Entries(s, b) = {},
         n.pl = s.pl,
         \A c \in Battles :
           /\ n.bt[c].use = s.bt[c].use /\ n.bt[c].type = s.bt[c].type
           /\ n.bt[c].side = s.bt[c].side
           /\ n.bt[c].next = IF c = top THEN b ELSE IF c = b THEN old ELSE s.bt[c].next
           /\ n.bt[c].before = IF c = b THEN top ELSE IF c = old THEN b
                               ELSE s.bt[c].before
  PROVE  Good(n) /\ (s.bt[top].type # "WATCH" \/ Headed(s, top) => Headed(n, b))
<1>1. /\ Linked(s) /\ Founded(s)
      /\ \A c \in Battles : s.bt[c].next \in Battles \union {None}
      /\ \A c \in Battles : n.bt[c].next \in Battles \union {None}
      /\ None \notin Battles /\ old \in Battles \union {None}
  BY BattleAssumption DEF Good, States, Slots, BattleAssumption
<1>2. old # b /\ old # top
  <2>1. old # b
    BY <1>1 DEF Linked
  <2>2. old # top
    <3> SUFFICES ASSUME old = top PROVE FALSE
      OBVIOUS
    <3>1. s.bt[top].next = top
      OBVIOUS
    <3>4. s.bt[top].before = top
      BY ONLY <1>1, <3>1, top \in Battles DEF Linked
    <3>2. {top} \in SUBSET Battles /\ {top} # {}
      OBVIOUS
    <3>3. \E d \in {top} : s.bt[d].before \notin {top}
      BY <1>1, <3>2 DEF Founded
    <3> QED BY <3>3, <3>4
  <2> QED BY <2>1, <2>2
<1>3. \A c \in Battles : Entries(n, c) = Entries(s, c)
  BY DEF Entries
<1>4. Agree(n)
  <2> SUFFICES ASSUME NEW p \in Players
               PROVE  /\ \A c \in Battles : p \in Entries(n, c) <=> n.pl[p].at = c
                      /\ n.pl[p].at # None => n.bt[n.pl[p].at].use
                      /\ n.pl[p].at = None <=> n.pl[p].mode \in {"NONE", "FINAL"}
    BY DEF Agree
  <2>1. s.pl[p].at \in Battles \union {None}
    BY DEF Good, States, Character
  <2>2. \A c \in Battles : p \in Entries(n, c) <=> s.pl[p].at = c
    BY <1>3 DEF Good, Agree
  <2>3. s.pl[p].at # None => n.bt[s.pl[p].at].use
    BY <2>1 DEF Good, Agree
  <2>4. s.pl[p].at = None <=> n.pl[p].mode \in {"NONE", "FINAL"}
    BY DEF Good, Agree
  <2>5. n.pl[p] = s.pl[p]
    OBVIOUS
  <2> QED BY ONLY <2>2, <2>3, <2>4, <2>5
<1>5. Seated(n) /\ Single(n)
  BY <1>3 DEF Good, Seated, Single
<1>6. Linked(n)
  <2> SUFFICES ASSUME NEW c \in Battles, NEW d \in Battles
               PROVE  /\ n.bt[c].next = d <=> n.bt[d].before = c
                      /\ n.bt[c].next = d =>
                           n.bt[c].use /\ n.bt[d].use /\ n.bt[d].type = "WATCH"
    BY DEF Linked
  <2>1. /\ s.bt[c].next = d <=> s.bt[d].before = c
        /\ s.bt[c].next = d =>
             s.bt[c].use /\ s.bt[d].use /\ s.bt[d].type = "WATCH"
        /\ s.bt[top].next = d <=> s.bt[d].before = top
        /\ s.bt[top].next = d => s.bt[d].use /\ s.bt[d].type = "WATCH"
    BY <1>1 DEF Linked
  <2>2. s.bt[c].next # b /\ s.bt[d].before # b
    BY <1>1 DEF Linked
  <2> QED BY <1>1, <1>2, <2>1, <2>2
<1>7. Founded(n)
  <2> SUFFICES ASSUME NEW S \in SUBSET Battles, S # {}
               PROVE  \E d \in S : n.bt[d].before \notin S
    BY DEF Founded
  <2>1. CASE S \subseteq {b}
    BY <2>1
  <2>2. CASE ~(S \subseteq {b})
    <3> DEFINE T == S \ {b}
    <3>1. T \in SUBSET Battles /\ T # {}
      BY <2>2
    <3> HIDE DEF T
    <3>2. PICK d \in T : s.bt[d].before \notin T
      BY <1>1, <3>1 DEF Founded
    <3>3. d \in S /\ d # b /\ s.bt[d].before # b
      BY <1>1, <3>2 DEF T, Linked
    <3>4. CASE d # old
      BY <3>2, <3>3, <3>4 DEF T
    <3>5. CASE d = old /\ b \notin S
      BY <3>3, <3>5
    <3>6. CASE d = old /\ b \in S
      <4>1. s.bt[d].before = top
        BY <1>1, <3>3, <3>6 DEF Linked
      <4>2. top \notin S
        BY <3>2, <4>1 DEF T
      <4> QED BY <3>6, <4>2
    <3> QED BY <3>4, <3>5, <3>6
  <2> QED BY <2>1, <2>2
<1>8. ASSUME NEW m \in Battles PROVE Behind(s, m) \subseteq Behind(n, m)
  <2> DEFINE S == Behind(n, m)
  <2>1. S \in SUBSET Battles
    BY DEF Behind
  <2>2. ASSUME NEW d \in S \union {m} PROVE s.bt[d].next \in S \union {None}
    <3>1. d \in Battles
      BY <2>1
    <3>2. CASE d = top
      <4>1. n.bt[d].next = b /\ b \in S
        BY <3>1, <3>2, BehindFollows
      <4>2. n.bt[b].next = old
        OBVIOUS
      <4>3. old \in S \union {None}
        BY <1>1, <4>1, <4>2, BehindFollows
      <4> QED BY <3>2, <4>3
    <3>3. CASE d = b
      BY <3>3
    <3>4. CASE d # top /\ d # b
      <4>1. n.bt[d].next = s.bt[d].next
        BY <3>1, <3>4
      <4> QED BY <1>1, <3>1, <4>1, BehindFollows
    <3> QED BY <3>2, <3>3, <3>4
  <2> HIDE DEF S
  <2>3. \A d \in S \union {m} : s.bt[d].next \in S \union {None}
    BY <2>2
  <2>4. Behind(s, m) \subseteq S
    BY <2>1, <2>3, BehindLeast
  <2> QED BY <2>4 DEF S
<1>9. \A c \in Battles : Headed(s, c) => Headed(n, c)
  BY <1>8 DEF Headed
<1>10. AllHeaded(n)
  BY <1>3, <1>9 DEF Good, AllHeaded
<1>11. ASSUME s.bt[top].type # "WATCH" \/ Headed(s, top) PROVE Headed(n, b)
  <2>1. n.bt[top].next = b
    OBVIOUS
  <2>2. CASE s.bt[top].type # "WATCH"
    <3>1. b \in Behind(n, top)
      BY <2>1, BehindFollows
    <3> QED BY <2>2, <3>1 DEF Headed
  <2>3. CASE Headed(s, top)
    <3>1. PICK m \in Battles : /\ n.bt[m].use /\ n.bt[m].type # "WATCH"
                               /\ top \in Behind(n, m)
      BY <1>9, <2>3 DEF Headed
    <3>2. b \in Behind(n, m)
      BY <2>1, <3>1, BehindFollows
    <3> QED BY <3>1, <3>2 DEF Headed
  <2> QED BY <1>11, <2>2, <2>3
<1> QED BY <1>4, <1>5, <1>6, <1>7, <1>10, <1>11 DEF Good

(* The neighbours of a battle in its chain are not each other, nor itself. *)
LEMMA NeighboursDiffer ==
  ASSUME NEW s, Good(s), NEW b \in Battles
  PROVE  /\ s.bt[b].next # b /\ s.bt[b].before # b
         /\ s.bt[b].next # None => s.bt[b].next # s.bt[b].before
<1> DEFINE top == s.bt[b].before
           nxt == s.bt[b].next
<1>1. /\ Linked(s) /\ Founded(s) /\ None \notin Battles
      /\ top \in Battles \union {None} /\ nxt \in Battles \union {None}
  BY BattleAssumption DEF Good, States, Slots, BattleAssumption
<1>2. /\ nxt \in Battles => s.bt[nxt].before = b
      /\ nxt = b => top = b
  BY <1>1 DEF Linked
<1>3. top # b
  <2>1. {b} \in SUBSET Battles /\ {b} # {}
    OBVIOUS
  <2>2. \E d \in {b} : s.bt[d].before \notin {b}
    BY <1>1, <2>1 DEF Founded
  <2> QED BY <2>2
<1>4. ASSUME nxt # None, nxt = top PROVE FALSE
  <2>1. {b, nxt} \in SUBSET Battles /\ {b, nxt} # {}
    BY <1>1, <1>4
  <2>2. \E d \in {b, nxt} : s.bt[d].before \notin {b, nxt}
    BY <1>1, <2>1 DEF Founded
  <2> QED BY <1>1, <1>2, <1>4, <2>2
<1> QED BY <1>2, <1>3, <1>4

(* A battle that is empty is deleted, and its neighbours are linked.  Its  *)
(* chain has a head still, unless it was the head, of empty battles.       *)
LEMMA DeleteStep ==
  ASSUME NEW s, Good(s), NEW n \in States, Blank(n),
         NEW b \in Battles, NEW top, NEW nxt,
         top = s.bt[b].before, nxt = s.bt[b].next,
         Entries(s, b) = {},
         \/ s.bt[b].type = "WATCH"
         \/ \A c \in Behind(s, b) : Entries(s, c) = {},
         n.pl = s.pl, n.bt[b] = Unused,
         \A c \in Battles \ {b} :
           /\ n.bt[c].use = s.bt[c].use /\ n.bt[c].type = s.bt[c].type
           /\ n.bt[c].side = s.bt[c].side
           /\ n.bt[c].next = IF c = top THEN nxt ELSE s.bt[c].next
           /\ n.bt[c].before = IF c = nxt THEN top ELSE s.bt[c].before
  PROVE  Good(n)
<1>1. /\ Linked(s) /\ Founded(s) /\ None \notin Battles
      /\ top \in Battles \union {None} /\ nxt \in Battles \union {None}
      /\ \A c \in Battles : s.bt[c].next \in Battles \union {None}
      /\ \A c \in Battles : n.bt[c].next \in Battles \union {None}
  BY BattleAssumption DEF Good, States, Slots, BattleAssumption
<1>2. top # b /\ nxt # b /\ (nxt # None => nxt # top)
  BY NeighboursDiffer
<1>3. /\ n.bt[b].next = None /\ n.bt[b].before = None
      /\ n.bt[b].type = "NONE" /\ Entries(n, b) = {}
      /\ \A j \in Sides : n.bt[b].side[j] = {}
  BY DEF Unused, Entries, Sides
<1>4. \A c \in Battles : Entries(n, c) = Entries(s, c)
  <2>1. \A c \in Battles \ {b} : Entries(n, c) = Entries(s, c)
    BY DEF Entries
  <2> QED BY <1>3, <2>1
<1>5. Agree(n)
  <2> SUFFICES ASSUME NEW p \in Players
               PROVE  /\ \A c \in Battles : p \in Entries(n, c) <=> n.pl[p].at = c
                      /\ n.pl[p].at # None => n.bt[n.pl[p].at].use
                      /\ n.pl[p].at = None <=> n.pl[p].mode \in {"NONE", "FINAL"}
    BY DEF Agree
  <2>1. s.pl[p].at \in Battles \union {None}
    BY DEF Good, States, Character
  <2>2. \A c \in Battles : p \in Entries(n, c) <=> s.pl[p].at = c
    BY <1>4 DEF Good, Agree
  <2>3. s.pl[p].at # b
    BY <1>3, <2>2
  <2>4. s.pl[p].at # None => n.bt[s.pl[p].at].use
    <3>1. ASSUME NEW c \in Battles, s.pl[p].at = c PROVE n.bt[c].use
      <4>1. s.bt[c].use
        BY <3>1, AgreeOne
      <4>2. n.bt[c].use = s.bt[c].use
        BY <2>3, <3>1
      <4> QED BY <4>1, <4>2
    <3> QED BY <2>1, <3>1
  <2>5. s.pl[p].at = None <=> n.pl[p].mode \in {"NONE", "FINAL"}
    BY DEF Good, Agree
  <2> QED BY <2>1, <2>2, <2>4, <2>5
<1>6. Seated(n)
  <2> SUFFICES ASSUME NEW c \in Battles
               PROVE  /\ n.bt[c].type = "P_vs_P" =>
                           \A p \in Entries(n, c) : n.pl[p].mode # "RESCUE"
                      /\ \A j \in Sides : Cardinality(n.bt[c].side[j]) <= PlayerMax
                      /\ n.bt[c].side[1] # {} => n.bt[c].type = "P_vs_P"
    BY DEF Seated
  <2>1. CASE c = b
    <3>1. Cardinality({}) <= PlayerMax
      BY FS_EmptySet, BattleAssumption DEF BattleAssumption
    <3> QED BY <1>3, <2>1, <3>1 DEF Sides
  <2>2. CASE c # b
    BY <1>4, <2>2 DEF Good, Seated
  <2> QED BY <2>1, <2>2
<1>7. Linked(n)
  <2> SUFFICES ASSUME NEW c \in Battles, NEW d \in Battles
               PROVE  /\ n.bt[c].next = d <=> n.bt[d].before = c
                      /\ n.bt[c].next = d =>
                           n.bt[c].use /\ n.bt[d].use /\ n.bt[d].type = "WATCH"
    BY DEF Linked
  <2>1. /\ s.bt[c].next = d <=> s.bt[d].before = c
        /\ s.bt[c].next = d =>
             s.bt[c].use /\ s.bt[d].use /\ s.bt[d].type = "WATCH"
    BY <1>1 DEF Linked
  <2>2. /\ s.bt[b].next = d <=> s.bt[d].before = b
        /\ s.bt[b].next = d => s.bt[d].use /\ s.bt[d].type = "WATCH"
        /\ s.bt[c].next = b <=> s.bt[b].before = c
        /\ s.bt[c].next = b => s.bt[c].use
    BY <1>1 DEF Linked
  <2>3. CASE c = b \/ d = b
    BY <1>1, <1>2, <1>3, <2>2, <2>3
  <2>4. CASE c # b /\ d # b
    BY <1>1, <1>2, <2>1, <2>2, <2>4
  <2> QED BY <2>3, <2>4
<1>8. Founded(n)
  <2> SUFFICES ASSUME NEW S \in SUBSET Battles, S # {}
               PROVE  \E d \in S : n.bt[d].before \notin S
    BY DEF Founded
  <2>1. CASE b \in S
    BY <1>1, <1>3, <2>1
  <2>2. CASE b \notin S
    <3> DEFINE T == IF nxt \in S THEN S \union {b} ELSE S
    <3>1. T \in SUBSET Battles /\ T # {} /\ S \subseteq T /\ T \subseteq S \union {b}
      OBVIOUS
    <3>2. b \in T <=> nxt \in S
      BY <2>2
    <3> HIDE DEF T
    <3>3. PICK d \in T : s.bt[d].before \notin T
      BY <1>1, <3>1 DEF Founded
    <3>4. CASE d = b
      <4>1. nxt \in S /\ top \notin S /\ nxt # b
        BY <1>2, <3>1, <3>2, <3>3, <3>4
      <4> QED BY <4>1
    <3>5. CASE d # b
      <4>1. d \in S /\ s.bt[d].before \notin S
        BY <3>1, <3>3, <3>5
      <4>2. d # nxt
        <5>1. ASSUME d = nxt PROVE s.bt[d].before = b /\ b \in T
          BY <1>1, <3>2, <4>1, <5>1 DEF Linked
        <5> QED BY <3>3, <5>1
      <4> QED BY <3>5, <4>1, <4>2
    <3> QED BY <3>4, <3>5
  <2> QED BY <2>1, <2>2
<1>9. ASSUME NEW m \in Battles, m # b PROVE Behind(s, m) \subseteq Behind(n, m) \union {b}
  <2> DEFINE N == Behind(n, m)
             S == IF top \in N \union {m} THEN N \union {b} ELSE N \ {b}
  <2>1. N \in SUBSET Battles
    BY DEF Behind
  <2>2. S \in SUBSET Battles
    BY <2>1
  <2>3. ASSUME NEW d \in N \union {m} PROVE n.bt[d].next \in N \union {None}
    BY <1>1, <2>1, BehindFollows
  <2> HIDE DEF N
  <2>4. ASSUME NEW d \in S \union {m} PROVE s.bt[d].next \in S \union {None}
    <3>1. d \in Battles
      BY <2>2
    <3>2. CASE d = b
      <4>1. top \in N \union {m} /\ top # b /\ top \in Battles
        BY <1>2, <1>9, <2>1, <3>2
      <4>2. n.bt[top].next = nxt
        BY <4>1
      <4>3. nxt \in N \union {None}
        BY <2>3, <4>1, <4>2
      <4> QED BY <3>2, <4>1, <4>3
    <3>3. CASE d # b /\ d = top
      <4>1. s.bt[d].next = b
        BY <1>1, <3>1, <3>3 DEF Linked
      <4>2. top \in N \union {m}
        BY <3>3
      <4> QED BY <4>1, <4>2
    <3>4. CASE d # b /\ d # top
      <4>1. n.bt[d].next = s.bt[d].next /\ d \in N \union {m}
        BY <3>1, <3>4
      <4>2. s.bt[d].next # b
        BY <1>1, <3>1, <3>4 DEF Linked
      <4>3. s.bt[d].next \in N \union {None}
        BY <2>3, <4>1
      <4> QED BY <4>2, <4>3
    <3> QED BY <3>2, <3>3, <3>4
  <2>5. S \subseteq N \union {b}
    OBVIOUS
  <2> HIDE DEF S
  <2>6. \A d \in S \union {m} : s.bt[d].next \in S \union {None}
    BY <2>4
  <2>7. Behind(s, m) \subseteq S
    BY <2>2, <2>6, BehindLeast
  <2> QED BY <2>5, <2>7 DEF N
<1>10. AllHeaded(n)
  <2> SUFFICES ASSUME NEW c \in Battles, n.bt[c].type = "WATCH", Entries(n, c) # {}
               PROVE  Headed(n, c)
    BY DEF AllHeaded
  <2>1. c # b /\ s.bt[c].type = "WATCH" /\ Entries(s, c) # {}
    BY <1>3, <1>4
  <2>2. PICK m \in Battles : s.bt[m].use /\ s.bt[m].type # "WATCH" /\ c \in Behind(s, m)
    BY <2>1 DEF Good, AllHeaded, Headed
  <2>3. m # b
    BY <2>1, <2>2
  <2>4. c \in Behind(n, m)
    BY <1>9, <2>1, <2>2, <2>3
  <2> QED BY <2>2, <2>3, <2>4 DEF Headed
<1>11. Single(n)
  <2>1. n.bt[b].side[0] = {}
    BY <1>3 DEF Sides
  <2> QED BY <2>1 DEF Good, Single
<1> QED BY <1>5, <1>6, <1>7, <1>8, <1>10, <1>11 DEF Good
-----------------------------------------------------------------------------
(* A free slot becomes a battle that nobody is in yet.                     *)
LEMMA CreateBattleGood ==
  ASSUME NEW s, Good(s), NEW b \in Battles, ~s.bt[b].use,
         NEW type \in Types, NEW mode \in BattleModes, NEW n,
         n = CreateBattle(s, b, type, mode)
  PROVE  /\ Good(n) /\ n.pl = s.pl
         /\ n.bt[b].use /\ n.bt[b].type = type
         /\ n.bt[b].next = None /\ n.bt[b].before = None
         /\ \A j \in Sides : n.bt[b].side[j] = {}
         /\ \A c \in Battles \ {b} : n.bt[c] = s.bt[c]
         /\ \A c \in Battles : Headed(s, c) => Headed(n, c)
<1> DEFINE new == [Unused EXCEPT !.use = TRUE, !.type = type, !.mode = mode]
<1>1. s \in States /\ s.bt[b] = Unused
  BY DEF Good, Blank
<1>2. /\ new \in Slots /\ new.use /\ new.type = type
      /\ new.next = None /\ new.before = None
      /\ \A j \in Sides : new.side[j] = {}
  <2>1. /\ Unused \in Slots /\ Unused.next = None /\ Unused.before = None
        /\ \A j \in Sides : Unused.side[j] = {}
    BY <1>1 DEF States, Unused
  <2> QED BY <2>1 DEF Slots
<1>3. n = [s EXCEPT !.bt[b] = new]
  BY DEF CreateBattle
<1>4. /\ Unused.next = None /\ Unused.before = None
      /\ \A j \in Sides : Unused.side[j] = {}
  BY DEF Unused, Sides
<1> HIDE DEF new
<1>5. /\ n \in States /\ n.pl = s.pl /\ n.bt[b] = new
      /\ \A c \in Battles \ {b} : n.bt[c] = s.bt[c]
  BY <1>1, <1>2, <1>3 DEF States
<1>6. \A c \in Battles : /\ n.bt[c].next = s.bt[c].next
                         /\ n.bt[c].before = s.bt[c].before
                         /\ Entries(n, c) = Entries(s, c)
                         /\ s.bt[c].use => n.bt[c] = s.bt[c]
                         /\ \A j \in Sides : n.bt[c].side[j] = s.bt[c].side[j]
  <2> TAKE c \in Battles
  <2>1. CASE c = b
    BY <1>1, <1>2, <1>4, <1>5, <2>1 DEF Entries, Sides
  <2>2. CASE c # b
    BY <1>5, <2>2 DEF Entries
  <2> QED BY <2>1, <2>2
<1>7. Blank(n)
  BY <1>2, <1>5 DEF Good, Blank
<1>8. Agree(n)
  <2> SUFFICES ASSUME NEW p \in Players
               PROVE  /\ \A c \in Battles : p \in Entries(n, c) <=> n.pl[p].at = c
                      /\ n.pl[p].at # None => n.bt[n.pl[p].at].use
                      /\ n.pl[p].at = None <=> n.pl[p].mode \in {"NONE", "FINAL"}
    BY DEF Agree
  <2>1. n.pl[p] = s.pl[p] /\ s.pl[p].at \in Battles \union {None}
    BY <1>5 DEF Good, States, Character
  <2>2. \A c \in Battles : p \in Entries(n, c) <=> s.pl[p].at = c
    BY <1>6 DEF Good, Agree
  <2>3. s.pl[p].at # None => n.bt[s.pl[p].at].use
    BY <1>6, <2>1 DEF Good, Agree
  <2>4. s.pl[p].at = None <=> s.pl[p].mode \in {"NONE", "FINAL"}
    BY DEF Good, Agree
  <2> QED BY <2>1, <2>2, <2>3, <2>4
<1>9. Seated(n)
  <2> SUFFICES ASSUME NEW c \in Battles
               PROVE  /\ n.bt[c].type = "P_vs_P" =>
                           \A p \in Entries(n, c) : n.pl[p].mode # "RESCUE"
                      /\ \A j \in Sides : Cardinality(n.bt[c].side[j]) <= PlayerMax
                      /\ n.bt[c].side[1] # {} => n.bt[c].type = "P_vs_P"
    BY DEF Seated
  <2>1. CASE c = b
    <3>1. Cardinality({}) <= PlayerMax
      BY FS_EmptySet, BattleAssumption DEF BattleAssumption
    <3> QED BY <1>2, <1>5, <2>1, <3>1 DEF Sides, Entries
  <2>2. CASE c # b
    BY <1>5, <1>6, <2>2 DEF Good, Seated
  <2> QED BY <2>1, <2>2
<1>10. Linked(n)
  <2> SUFFICES ASSUME NEW c \in Battles, NEW d \in Battles
               PROVE  /\ n.bt[c].next = d <=> n.bt[d].before = c
                      /\ n.bt[c].next = d =>
                           n.bt[c].use /\ n.bt[d].use /\ n.bt[d].type = "WATCH"
    BY DEF Linked
  <2>1. /\ s.bt[c].next = d <=> s.bt[d].before = c
        /\ s.bt[c].next = d =>
             s.bt[c].use /\ s.bt[d].use /\ s.bt[d].type = "WATCH"
    BY DEF Good, Linked
  <2> QED BY <1>6, <2>1
<1>11. Founded(n)
  BY <1>6 DEF Good, Founded
<1>12. \A c \in Battles : Headed(s, c) => Headed(n, c)
  <2> SUFFICES ASSUME NEW c \in Battles, Headed(s, c) PROVE Headed(n, c)
    OBVIOUS
  <2>1. PICK m \in Battles : s.bt[m].use /\ s.bt[m].type # "WATCH" /\ c \in Behind(s, m)
    BY DEF Headed
  <2>2. c \in Behind(n, m)
    BY <1>5, <1>6, <2>1, BehindKept
  <2> QED BY <1>6, <2>1, <2>2 DEF Headed
<1>13. AllHeaded(n)
  <2> SUFFICES ASSUME NEW c \in Battles, n.bt[c].type = "WATCH", Entries(n, c) # {}
               PROVE  Headed(n, c)
    BY DEF AllHeaded
  <2>1. c # b
    BY <1>2, <1>5 DEF Entries, Sides
  <2> QED BY <1>5, <1>6, <1>12, <2>1 DEF Good, AllHeaded
<1>14. Single(n)
  BY <1>6 DEF Good, Single, Sides
<1> QED BY <1>2, <1>5, <1>7, <1>8, <1>9, <1>10, <1>11, <1>12, <1>13, <1>14 DEF Good

(* The players of P may come into b, to side j of it.                      *)
MayJoin(s, P, b, j, mode) ==
  /\ mode \in {"INIT", "RESCUE", "WATCHINIT"}
  /\ \A p \in P : s.pl[p].at \in {None, b}
  /\ \A k \in Sides \ {j} :
       \A p, q \in (s.bt[b].side[j] \union P) \intersect s.bt[b].side[k] : p = q
  /\ s.bt[b].use
  /\ s.bt[b].type = "P_vs_P" => mode # "RESCUE"
  /\ j = 1 => s.bt[b].type = "P_vs_P"
  /\ Cardinality(s.bt[b].side[j] \union P) <= PlayerMax
  /\ s.bt[b].type = "WATCH" => Headed(s, b)

(* They came in, and nobody else is touched.                               *)
Came(s, n, P, b, j) ==
  /\ Good(n) /\ \A p \in Players \ P : n.pl[p] = s.pl[p]
  /\ \A p \in P : n.pl[p].at = b
  /\ n.bt[b].use /\ n.bt[b].type = s.bt[b].type
  /\ n.bt[b].side[j] = s.bt[b].side[j] \union P
  /\ j = 0 => n.bt[b].side[1] = s.bt[b].side[1]

LEMMA NewEntryGood ==
  ASSUME NEW s, Good(s), NEW P \in SUBSET Players, NEW b \in Battles, NEW j \in Sides,
         NEW mode, MayJoin(s, P, b, j, mode),
         NEW n, n = NewEntry(s, P, b, j, mode)
  PROVE  Came(s, n, P, b, j)
<1> USE DEF MayJoin
<1> DEFINE ch(p) == IF p \in P
                    THEN [mode |-> mode, at |-> b, watch |-> mode = "WATCHINIT",
                          dead |-> s.pl[p].dead]
                    ELSE s.pl[p]
           side == [s.bt[b].side EXCEPT ![j] = s.bt[b].side[j] \union P]
           slot == [s.bt[b] EXCEPT !.side = side]
<1>1. s \in States /\ s.bt[b] \in Slots /\ s.bt[b].side \in [Sides -> SUBSET Players]
  BY DEF Good, States, Slots
<1>2. \A p \in Players : /\ ch(p) \in Character
                         /\ p \in P => ch(p).at = b /\ ch(p).mode = mode
                         /\ p \notin P => ch(p) = s.pl[p]
  <2> TAKE p \in Players
  <2>1. s.pl[p] \in Character
    BY <1>1 DEF States
  <2>2. s.pl[p].dead \in BOOLEAN /\ mode \in CharModes
    BY <2>1 DEF Character, CharModes
  <2>3. CASE p \in P
    <3>1. [mode |-> mode, at |-> b, watch |-> mode = "WATCHINIT", dead |-> s.pl[p].dead]
            \in Character
      BY <2>2 DEF Character
    <3> QED BY <2>3, <3>1
  <2>4. CASE p \notin P
    BY <2>1, <2>4
  <2> QED BY <2>3, <2>4
<1>3. /\ side \in [Sides -> SUBSET Players]
      /\ \A k \in Sides : side[k] = IF k = j THEN s.bt[b].side[k] \union P
                                   ELSE s.bt[b].side[k]
  BY <1>1
<1> HIDE DEF side
<1>4. /\ slot \in Slots /\ slot.side = side /\ slot.use = s.bt[b].use
      /\ slot.type = s.bt[b].type /\ slot.next = s.bt[b].next
      /\ slot.before = s.bt[b].before
  BY <1>1, <1>3 DEF Slots
<1>5. n = [pl |-> [p \in Players |-> ch(p)], bt |-> [s.bt EXCEPT ![b] = slot]]
  BY <1>1 DEF NewEntry, side
<1> HIDE DEF ch, slot
<1>6. /\ n \in States /\ n.bt[b] = slot /\ \A c \in Battles \ {b} : n.bt[c] = s.bt[c]
      /\ \A p \in Players : n.pl[p] = ch(p)
  BY <1>1, <1>2, <1>4, <1>5 DEF States
<1>7. Blank(n) /\ SameChains(s, n)
  BY <1>4, <1>6 DEF Good, Blank, SameChains
<1>8. \A c \in Battles, k \in Sides :
        n.bt[c].side[k] = IF c = b /\ k = j THEN s.bt[c].side[k] \union P
                          ELSE s.bt[c].side[k]
  BY <1>3, <1>4, <1>6
<1>9. \A p \in P : /\ s.pl[p].at \in {None, b} /\ n.pl[p].at = b
                   /\ n.pl[p].mode \notin {"NONE", "FINAL"}
                   /\ s.bt[b].type = "P_vs_P" => n.pl[p].mode # "RESCUE"
  BY <1>2, <1>6
<1>10. \A p \in Players \ P : n.pl[p] = s.pl[p]
  BY <1>2, <1>6
<1>11. Entered(s, n, P, b, j)
  BY <1>8, <1>9, <1>10 DEF Entered
<1>12. \A p, q \in n.bt[b].side[0] \intersect n.bt[b].side[1] : p = q
  <2>1. \A k \in Sides \ {j} :
          \A p, q \in n.bt[b].side[j] \intersect n.bt[b].side[k] : p = q
    <3> TAKE k \in Sides \ {j}
    <3>1. \A p, q \in (s.bt[b].side[j] \union P) \intersect s.bt[b].side[k] : p = q
      OBVIOUS
    <3>2. /\ n.bt[b].side[j] = s.bt[b].side[j] \union P
          /\ n.bt[b].side[k] = s.bt[b].side[k]
      BY ONLY <1>8, b \in Battles, j \in Sides, k \in Sides \ {j}
    <3> QED BY ONLY <3>1, <3>2
  <2>2. CASE j = 0
    BY <2>1, <2>2 DEF Sides
  <2>3. CASE j = 1
    BY <2>1, <2>3 DEF Sides
  <2> QED BY <2>2, <2>3 DEF Sides
<1>13. Good(n)
  BY <1>6, <1>7, <1>11, <1>12, EnterStep
<1>14. /\ n.bt[b].side[j] = s.bt[b].side[j] \union P
       /\ j = 0 => n.bt[b].side[1] = s.bt[b].side[1]
  <2>1. n.bt[b].side[j] = s.bt[b].side[j] \union P
    BY ONLY <1>8, b \in Battles, j \in Sides
  <2>2. ASSUME j = 0 PROVE n.bt[b].side[1] = s.bt[b].side[1]
    <3>1. 1 \in Sides /\ ~(1 = j)
      BY <2>2 DEF Sides
    <3> QED BY ONLY <1>8, <3>1, b \in Battles
  <2> QED BY <2>1, <2>2
<1> QED BY <1>4, <1>6, <1>9, <1>10, <1>13, <1>14 DEF Came

(* The players of P are the first on a side of b.                          *)
LEMMA FirstEntryGood ==
  ASSUME NEW s, Good(s), NEW P \in SUBSET Players, NEW b \in Battles, NEW j \in Sides,
         NEW mode \in {"INIT", "WATCHINIT"},
         \A p \in P : s.pl[p].at \in {None, b},
         \A k \in Sides \ {j} : \A p, q \in P \intersect s.bt[b].side[k] : p = q,
         Cardinality(P) <= PlayerMax, s.bt[b].side[j] = {},
         s.bt[b].use,
         j = 1 => s.bt[b].type = "P_vs_P",
         s.bt[b].type = "WATCH" => Headed(s, b),
         NEW n, n = NewEntry(s, P, b, j, mode)
  PROVE  Came(s, n, P, b, j)
<1>1. s.bt[b].side[j] \union P = P
  OBVIOUS
<1>2. Cardinality(s.bt[b].side[j] \union P) <= PlayerMax
  BY <1>1
<1>3. MayJoin(s, P, b, j, mode)
  BY <1>2 DEF MayJoin
<1>4. mode \in {"INIT", "RESCUE", "WATCHINIT"}
  OBVIOUS
<1> QED BY <1>3, NewEntryGood

(* p, who is in no battle, comes to where t is, or nothing happens.        *)
LEMMA RescueEntryGood ==
  ASSUME NEW s, Good(s), NEW p \in Players, NEW t \in Players, s.pl[p].at = None
  PROVE  Good(RescueEntry(s, p, t))
<1> DEFINE b == s.pl[t].at
<1>1. b \in Battles \union {None}
  BY DEF Good, States, Character
<1>2. RescueEntry(s, p, t) =
        IF b = None THEN s
        ELSE IF ~s.bt[b].use \/ s.bt[b].type = "P_vs_P"
                 \/ Cardinality(s.bt[b].side[0]) >= PlayerMax THEN s
        ELSE NewEntry(s, {p}, b, 0, "RESCUE")
  BY DEF RescueEntry
<1>3. ASSUME b # None, s.bt[b].use, s.bt[b].type # "P_vs_P",
             ~(Cardinality(s.bt[b].side[0]) >= PlayerMax)
      PROVE  Good(NewEntry(s, {p}, b, 0, "RESCUE"))
  <2>1. b \in Battles
    BY <1>1, <1>3
  <2>2. s.bt[b].side[0] \subseteq Players
    BY <2>1 DEF Good, States, Slots, Sides
  <2>3. Cardinality(s.bt[b].side[0] \union {p}) <= PlayerMax
    <3> DEFINE S == s.bt[b].side[0]
    <3>1. IsFiniteSet(S)
      BY <2>2, BattleAssumption, FS_Subset DEF BattleAssumption
    <3>2. ~(Cardinality(S) >= PlayerMax)
      BY <1>3
    <3> HIDE DEF S
    <3>3. Cardinality(S) \in Nat
      BY <3>1, FS_CardinalityType
    <3>4. Cardinality(S \union {p}) = IF p \in S THEN Cardinality(S) ELSE Cardinality(S) + 1
      BY <3>1, FS_AddElement
    <3>5. Cardinality(S \union {p}) <= PlayerMax
      BY <3>2, <3>3, <3>4, BattleAssumption DEF BattleAssumption
    <3> QED BY <3>5 DEF S
  <2>4. s.bt[b].type = "WATCH" => Headed(s, b)
    <3>1. t \in Entries(s, b)
      BY <2>1 DEF Good, Agree
    <3> QED BY <2>1, <3>1 DEF Good, AllHeaded
  <2> HIDE DEF b
  <2>5. /\ \A q \in {p} : s.pl[q].at \in {None, b}
        /\ \A k \in Sides \ {0} :
             \A q, r \in (s.bt[b].side[0] \union {p}) \intersect s.bt[b].side[k] : q = r
    <3>1. s.bt[b].side[1] = {}
      BY <1>3, <2>1 DEF Good, Seated
    <3> QED BY <3>1 DEF Sides
  <2>6. {p} \in SUBSET Players /\ 0 \in Sides
    BY DEF Sides
  <2>7. "RESCUE" \in {"INIT", "RESCUE", "WATCHINIT"} /\ ~(0 = 1)
    OBVIOUS
  <2>8. PICK n : n = NewEntry(s, {p}, b, 0, "RESCUE")
    OBVIOUS
  <2>a. MayJoin(s, {p}, b, 0, "RESCUE")
    BY <1>3, <2>3, <2>4, <2>5, <2>7 DEF MayJoin
  <2>9. Came(s, n, {p}, b, 0)
    BY <2>1, <2>6, <2>7, <2>8, <2>a, NewEntryGood
  <2> QED BY <2>8, <2>9 DEF Came
<1> HIDE DEF b
<1> QED BY <1>2, <1>3

(* A watch battle, new and empty, is put behind top.                       *)
LEMMA WatchLinkGood ==
  ASSUME NEW s, Good(s), NEW top \in Battles, NEW b \in Battles,
         top # b, s.bt[top].use, s.bt[b].use, s.bt[b].type = "WATCH",
         s.bt[b].next = None, s.bt[b].before = None,
         \A j \in Sides : s.bt[b].side[j] = {},
         s.bt[top].type # "WATCH" \/ Headed(s, top),
         NEW n, n = WatchLink(s, top, b)
  PROVE  /\ Good(n) /\ Headed(n, b) /\ n.pl = s.pl
         /\ n.bt[b].use /\ n.bt[b].type = "WATCH" /\ n.bt[b].side = s.bt[b].side
<1> DEFINE old == s.bt[top].next
           in(c) == CASE c = top -> [s.bt[c] EXCEPT !.next = b]
                      [] c = b   -> [s.bt[c] EXCEPT !.before = top, !.next = old]
                      [] c = old -> [s.bt[c] EXCEPT !.before = b]
                      [] OTHER   -> s.bt[c]
<1>1. /\ s \in States /\ \A c \in Battles : s.bt[c] \in Slots
      /\ None \notin Battles /\ Linked(s) /\ Blank(s)
      /\ old \in Battles \union {None}
  BY BattleAssumption DEF Good, States, Slots, BattleAssumption
<1>2. old # b /\ old # top
  BY <1>1, NeighboursDiffer DEF Linked
<1> HIDE DEF old
<1>3. ASSUME NEW c \in Battles
      PROVE  /\ in(c) \in Slots
             /\ in(c).use = s.bt[c].use /\ in(c).type = s.bt[c].type
             /\ in(c).side = s.bt[c].side
             /\ in(c).next = IF c = top THEN b ELSE IF c = b THEN old ELSE s.bt[c].next
             /\ in(c).before = IF c = b THEN top ELSE IF c = old THEN b
                               ELSE s.bt[c].before
             /\ c \notin {top, b, old} => in(c) = s.bt[c]
  <2>1. s.bt[c] \in Slots
    BY <1>1
  <2>2. CASE c = top
    BY <1>1, <1>2, <2>1, <2>2 DEF Slots
  <2>3. CASE c = b
    BY <1>1, <1>2, <2>1, <2>3 DEF Slots
  <2>4. CASE c = old /\ c # top /\ c # b
    BY <2>1, <2>4 DEF Slots
  <2>5. CASE c \notin {top, b, old}
    BY <2>1, <2>5 DEF Slots
  <2> QED BY <2>2, <2>3, <2>4, <2>5
<1>4. n = [s EXCEPT !.bt = [c \in Battles |-> in(c)]]
  BY DEF WatchLink, old
<1> HIDE DEF in
<1>5. /\ n \in States /\ n.pl = s.pl
      /\ \A c \in Battles : n.bt[c] = in(c)
  BY <1>1, <1>3, <1>4 DEF States
<1>6. Blank(n)
  <2> SUFFICES ASSUME NEW c \in Battles, ~n.bt[c].use PROVE n.bt[c] = Unused
    BY DEF Blank
  <2>1. ~s.bt[c].use /\ c # top /\ c # b
    BY <1>3, <1>5
  <2>2. c # old
    BY <1>1, <2>1 DEF Linked, old
  <2> QED BY <1>1, <1>3, <1>5, <2>1, <2>2 DEF Blank
<1>7. Entries(s, b) = {}
  BY DEF Entries, Sides
<1>8. \A c \in Battles :
        /\ n.bt[c].use = s.bt[c].use /\ n.bt[c].type = s.bt[c].type
        /\ n.bt[c].side = s.bt[c].side
        /\ n.bt[c].next = IF c = top THEN b ELSE IF c = b THEN old ELSE s.bt[c].next
        /\ n.bt[c].before = IF c = b THEN top ELSE IF c = old THEN b
                            ELSE s.bt[c].before
  BY <1>3, <1>5
<1>9. Good(n) /\ Headed(n, b)
  <2>1. old = s.bt[top].next
    BY DEF old
  <2>2. Good(n) /\ (s.bt[top].type # "WATCH" \/ Headed(s, top) => Headed(n, b))
    BY <1>5, <1>6, <1>7, <1>8, <2>1, LinkStep
  <2> QED BY <2>2
<1> QED BY <1>5, <1>8, <1>9

-----------------------------------------------------------------------------
(* Players of P are sent out of b.                                         *)
LEMMA ExitGood ==
  ASSUME NEW s, Good(s), NEW P, NEW b \in Battles, s.bt[b].use,
         NEW n, n = Exit(s, P, b)
  PROVE  /\ Good(n) /\ SameChains(s, n)
         /\ n.bt[b].mode = s.bt[b].mode
         /\ Entries(n, b) = Entries(s, b) \ P
         /\ \A p \in Players \ (P \intersect Entries(s, b)) : n.pl[p] = s.pl[p]
         /\ \A p \in P \intersect Entries(s, b) : n.pl[p].at = None
<1> DEFINE gone == P \intersect Entries(s, b)
           left == [Fresh EXCEPT !.mode = "FINAL"]
           side == [j \in Sides |-> s.bt[b].side[j] \ gone]
           slot == [s.bt[b] EXCEPT !.side = side]
           ch(p) == IF p \in gone THEN left ELSE s.pl[p]
<1>1. /\ s \in States /\ s.bt[b] \in Slots /\ Blank(s) /\ Agree(s)
      /\ s.bt[b].side \in [Sides -> SUBSET Players] /\ None \notin Battles
  BY BattleAssumption DEF Good, States, Slots, BattleAssumption
<1>2. left \in Character /\ left.at = None /\ left.mode = "FINAL"
  BY DEF Fresh, Character, CharModes
<1>3. /\ gone \subseteq Players
      /\ side \in [Sides -> SUBSET Players]
      /\ \A j \in Sides : side[j] = s.bt[b].side[j] \ gone
  BY <1>1 DEF Entries, Sides
<1>4. n = [pl |-> [p \in Players |-> ch(p)], bt |-> [s.bt EXCEPT ![b] = slot]]
  BY <1>1 DEF Exit
<1>5. Entries(s, b) \ gone = Entries(s, b) \ P
  OBVIOUS
<1>a. gone = P \intersect Entries(s, b)
  OBVIOUS
<1> HIDE DEF gone, left, side
<1>6. /\ slot \in Slots /\ slot.side = side /\ slot.use = s.bt[b].use
      /\ slot.type = s.bt[b].type /\ slot.next = s.bt[b].next
      /\ slot.before = s.bt[b].before /\ slot.mode = s.bt[b].mode
  BY <1>1, <1>3 DEF Slots
<1>7. \A p \in Players : /\ ch(p) \in Character
                         /\ p \in gone => ch(p) = left
                         /\ p \notin gone => ch(p) = s.pl[p]
  BY <1>1, <1>2 DEF States
<1> HIDE DEF slot, ch
<1>8. /\ n \in States /\ n.bt[b] = slot
      /\ \A c \in Battles \ {b} : n.bt[c] = s.bt[c]
      /\ \A p \in Players : n.pl[p] = ch(p)
  BY <1>1, <1>4, <1>6, <1>7 DEF States
<1>9. Blank(n) /\ SameChains(s, n)
  BY <1>1, <1>6, <1>8 DEF Blank, SameChains
<1>10. ASSUME NEW c \in Battles, NEW j \in Sides
       PROVE  n.bt[c].side[j] = s.bt[c].side[j] \ gone
  <2>1. CASE c = b
    BY <1>3, <1>6, <1>8, <2>1
  <2>2. CASE c # b
    <3>1. \A p \in gone : p \in Players /\ p \in Entries(s, b)
      BY <1>3, <1>a
    <3>2. \A p \in gone : p \notin Entries(s, c)
      BY <1>1, <2>2, <3>1 DEF Agree
    <3>3. s.bt[c].side[j] \ gone = s.bt[c].side[j]
      BY <3>2 DEF Entries, Sides
    <3> QED BY <1>8, <2>2, <3>3
  <2> QED BY <2>1, <2>2
<1>11. \A p \in gone : n.pl[p].at = None /\ n.pl[p].mode \in {"NONE", "FINAL"}
  BY <1>2, <1>3, <1>7, <1>8
<1>12. \A p \in Players \ gone : n.pl[p] = s.pl[p]
  BY <1>7, <1>8
<1>13. gone \in SUBSET Players
  BY <1>3
<1>b. Left(s, n, gone)
  BY <1>10, <1>11, <1>12 DEF Left
<1>14. Good(n)
  BY <1>8, <1>9, <1>13, <1>b, LeaveStep
<1>15. Entries(n, b) = Entries(s, b) \ P
  <2>1. Entries(n, b) = Entries(s, b) \ gone
    BY <1>10 DEF Entries, Sides
  <2> QED BY <1>5, <2>1
<1> QED BY <1>6, <1>8, <1>9, <1>11, <1>12, <1>14, <1>15, <1>a

(* Players who are in battles get another mode.                            *)
LEMMA SetModeGood ==
  ASSUME NEW s, Good(s), NEW P, NEW mode \in {"C_WAIT", "C_OK"},
         \A p \in P : p \in Players => s.pl[p].at # None,
         NEW n, n = SetMode(s, P, mode)
  PROVE  Good(n) /\ n.bt = s.bt /\ \A p \in Players : n.pl[p].at = s.pl[p].at
<1> DEFINE ch(p) == IF p \in P THEN [s.pl[p] EXCEPT !.mode = mode] ELSE s.pl[p]
<1>1. s \in States /\ Blank(s) /\ Agree(s)
  BY DEF Good
<1>2. ASSUME NEW p \in Players
      PROVE  /\ ch(p) \in Character /\ ch(p).at = s.pl[p].at
             /\ ch(p).mode = IF p \in P THEN mode ELSE s.pl[p].mode
  <2>1. s.pl[p] \in Character /\ mode \in CharModes
    BY <1>1 DEF States, CharModes
  <2> QED BY <2>1 DEF Character
<1>3. n = [s EXCEPT !.pl = [p \in Players |-> ch(p)]]
  BY DEF SetMode
<1> HIDE DEF ch
<1>4. n \in States /\ n.bt = s.bt /\ \A p \in Players : n.pl[p] = ch(p)
  BY <1>1, <1>2, <1>3 DEF States
<1>5. Blank(n) /\ SameChains(s, n)
  BY <1>1, <1>4 DEF Blank, SameChains
<1>6. ASSUME NEW p \in Players
      PROVE  /\ n.pl[p].at = s.pl[p].at
             /\ n.pl[p].mode = "RESCUE" => s.pl[p].mode = "RESCUE"
             /\ n.pl[p].mode \in {"NONE", "FINAL"} <=> s.pl[p].mode \in {"NONE", "FINAL"}
  <2>1. s.pl[p].at = None <=> s.pl[p].mode \in {"NONE", "FINAL"}
    BY <1>1 DEF Agree
  <2>2. p \in P => s.pl[p].at # None
    OBVIOUS
  <2> QED BY <1>2, <1>4, <2>1, <2>2
<1>7. \A b \in Battles : n.bt[b].side = s.bt[b].side
  BY <1>4
<1>8. Good(n)
  BY <1>4, <1>5, <1>6, <1>7, ModeStep
<1> QED BY <1>4, <1>6, <1>8

(* Battles get another mode.                                               *)
LEMMA SetBattlesGood ==
  ASSUME NEW s, Good(s), NEW B, NEW mode \in BattleModes,
         \A b \in B : b \in Battles => s.bt[b].use,
         NEW n, n = SetBattles(s, B, mode)
  PROVE  /\ Good(n) /\ n.pl = s.pl /\ SameChains(s, n)
         /\ \A b \in Battles : n.bt[b].side = s.bt[b].side
<1> DEFINE slot(b) == IF b \in B THEN [s.bt[b] EXCEPT !.mode = mode] ELSE s.bt[b]
<1>1. s \in States /\ Blank(s)
  BY DEF Good
<1>2. ASSUME NEW b \in Battles
      PROVE  /\ slot(b) \in Slots /\ slot(b).use = s.bt[b].use
             /\ slot(b).type = s.bt[b].type /\ slot(b).side = s.bt[b].side
             /\ slot(b).next = s.bt[b].next /\ slot(b).before = s.bt[b].before
             /\ ~s.bt[b].use => slot(b) = s.bt[b]
  <2>1. s.bt[b] \in Slots
    BY <1>1 DEF States
  <2> QED BY <2>1 DEF Slots
<1>3. n = [s EXCEPT !.bt = [b \in Battles |-> slot(b)]]
  BY DEF SetBattles
<1> HIDE DEF slot
<1>4. n \in States /\ n.pl = s.pl /\ \A b \in Battles : n.bt[b] = slot(b)
  BY <1>1, <1>2, <1>3 DEF States
<1>5. Blank(n) /\ SameChains(s, n)
  BY <1>1, <1>2, <1>4 DEF Blank, SameChains
<1>6. \A b \in Battles : n.bt[b].side = s.bt[b].side
  BY <1>2, <1>4
<1>7. Good(n)
  BY <1>4, <1>5, <1>6, ModeStep
<1> QED BY <1>4, <1>5, <1>6, <1>7

-----------------------------------------------------------------------------
(* An empty battle is deleted.                                             *)
LEMMA DeleteBattleGood ==
  ASSUME NEW s, Good(s), NEW b \in Battles, Entries(s, b) = {},
         \/ s.bt[b].type = "WATCH"
         \/ \A c \in Behind(s, b) : Entries(s, c) = {},
         NEW n, n = DeleteBattle(s, b)
  PROVE  /\ Good(n) /\ n.bt[b] = Unused
         /\ \A c \in Battles \ {b} :
              /\ n.bt[c].use = s.bt[c].use /\ n.bt[c].type = s.bt[c].type
              /\ n.bt[c].side = s.bt[c].side
              /\ n.bt[c].next = IF c = s.bt[b].before THEN s.bt[b].next
                                ELSE s.bt[c].next
<1> DEFINE top == s.bt[b].before
           nxt == s.bt[b].next
           slot(c) == CASE c = top -> [s.bt[c] EXCEPT !.next = nxt]
                        [] c = nxt -> [s.bt[c] EXCEPT !.before = top]
                        [] OTHER   -> s.bt[c]
           u == [s EXCEPT !.bt = [c \in Battles |-> slot(c)]]
<1>1. /\ s \in States /\ \A c \in Battles : s.bt[c] \in Slots
      /\ None \notin Battles /\ Linked(s) /\ Blank(s)
      /\ top \in Battles \union {None} /\ nxt \in Battles \union {None}
  BY BattleAssumption DEF Good, States, Slots, BattleAssumption
<1>2. top # b /\ nxt # b /\ (nxt # None => nxt # top)
  BY NeighboursDiffer
<1>3. /\ top \in Battles => s.bt[top].use
      /\ nxt \in Battles => s.bt[nxt].use
  BY <1>1 DEF Linked
<1>4. n = [u EXCEPT !.bt[b] = Unused]
  BY DEF DeleteBattle, WatchUnLink
<1>a. top = s.bt[b].before /\ nxt = s.bt[b].next
  OBVIOUS
<1> HIDE DEF top, nxt
<1>5. ASSUME NEW c \in Battles
      PROVE  /\ slot(c) \in Slots
             /\ slot(c).use = s.bt[c].use /\ slot(c).type = s.bt[c].type
             /\ slot(c).side = s.bt[c].side
             /\ slot(c).next = IF c = top THEN nxt ELSE s.bt[c].next
             /\ slot(c).before = IF c = nxt THEN top ELSE s.bt[c].before
             /\ c \notin {top, nxt} => slot(c) = s.bt[c]
  <2>1. s.bt[c] \in Slots
    BY <1>1
  <2>2. CASE c = top
    BY <1>1, <1>2, <2>1, <2>2 DEF Slots
  <2>3. CASE c = nxt /\ c # top
    BY <1>1, <2>1, <2>3 DEF Slots
  <2>4. CASE c \notin {top, nxt}
    BY <2>1, <2>4 DEF Slots
  <2> QED BY <2>2, <2>3, <2>4
<1> HIDE DEF slot
<1>6. u \in States /\ u.pl = s.pl /\ \A c \in Battles : u.bt[c] = slot(c)
  BY <1>1, <1>5 DEF States
<1> HIDE DEF u
<1>7. Unused \in Slots
  <2> DEFINE none == [j \in Sides |-> {}]
  <2>1. none \in [Sides -> SUBSET Players]
    OBVIOUS
  <2>2. Unused = [use |-> FALSE, mode |-> "NONE", type |-> "NONE", turn |-> 0,
                  side |-> none, next |-> None, before |-> None]
    BY DEF Unused
  <2> HIDE DEF none
  <2> QED BY <2>1, <2>2 DEF Slots, BattleModes, Types
<1>8. /\ n \in States /\ n.pl = s.pl /\ n.bt[b] = Unused
      /\ \A c \in Battles \ {b} : n.bt[c] = slot(c)
  BY <1>4, <1>6, <1>7 DEF States
<1>9. Blank(n)
  <2> SUFFICES ASSUME NEW c \in Battles \ {b}, ~n.bt[c].use PROVE n.bt[c] = Unused
    BY <1>8 DEF Blank
  <2>1. ~s.bt[c].use
    BY <1>5, <1>8
  <2>2. c \notin {top, nxt}
    BY <1>3, <2>1
  <2> QED BY <1>1, <1>5, <1>8, <2>1, <2>2 DEF Blank
<1>10. \A c \in Battles \ {b} :
         /\ n.bt[c].use = s.bt[c].use /\ n.bt[c].type = s.bt[c].type
         /\ n.bt[c].side = s.bt[c].side
         /\ n.bt[c].next = IF c = top THEN nxt ELSE s.bt[c].next
         /\ n.bt[c].before = IF c = nxt THEN top ELSE s.bt[c].before
  BY <1>5, <1>8
<1>11. Good(n)
  BY <1>8, <1>9, <1>10, <1>a, DeleteStep
<1> QED BY <1>8, <1>10, <1>11, <1>a

(* Everybody leaves b, and whoever watches it.                             *)
LEMMA DismissedGood ==
  ASSUME NEW s, Good(s), NEW b \in Battles, s.bt[b].use,
         NEW n, n = Dismissed(s, b)
  PROVE  /\ Good(n) /\ SameChains(s, n) /\ Entries(n, b) = {}
         /\ s.bt[b].type # "WATCH" => \A c \in Behind(s, b) : Entries(n, c) = {}
<1> DEFINE shows == IF s.bt[b].type = "WATCH" THEN {} ELSE Behind(s, b)
           out == Entries(s, b) \union UNION {s.bt[c].side[0] : c \in shows}
           empty == [j \in Sides |-> {}]
           left == [Fresh EXCEPT !.mode = "FINAL"]
           ch(p) == IF p \in out THEN left ELSE s.pl[p]
           slot(c) == IF c \in shows \union {b} THEN [s.bt[c] EXCEPT !.side = empty]
                      ELSE s.bt[c]
<1>1. /\ s \in States /\ Blank(s) /\ Agree(s) /\ Seated(s) /\ Linked(s)
      /\ None \notin Battles
  BY BattleAssumption DEF Good, BattleAssumption
<1>2. \A c \in shows : c \in Battles /\ s.bt[c].use /\ s.bt[c].type = "WATCH"
  BY <1>1, BehindWatch
<1>3. /\ s.bt[b].type # "WATCH" => Behind(s, b) \subseteq shows
      /\ Entries(s, b) \subseteq out
      /\ \A c \in shows : s.bt[c].side[0] \subseteq out
      /\ \A p \in out : p \in Entries(s, b) \/ \E c \in shows : p \in s.bt[c].side[0]
  OBVIOUS
<1>4. left \in Character /\ left.at = None /\ left.mode = "FINAL"
  BY DEF Fresh, Character, CharModes
<1>5. empty \in [Sides -> SUBSET Players] /\ \A j \in Sides : empty[j] = {}
  OBVIOUS
<1>6. n = [pl |-> [p \in Players |-> ch(p)], bt |-> [c \in Battles |-> slot(c)]]
  BY DEF Dismissed
<1> HIDE DEF shows, out, empty, left
<1>7. ASSUME NEW p \in Players
      PROVE  /\ ch(p) \in Character
             /\ p \in out => ch(p) = left
             /\ p \notin out => ch(p) = s.pl[p]
  BY <1>1, <1>4 DEF States
<1>8. ASSUME NEW c \in Battles
      PROVE  /\ slot(c) \in Slots /\ slot(c).use = s.bt[c].use
             /\ slot(c).type = s.bt[c].type
             /\ slot(c).next = s.bt[c].next /\ slot(c).before = s.bt[c].before
             /\ c \in shows \union {b} => slot(c).side = empty
             /\ c \notin shows \union {b} => slot(c) = s.bt[c]
  <2>1. s.bt[c] \in Slots
    BY <1>1 DEF States
  <2> QED BY <1>5, <2>1 DEF Slots
<1> HIDE DEF ch, slot
<1>9. /\ n \in States /\ \A p \in Players : n.pl[p] = ch(p)
      /\ \A c \in Battles : n.bt[c] = slot(c)
  BY <1>6, <1>7, <1>8 DEF States
<1>10. Blank(n) /\ SameChains(s, n)
  BY <1>1, <1>2, <1>8, <1>9 DEF Blank, SameChains
<1>11. out \subseteq Players
  BY <1>1, <1>2, <1>3 DEF States, Slots, Entries, Sides
<1>12. ASSUME NEW c \in Battles, NEW j \in Sides
       PROVE  n.bt[c].side[j] = s.bt[c].side[j] \ out
  <2>1. CASE c \in shows \union {b}
    <3>1. n.bt[c].side[j] = {}
      BY <1>5, <1>8, <1>9, <2>1
    <3>2. s.bt[c].side[j] \subseteq out
      <4>1. CASE c = b
        BY <1>3, <4>1 DEF Entries, Sides
      <4>2. CASE c \in shows
        <5>1. s.bt[c].side[1] = {}
          BY <1>1, <1>2, <4>2 DEF Seated
        <5> QED BY <1>3, <4>2, <5>1 DEF Sides
      <4> QED BY <2>1, <4>1, <4>2
    <3> QED BY <3>1, <3>2
  <2>2. CASE c \notin shows \union {b}
    <3>1. ASSUME NEW p \in out PROVE p \notin s.bt[c].side[j]
      <4>1. PICK d \in shows \union {b} : p \in Entries(s, d)
        BY <1>3 DEF Entries
      <4>2. d \in Battles /\ d # c /\ p \in Players
        BY <1>2, <1>11, <2>2
      <4>3. p \notin Entries(s, c)
        BY <1>1, <4>1, <4>2 DEF Agree
      <4> QED BY <4>3 DEF Entries, Sides
    <3>2. n.bt[c].side[j] = s.bt[c].side[j]
      BY <1>8, <1>9, <2>2
    <3> QED BY <3>1, <3>2
  <2> QED BY <2>1, <2>2
<1>13. \A p \in out : n.pl[p].at = None /\ n.pl[p].mode \in {"NONE", "FINAL"}
  BY <1>4, <1>7, <1>9, <1>11
<1>14. \A p \in Players \ out : n.pl[p] = s.pl[p]
  BY <1>7, <1>9
<1>a. Left(s, n, out)
  BY <1>12, <1>13, <1>14 DEF Left
<1>15. Good(n)
  BY <1>9, <1>10, <1>11, <1>a, LeaveStep
<1>16. \A c \in shows \union {b} : Entries(n, c) = {}
  BY <1>2, <1>5, <1>8, <1>9 DEF Entries, Sides
<1> QED BY <1>3, <1>10, <1>15, <1>16

(* A battle ends, and with it the first of those that show it.             *)
LEMMA EndingGood ==
  ASSUME NEW s, Good(s), NEW b \in Battles, s.bt[b].use,
         NEW d, d = Dismissed(s, b), NEW r, r = ShowDeleted(d, b)
  PROVE  Good(DeleteBattle(r, b))
<1>1. /\ Good(d) /\ SameChains(s, d) /\ Entries(d, b) = {}
      /\ s.bt[b].type # "WATCH" => \A c \in Behind(s, b) : Entries(d, c) = {}
  BY DismissedGood
<1>2. /\ s \in States /\ d \in States /\ Linked(d) /\ None \notin Battles
      /\ \A c \in Battles : d.bt[c].next = s.bt[c].next
      /\ d.bt[b].type = s.bt[b].type
  BY <1>1, BattleAssumption DEF Good, SameChains, BattleAssumption
<1> DEFINE w == d.bt[b].next
<1>3. w \in Battles \union {None}
  BY <1>2 DEF States, Slots
<1>4. CASE d.bt[b].type = "WATCH" \/ w = None
  <2>1. r = d
    BY <1>4 DEF ShowDeleted
  <2>2. \/ d.bt[b].type = "WATCH"
        \/ \A c \in Behind(d, b) : Entries(d, c) = {}
    <3>1. Behind(d, b) \subseteq Behind(s, b)
      BY <1>2, BehindKept
    <3> QED BY <1>1, <1>2, <3>1
  <2> QED BY <1>1, <2>1, <2>2, DeleteBattleGood
<1>5. CASE d.bt[b].type # "WATCH" /\ w # None
  <2>1. r = DeleteBattle(d, w) /\ w \in Battles
    BY <1>3, <1>5 DEF ShowDeleted
  <2>2. d.bt[w].before = b /\ d.bt[w].type = "WATCH"
    BY <1>2, <2>1 DEF Linked
  <2>3. w \in Behind(s, b) /\ w # b
    <3>1. s.bt[b].next = w
      BY <1>2
    <3>2. s.bt[b].next \in Behind(s, b)
      BY <2>1, <3>1, BehindFollows
    <3>3. w # b
      BY <1>1, NeighboursDiffer
    <3> QED BY <3>1, <3>2, <3>3
  <2>4. Entries(d, w) = {}
    BY <1>1, <1>2, <1>5, <2>3
  <2> HIDE DEF w
  <2>5. /\ Good(r) /\ r.bt[w] = Unused
        /\ \A c \in Battles \ {w} :
             /\ r.bt[c].side = d.bt[c].side
             /\ r.bt[c].next = IF c = d.bt[w].before THEN d.bt[w].next
                               ELSE d.bt[c].next
    BY <1>1, <2>1, <2>2, <2>4, DeleteBattleGood
  <2> DEFINE S == Behind(s, b)
  <2>6. S \in SUBSET Battles
    BY DEF Behind
  <2>7. ASSUME NEW x \in S \union {b} PROVE d.bt[x].next \in S \union {None}
    <3>1. x \in Battles /\ d.bt[x].next \in Battles \union {None}
      BY <1>2, <2>6 DEF States, Slots
    <3>2. d.bt[x].next = s.bt[x].next
      BY <1>2, <3>1
    <3> QED BY <3>1, <3>2, BehindFollows
  <2>a. w \in S
    BY <2>3
  <2>b. \A c \in S : Entries(d, c) = {}
    BY <1>1, <1>2, <1>5
  <2> HIDE DEF S
  <2>8. ASSUME NEW x \in S \union {b} PROVE r.bt[x].next \in S \union {None}
    <3>1. x \in Battles
      BY <2>6
    <3>2. CASE x = w
      BY <2>5, <3>2 DEF Unused
    <3>3. CASE x # w
      BY <2>5, <2>7, <2>a, <3>1, <3>3
    <3> QED BY <3>2, <3>3
  <2>9. Behind(r, b) \subseteq S
    BY <2>6, <2>8, BehindLeast
  <2>10. ASSUME NEW c \in Battles PROVE Entries(r, c) \subseteq Entries(d, c)
    <3>1. CASE c = w
      BY <2>5, <3>1 DEF Unused, Entries, Sides
    <3>2. CASE c # w
      BY <2>5, <3>2 DEF Entries
    <3> QED BY <3>1, <3>2
  <2>11. Entries(r, b) = {} /\ \A c \in Behind(r, b) : Entries(r, c) = {}
    BY <1>1, <2>6, <2>9, <2>10, <2>b
  <2> QED BY <2>5, <2>11, DeleteBattleGood
<1> QED BY <1>4, <1>5

-----------------------------------------------------------------------------
(* The inductive invariant.                                                *)
Inv == Good(Now) /\ tries \in 0 .. MaxTries

(* A step to a good state.                                                 *)
LEMMA BecomesGood ==
  ASSUME NEW n, Good(n), Becomes(n)
  PROVE  Good(Now)'
<1>1. Now' = n
  BY DEF Becomes, Now, Good, States
<1> QED BY <1>1

(* What Good says of the players and of the slots.                         *)
LEMMA NowIs ==
  ASSUME Good(Now)
  PROVE  /\ Now.pl = pl /\ Now.bt = bt /\ None \notin Battles
         /\ \A p \in Players :
              /\ pl[p] \in Character
              /\ pl[p].at = None <=> pl[p].mode \in {"NONE", "FINAL"}
              /\ pl[p].at # None => /\ pl[p].at \in Battles /\ bt[pl[p].at].use
                                    /\ p \in Entries(Now, pl[p].at)
         /\ \A b \in Battles : bt[b] \in Slots /\ Entries(Now, b) \subseteq Players
         /\ \A b \in Battles : \A p \in Entries(Now, b) : pl[p].at = b
<1>1. Now.pl = pl /\ Now.bt = bt /\ Now \in States /\ Agree(Now)
  BY DEF Now, Good
<1>2. None \notin Battles
  BY BattleAssumption DEF BattleAssumption
<1>3. ASSUME NEW p \in Players
      PROVE  /\ pl[p] \in Character /\ pl[p].at \in Battles \union {None}
             /\ pl[p].at = None <=> pl[p].mode \in {"NONE", "FINAL"}
             /\ pl[p].at # None => bt[pl[p].at].use
             /\ \A b \in Battles : p \in Entries(Now, b) <=> pl[p].at = b
  <2>1. pl[p] \in Character
    BY <1>1 DEF States
  <2> QED BY <1>1, <2>1 DEF Agree, Character
<1>4. ASSUME NEW b \in Battles PROVE bt[b] \in Slots /\ Entries(Now, b) \subseteq Players
  <2>1. bt[b] \in Slots
    BY <1>1 DEF States
  <2> QED BY <1>1, <2>1 DEF Slots, Entries, Sides
<1> QED BY <1>1, <1>2, <1>3, <1>4

(* The slot a battle is created in is one that is free.                    *)
LEMMA SlotFree == ASSUME Room PROVE Slot \in Battles /\ ~bt[Slot].use
  BY DEF Room, Slot

(* A character becomes what it is before any battle.                       *)
LEMMA FreshGood ==
  ASSUME NEW s, Good(s), NEW p \in Players, s.pl[p].at = None,
         NEW n, n = [s EXCEPT !.pl[p] = Fresh]
  PROVE  Good(n) /\ n.pl[p].at = None
<1>1. s \in States /\ Blank(s) /\ Agree(s) /\ None \notin Battles
  BY BattleAssumption DEF Good, BattleAssumption
<1>2. Fresh \in Character /\ Fresh.at = None /\ Fresh.mode = "NONE"
  BY DEF Fresh, Character, CharModes
<1>3. /\ n \in States /\ n.bt = s.bt /\ n.pl[p] = Fresh
      /\ \A q \in Players \ {p} : n.pl[q] = s.pl[q]
  BY <1>1, <1>2 DEF States
<1>4. Blank(n) /\ SameChains(s, n)
  BY <1>1, <1>3 DEF Blank, SameChains
<1>5. \A b \in Battles, j \in Sides : n.bt[b].side[j] = s.bt[b].side[j] \ {p}
  <2>1. \A b \in Battles : p \notin Entries(s, b)
    BY <1>1 DEF Agree
  <2> QED BY <1>3, <2>1 DEF Entries, Sides
<1>6. /\ {p} \in SUBSET Players
      /\ \A q \in {p} : n.pl[q].at = None /\ n.pl[q].mode \in {"NONE", "FINAL"}
  BY <1>2, <1>3
<1>a. Left(s, n, {p})
  BY <1>3, <1>5, <1>6 DEF Left
<1>7. Good(n)
  BY <1>3, <1>4, <1>6, <1>a, LeaveStep
<1> QED BY <1>2, <1>3, <1>7

(* Whoever a leader brings along is in no battle.                          *)
LEMMA PartiesFree ==
  ASSUME Good(Now), NEW p \in Players, pl[p].mode = "NONE",
         NEW P \in Parties(p, {"NONE", "FINAL"}) \union Parties(p, {"NONE"})
  PROVE  /\ P \in SUBSET Players /\ Cardinality(P) <= PlayerMax
         /\ \A q \in P : Now.pl[q].at = None
<1>1. /\ P \in SUBSET Players /\ Cardinality(P) <= PlayerMax
      /\ \A q \in P : pl[q].mode \in {"NONE", "FINAL"}
  BY DEF Parties
<1> QED BY <1>1, NowIs

(* Players meet enemies.                                                   *)
LEMMA CreateVsEnemyStep ==
  ASSUME Good(Now), NEW p \in Players, CreateVsEnemy(p) PROVE Good(Now)'
<1>1. PICK P \in Parties(p, {"NONE", "FINAL"}) :
        /\ pl[p].mode = "NONE" /\ Room
        /\ Becomes(NewEntry(CreateBattle(Now, Slot, "P_vs_E", "INIT"), P, Slot, 0, "INIT"))
  BY DEF CreateVsEnemy
<1> PICK new : new = CreateBattle(Now, Slot, "P_vs_E", "INIT")
  OBVIOUS
<1> PICK n : n = NewEntry(new, P, Slot, 0, "INIT")
  OBVIOUS
<1>2. /\ Slot \in Battles /\ ~Now.bt[Slot].use
      /\ "P_vs_E" \in Types /\ "INIT" \in BattleModes /\ 0 \in Sides
  BY <1>1, SlotFree, NowIs DEF Types, BattleModes, Sides
<1>3. /\ P \in SUBSET Players /\ Cardinality(P) <= PlayerMax
      /\ \A q \in P : Now.pl[q].at = None
  BY <1>1, PartiesFree
<1>4. /\ Good(new) /\ new.pl = Now.pl /\ new.bt[Slot].use
      /\ new.bt[Slot].type = "P_vs_E"
      /\ new.bt[Slot].side[0] = {} /\ new.bt[Slot].side[1] = {}
  BY <1>2, CreateBattleGood DEF Sides
<1>5. Good(n)
  <2>1. /\ \A q \in P : new.pl[q].at \in {None, Slot}
        /\ \A k \in Sides \ {0} : \A q, r \in P \intersect new.bt[Slot].side[k] : q = r
        /\ "INIT" \in {"INIT", "WATCHINIT"} /\ ~(0 = 1)
    BY <1>3, <1>4 DEF Sides
  <2>2. Came(new, n, P, Slot, 0)
    BY <1>2, <1>3, <1>4, <2>1, FirstEntryGood
  <2> QED BY <2>2 DEF Came
<1> QED BY <1>1, <1>5, BecomesGood

(* Players meet each other.                                                *)
LEMMA CreateVsPlayerStep ==
  ASSUME Good(Now), NEW p \in Players, NEW q \in Players, CreateVsPlayer(p, q)
  PROVE  Good(Now)'
<1>1. PICK P \in Parties(p, {"NONE", "FINAL"}), Q \in Parties(q, {"NONE", "FINAL"}) :
        /\ pl[p].mode = "NONE" /\ pl[q].mode = "NONE" /\ Room
        /\ Becomes(NewEntry(NewEntry(CreateBattle(Now, Slot, "P_vs_P", "INIT"),
                                     P, Slot, 0, "INIT"),
                            {q} \union (Q \ P), Slot, 1, "INIT"))
  BY DEF CreateVsPlayer
<1> PICK new : new = CreateBattle(Now, Slot, "P_vs_P", "INIT")
  OBVIOUS
<1> PICK n1 : n1 = NewEntry(new, P, Slot, 0, "INIT")
  OBVIOUS
<1> PICK come : come = {q} \union (Q \ P)
  OBVIOUS
<1> PICK n2 : n2 = NewEntry(n1, come, Slot, 1, "INIT")
  OBVIOUS
<1>2. /\ Slot \in Battles /\ ~Now.bt[Slot].use
      /\ "P_vs_P" \in Types /\ "INIT" \in BattleModes /\ 0 \in Sides /\ 1 \in Sides
      /\ "INIT" \in {"INIT", "WATCHINIT"} /\ ~(0 = 1)
  BY <1>1, SlotFree, NowIs DEF Types, BattleModes, Sides
<1>3. /\ P \in SUBSET Players /\ Cardinality(P) <= PlayerMax
      /\ \A r \in P : Now.pl[r].at = None
  BY <1>1, PartiesFree
<1>4. /\ come \in SUBSET Players /\ Cardinality(come) <= PlayerMax
      /\ \A r \in come : Now.pl[r].at = None
      /\ \A r \in come \intersect P : r = q
  <2>1. /\ Q \in SUBSET Players /\ Cardinality(Q) <= PlayerMax /\ q \in Q
        /\ \A r \in Q : Now.pl[r].at = None
    BY <1>1, PartiesFree DEF Parties
  <2>2. come \subseteq Q
    BY <2>1
  <2>3. IsFiniteSet(Q) /\ IsFiniteSet(come)
    BY <2>1, <2>2, FS_Subset, BattleAssumption DEF BattleAssumption
  <2>4. /\ Cardinality(come) <= Cardinality(Q)
        /\ Cardinality(come) \in Nat /\ Cardinality(Q) \in Nat
    BY <2>2, <2>3, FS_Subset, FS_CardinalityType
  <2>5. Cardinality(come) <= PlayerMax
    BY <2>1, <2>4, BattleAssumption DEF BattleAssumption
  <2> QED BY <2>1, <2>2, <2>5
<1>5. /\ Good(new) /\ new.pl = Now.pl /\ new.bt[Slot].use
      /\ new.bt[Slot].type = "P_vs_P"
      /\ new.bt[Slot].side[0] = {} /\ new.bt[Slot].side[1] = {}
  BY <1>2, CreateBattleGood
<1>6. /\ Good(n1) /\ \A r \in Players \ P : n1.pl[r] = new.pl[r]
      /\ n1.bt[Slot].use /\ n1.bt[Slot].type = "P_vs_P"
      /\ n1.bt[Slot].side[0] = P /\ n1.bt[Slot].side[1] = {}
      /\ \A r \in P : n1.pl[r].at = Slot
  <2>1. /\ \A r \in P : new.pl[r].at \in {None, Slot}
        /\ \A k \in Sides \ {0} : \A r, u \in P \intersect new.bt[Slot].side[k] : r = u
    BY <1>3, <1>5 DEF Sides
  <2>2. P \in SUBSET Players /\ Cardinality(P) <= PlayerMax
    BY <1>3
  <2>3. /\ new.bt[Slot].use /\ new.bt[Slot].side[0] = {}
        /\ new.bt[Slot].type = "WATCH" => Headed(new, Slot)
    BY <1>5
  <2>4. Good(new) /\ new.bt[Slot].type = "P_vs_P" /\ new.bt[Slot].side[1] = {}
    BY <1>5
  <2>5. Came(new, n1, P, Slot, 0)
    BY ONLY <1>2, <2>1, <2>2, <2>3, <2>4, n1 = NewEntry(new, P, Slot, 0, "INIT"),
            FirstEntryGood
  <2> QED BY ONLY <2>3, <2>4, <2>5 DEF Came
<1>7. Good(n2)
  <2>1. \A r \in come : n1.pl[r].at \in {None, Slot}
    <3> TAKE r \in come
    <3>1. CASE r \in P
      BY <1>6, <3>1
    <3>2. CASE r \notin P
      <4>1. n1.pl[r] = Now.pl[r]
        BY <1>4, <1>5, <1>6, <3>2
      <4> QED BY <1>4, <4>1
    <3> QED BY <3>1, <3>2
  <2>2. \A k \in Sides \ {1} : \A r, u \in come \intersect n1.bt[Slot].side[k] : r = u
    BY <1>4, <1>6 DEF Sides
  <2>3. come \in SUBSET Players /\ Cardinality(come) <= PlayerMax
    BY <1>4
  <2>4. /\ Good(n1) /\ n1.bt[Slot].use /\ n1.bt[Slot].side[1] = {}
        /\ n1.bt[Slot].type = "P_vs_P"
        /\ n1.bt[Slot].type = "WATCH" => Headed(n1, Slot)
    BY <1>6
  <2>5. Came(n1, n2, come, Slot, 1)
    BY ONLY <1>2, <2>1, <2>2, <2>3, <2>4, n2 = NewEntry(n1, come, Slot, 1, "INIT"),
            FirstEntryGood
  <2> QED BY <2>5 DEF Came
<1> QED BY <1>1, <1>7, BecomesGood

(* One comes to help.                                                      *)
LEMMA RescueTryStep ==
  ASSUME Good(Now), NEW p \in Players, NEW t \in Players, RescueTry(p, t)
  PROVE  Good(Now)'
<1>1. pl[p].mode = "NONE" /\ Becomes(RescueEntry(Now, p, t))
  BY DEF RescueTry
<1>2. Now.pl[p].at = None
  BY <1>1, NowIs
<1> QED BY <1>1, <1>2, RescueEntryGood, BecomesGood

(* One is out of its battle, and perhaps in that of its leader.            *)
LEMMA EncountOutStep ==
  ASSUME Good(Now), NEW p \in Players, EncountOut(p) PROVE Good(Now)'
<1> PICK s : s = [Now EXCEPT !.pl[p] = Fresh]
  OBVIOUS
<1>1. /\ pl[p].mode = "FINAL"
      /\ \/ Becomes(s)
         \/ \E t \in Players \ {p} : Becomes(RescueEntry(s, p, t))
  BY DEF EncountOut
<1>2. Now.pl[p].at = None
  BY <1>1, NowIs
<1>3. Good(s) /\ s.pl[p].at = None
  BY <1>2, FreshGood
<1> QED BY <1>1, <1>3, RescueEntryGood, BecomesGood

(* Players begin to watch a battle.                                        *)
LEMMA WatchEntryStep ==
  ASSUME Inv, NEW p \in Players, NEW t \in Players, WatchEntry(p, t) PROVE Inv'
<1> PICK s : s = CreateBattle(Now, Slot, "WATCH", "WATCHBC")
  OBVIOUS
<1> PICK top : top = pl[t].at
  OBVIOUS
<1> PICK n1 : n1 = WatchLink(s, top, Slot)
  OBVIOUS
<1>1. PICK P \in Parties(p, {"NONE"}) :
        /\ tries < MaxTries /\ tries' = tries + 1
        /\ top # None /\ pl[p].mode = "NONE" /\ Room
        /\ Becomes(NewEntry(n1, P, Slot, 0, "WATCHINIT"))
  BY DEF WatchEntry
<1> PICK n2 : n2 = NewEntry(n1, P, Slot, 0, "WATCHINIT")
  OBVIOUS
<1>2. /\ Slot \in Battles /\ ~Now.bt[Slot].use
      /\ "WATCH" \in Types /\ "WATCHBC" \in BattleModes /\ 0 \in Sides
      /\ "WATCHINIT" \in {"INIT", "WATCHINIT"} /\ ~(0 = 1)
  BY <1>1, SlotFree, NowIs DEF Types, BattleModes, Sides, Inv
<1>3. /\ P \in SUBSET Players /\ Cardinality(P) <= PlayerMax
      /\ \A q \in P : Now.pl[q].at = None
  BY <1>1, PartiesFree DEF Inv
<1>4. /\ top \in Battles /\ Now.bt[top].use /\ t \in Entries(Now, top) /\ top # Slot
  BY <1>1, <1>2, NowIs DEF Inv
<1>5. /\ Good(s) /\ s.pl = Now.pl /\ s.bt[Slot].use /\ s.bt[Slot].type = "WATCH"
      /\ s.bt[Slot].next = None /\ s.bt[Slot].before = None
      /\ \A j \in Sides : s.bt[Slot].side[j] = {}
      /\ \A c \in Battles \ {Slot} : s.bt[c] = Now.bt[c]
      /\ \A c \in Battles : Headed(Now, c) => Headed(s, c)
  BY <1>2, CreateBattleGood DEF Inv
<1>6. s.bt[top].use /\ (s.bt[top].type # "WATCH" \/ Headed(s, top))
  <2>1. s.bt[top] = Now.bt[top]
    BY <1>4, <1>5
  <2> QED BY <1>4, <1>5, <2>1 DEF Inv, Good, AllHeaded
<1>7. /\ Good(n1) /\ Headed(n1, Slot) /\ n1.pl = s.pl
      /\ n1.bt[Slot].use /\ n1.bt[Slot].type = "WATCH"
      /\ n1.bt[Slot].side = s.bt[Slot].side
  BY <1>2, <1>4, <1>5, <1>6, WatchLinkGood
<1>8. Good(n2)
  <2>1. /\ \A q \in P : n1.pl[q].at \in {None, Slot}
        /\ \A k \in Sides \ {0} : \A q, r \in P \intersect n1.bt[Slot].side[k] : q = r
        /\ n1.bt[Slot].side[0] = {}
    BY <1>2, <1>3, <1>5, <1>7
  <2>2. P \in SUBSET Players /\ Cardinality(P) <= PlayerMax
    BY <1>3
  <2>3. Came(n1, n2, P, Slot, 0)
    BY ONLY <1>2, <1>7, <2>1, <2>2, n2 = NewEntry(n1, P, Slot, 0, "WATCHINIT"),
            FirstEntryGood
  <2> QED BY <2>3 DEF Came
<1>9. tries' \in 0 .. MaxTries
  BY <1>1, BattleAssumption DEF Inv, BattleAssumption
<1> QED BY <1>1, <1>8, <1>9, BecomesGood DEF Inv

(* A player in a battle gives a command, or a spectator has seen enough.   *)
LEMMA CommandStep ==
  ASSUME Good(Now), NEW p \in Players, Command(p) PROVE Good(Now)'
<1> PICK b : b = pl[p].at
  OBVIOUS
<1>1. /\ b \in Battles /\ Now.bt[b].use /\ Now.pl[p].at # None
      /\ Now.pl \in [Players -> Character]
      /\ \/ Becomes([Now EXCEPT !.pl[p].mode = "C_OK"])
         \/ Becomes(Exit(Now, {p}, b))
  BY NowIs DEF Command, Good, States
<1>2. CASE Becomes([Now EXCEPT !.pl[p].mode = "C_OK"])
  <2> PICK n : n = SetMode(Now, {p}, "C_OK")
    OBVIOUS
  <2>1. n = [Now EXCEPT !.pl[p].mode = "C_OK"]
    <3>1. [Now.pl EXCEPT ![p].mode = "C_OK"] =
            [q \in Players |-> IF q \in {p} THEN [Now.pl[q] EXCEPT !.mode = "C_OK"]
                              ELSE Now.pl[q]]
      BY <1>1
    <3> QED BY <3>1 DEF SetMode
  <2>2. /\ \A q \in {p} : q \in Players => Now.pl[q].at # None
        /\ "C_OK" \in {"C_WAIT", "C_OK"}
    BY <1>1
  <2>3. Good(n)
    BY <2>2, SetModeGood
  <2> QED BY <1>2, <2>1, <2>3, BecomesGood
<1>3. CASE Becomes(Exit(Now, {p}, b))
  <2> PICK n : n = Exit(Now, {p}, b)
    OBVIOUS
  <2>1. Good(n)
    BY <1>1, ExitGood
  <2> QED BY <1>3, <2>1, BecomesGood
<1> QED BY <1>1, <1>2, <1>3

(* A player leaves the game, and the battle it is in.                      *)
LEMMA LogoutStep ==
  ASSUME Good(Now), NEW p \in Players, Logout(p) PROVE Good(Now)'
<1> PICK b : b = pl[p].at
  OBVIOUS
<1> PICK s : s = IF b = None THEN Now ELSE Exit(Now, {p}, b)
  OBVIOUS
<1> PICK n : n = [s EXCEPT !.pl[p] = Fresh]
  OBVIOUS
<1>1. Becomes(n)
  BY DEF Logout
<1>2. Good(s) /\ s.pl[p].at = None
  <2>1. CASE b = None
    BY <2>1, NowIs
  <2>2. CASE b # None
    <3>1. b \in Battles /\ Now.bt[b].use /\ p \in {p} \intersect Entries(Now, b)
      BY <2>2, NowIs
    <3>2. s = Exit(Now, {p}, b)
      BY <2>2
    <3> QED BY <3>1, <3>2, ExitGood
  <2> QED BY <2>1, <2>2
<1>3. Good(n)
  BY <1>2, FreshGood
<1> QED BY <1>1, <1>3, BecomesGood

-----------------------------------------------------------------------------
(* Whoever stands in a battle is in it, and in no mode of one who is not.  *)
LEMMA EntriesAt ==
  ASSUME NEW s, Good(s), NEW b \in Battles, NEW p \in Entries(s, b)
  PROVE  p \in Players /\ s.pl[p].at # None /\ s.pl[p].mode \notin {"NONE", "FINAL"}
<1>1. p \in Players /\ b # None
  BY BattleAssumption
     DEF Good, States, Slots, Entries, Sides, BattleAssumption
<1> QED BY <1>1 DEF Good, Agree

(* All in a battle wait for commands, and its watch battles are updated.   *)
LEMMA PreCommandSeqGood ==
  ASSUME NEW s, Good(s), NEW b \in Battles, s.bt[b].use,
         NEW n, n = PreCommandSeq(s, b)
  PROVE  Good(n) /\ n.bt[b].use
<1> PICK m : m = SetBattles(s, Behind(s, b), "WATCHPRE")
  OBVIOUS
<1>1. n = SetMode(m, Entries(s, b), "C_WAIT")
  BY DEF PreCommandSeq
<1>2. Good(m) /\ m.pl = s.pl /\ SameChains(s, m)
  <2>1. /\ \A c \in Behind(s, b) : c \in Battles => s.bt[c].use
        /\ "WATCHPRE" \in BattleModes
    BY BehindWatch DEF Good, BattleModes
  <2> QED BY <2>1, SetBattlesGood
<1>3. Good(n) /\ n.bt = m.bt
  <2>1. \A p \in Entries(s, b) : p \in Players => m.pl[p].at # None
    BY <1>2, EntriesAt
  <2> QED BY <1>1, <1>2, <2>1, SetModeGood
<1> QED BY <1>2, <1>3 DEF SameChains

(* A battle opens.                                                         *)
LEMMA OpeningStep ==
  ASSUME Good(Now), NEW b \in Battles, bt[b].use, Opening(b) PROVE Good(Now)'
<1> PICK s : s = PreCommandSeq(Now, b)
  OBVIOUS
<1> PICK n : n = SetBattles(s, {b}, "BATTLE")
  OBVIOUS
<1>1. Becomes(n)
  BY DEF Opening
<1>2. Good(s) /\ s.bt[b].use
  BY NowIs, PreCommandSeqGood
<1>3. \A c \in {b} : c \in Battles => s.bt[c].use
  BY <1>2
<1>4. Good(n)
  BY <1>2, <1>3, SetBattlesGood DEF BattleModes
<1> QED BY <1>1, <1>4, BecomesGood

(* A battle ends.                                                          *)
LEMMA EndingStep ==
  ASSUME Good(Now), NEW b \in Battles, bt[b].use, Ending(b) PROVE Good(Now)'
<1>1. Now.bt[b].use
  BY NowIs
<1> QED BY <1>1, EndingGood, BecomesGood DEF Ending

(* A watch battle goes to its next mode.                                   *)
LEMMA WatchingStep ==
  ASSUME Good(Now), NEW b \in Battles, bt[b].use, NEW hour, Watching(b, hour)
  PROVE  Good(Now)'
<1>1. PICK told, idle :
        /\ told \subseteq bt[b].side[0]
        /\ \/ Becomes(SetBattles(SetMode(Now, told, "C_WAIT"), {b}, "WATCHWAIT"))
           \/ Becomes(SetBattles(Exit(Now, idle, b), {b}, "WATCHMOVIE"))
  BY DEF Watching
<1>2. CASE Becomes(SetBattles(SetMode(Now, told, "C_WAIT"), {b}, "WATCHWAIT"))
  <2> PICK s : s = SetMode(Now, told, "C_WAIT")
    OBVIOUS
  <2> PICK n : n = SetBattles(s, {b}, "WATCHWAIT")
    OBVIOUS
  <2>1. told \subseteq Entries(Now, b)
    BY <1>1, NowIs DEF Entries
  <2>2. Good(s) /\ s.bt = Now.bt
    <3>1. \A p \in told : p \in Players => Now.pl[p].at # None
      BY <2>1, EntriesAt
    <3> QED BY <3>1, SetModeGood
  <2>3. Good(n)
    <3>1. /\ \A c \in {b} : c \in Battles => s.bt[c].use
          /\ "WATCHWAIT" \in BattleModes
      BY <2>2, NowIs DEF BattleModes
    <3> QED BY <2>2, <3>1, SetBattlesGood
  <2> QED BY <1>2, <2>3, BecomesGood
<1>3. CASE Becomes(SetBattles(Exit(Now, idle, b), {b}, "WATCHMOVIE"))
  <2> PICK s : s = Exit(Now, idle, b)
    OBVIOUS
  <2> PICK n : n = SetBattles(s, {b}, "WATCHMOVIE")
    OBVIOUS
  <2>1. Now.bt[b].use
    BY NowIs
  <2>2. Good(s) /\ SameChains(Now, s)
    BY <2>1, ExitGood
  <2>3. Good(n)
    <3>1. /\ \A c \in {b} : c \in Battles => s.bt[c].use
          /\ "WATCHMOVIE" \in BattleModes
      BY <2>1, <2>2 DEF BattleModes, SameChains
    <3> QED BY <2>2, <3>1, SetBattlesGood
  <2> QED BY <1>3, <2>3, BecomesGood
<1> QED BY <1>1, <1>2, <1>3

(* The turn is played: some leave, others lie dead, the spectators see it. *)
LEMMA BattlingGood ==
  ASSUME NEW s, Good(s), NEW b \in Battles, s.bt[b].use, NEW out, NEW killed,
         NEW n, n = Battling(s, b, out, killed)
  PROVE  Good(n) /\ n.bt[b].use
<1> PICK left : left = Exit(s, out, b)
  OBVIOUS
<1> DEFINE ch(p) == IF p \in Entries(left, b)
                    THEN [left.pl[p] EXCEPT !.dead = p \in killed] ELSE left.pl[p]
           slot == [left.bt[b] EXCEPT !.turn = 1 - @]
<1> PICK done : done = [left EXCEPT !.pl = [p \in Players |-> ch(p)], !.bt[b] = slot]
  OBVIOUS
<1>1. Good(left) /\ left.bt[b].use /\ left \in States /\ Blank(left)
  <2>1. Good(left) /\ SameChains(s, left)
    BY ExitGood
  <2> QED BY <2>1 DEF SameChains, Good
<1>2. n = SetBattles(done, Behind(done, b), "WATCHAFTER")
  <2>1. done = [left EXCEPT
          !.pl = [p \in Players |-> IF p \in Entries(left, b)
                    THEN [left.pl[p] EXCEPT !.dead = p \in killed] ELSE left.pl[p]],
          !.bt[b].turn = 1 - @]
    BY <1>1 DEF States
  <2> QED BY <2>1 DEF Battling
<1>3. ASSUME NEW p \in Players
      PROVE  /\ ch(p) \in Character /\ ch(p).at = left.pl[p].at
             /\ ch(p).mode = left.pl[p].mode
  <2>1. left.pl[p] \in Character
    BY <1>1 DEF States
  <2>2. (p \in killed) \in BOOLEAN
    OBVIOUS
  <2> QED BY <2>1, <2>2 DEF Character
<1>4. /\ slot \in Slots /\ slot.use = left.bt[b].use /\ slot.type = left.bt[b].type
      /\ slot.side = left.bt[b].side /\ slot.next = left.bt[b].next
      /\ slot.before = left.bt[b].before
  <2>1. left.bt[b] \in Slots
    BY <1>1 DEF States
  <2>2. 1 - left.bt[b].turn \in 0 .. 1
    BY <2>1 DEF Slots
  <2> QED BY <2>1, <2>2 DEF Slots
<1> HIDE DEF ch, slot
<1>5. /\ done \in States /\ done.bt[b] = slot
      /\ \A c \in Battles \ {b} : done.bt[c] = left.bt[c]
      /\ \A p \in Players : done.pl[p] = ch(p)
  BY <1>1, <1>3, <1>4 DEF States
<1>6. Blank(done) /\ SameChains(left, done)
  BY <1>1, <1>4, <1>5, ZenonT(30) DEF Blank, SameChains
<1>7. \A c \in Battles : done.bt[c].side = left.bt[c].side
  BY <1>4, <1>5
<1>8. \A p \in Players :
        /\ done.pl[p].at = left.pl[p].at
        /\ done.pl[p].mode = "RESCUE" => left.pl[p].mode = "RESCUE"
        /\ done.pl[p].mode \in {"NONE", "FINAL"} <=> left.pl[p].mode \in {"NONE", "FINAL"}
  BY <1>3, <1>5
<1>9. Good(done)
  BY ONLY <1>1, <1>5, <1>6, <1>7, <1>8, ModeStep
<1>10. \A c \in Behind(done, b) : c \in Battles => done.bt[c].use
  BY <1>9, BehindWatch DEF Good
<1>11. Good(n) /\ SameChains(done, n)
  BY <1>2, <1>9, <1>10, SetBattlesGood DEF BattleModes
<1> QED BY <1>1, <1>4, <1>5, <1>11 DEF SameChains

(* The turn ends, and perhaps the battle.                                  *)
LEMMA TurnEndStep ==
  ASSUME NEW s, Good(s), NEW b \in Battles, s.bt[b].use, NEW foes,
         TurnEnd(s, b, foes)
  PROVE  Good(Now)'
<1>a. PICK noHP, end :
        Becomes(SetBattles(PreCommandSeq(Exit(s, noHP, b), b), {b},
                           IF end THEN "FINISH" ELSE "BATTLE"))
  <2> DEFINE lost == Alive(s, s.bt[b].side[0]) = {}
             won  == Alive(s, s.bt[b].side[1]) = {} /\ ~foes
  <2>1. \E noHP : \E rest \in {Exit(s, noHP, b)} :
          Becomes(SetBattles(PreCommandSeq(rest, b), {b},
                             IF lost \/ won THEN "FINISH" ELSE "BATTLE"))
    BY DEF TurnEnd
  <2> HIDE DEF lost, won
  <2> QED BY <2>1
<1> PICK rest : rest = Exit(s, noHP, b)
  OBVIOUS
<1> PICK mode \in {"FINISH", "BATTLE"} : mode = IF end THEN "FINISH" ELSE "BATTLE"
  OBVIOUS
<1> PICK n1 : n1 = PreCommandSeq(rest, b)
  OBVIOUS
<1> PICK n2 : n2 = SetBattles(n1, {b}, mode)
  OBVIOUS
<1>1. Becomes(n2)
  BY <1>a
<1>2. Good(rest) /\ rest.bt[b].use
  <2>1. Good(rest) /\ SameChains(s, rest)
    BY ExitGood
  <2> QED BY <2>1 DEF SameChains
<1>3. Good(n1) /\ n1.bt[b].use
  BY <1>2, PreCommandSeqGood
<1>4. Good(n2)
  <2>1. /\ \A c \in {b} : c \in Battles => n1.bt[c].use
        /\ mode \in BattleModes
    BY <1>3 DEF BattleModes
  <2> QED BY <1>3, <2>1, SetBattlesGood
<1> QED BY <1>1, <1>4, BecomesGood

(* A turn, from its commands to its end.                                   *)
LEMMA PlayTurnStep ==
  ASSUME NEW s, Good(s), NEW b \in Battles, s.bt[b].use, PlayTurn(s, b)
  PROVE  Good(Now)'
<1>1. PICK out, foes, killed, done :
        done = Battling(s, b, out, killed) /\ TurnEnd(done, b, foes)
  BY DEF PlayTurn
<1>2. Good(done) /\ done.bt[b].use
  BY <1>1, BattlingGood
<1> QED BY <1>1, <1>2, TurnEndStep

(* Of those asked for a command nobody is sent away: whoever stands in a   *)
(* battle is in a mode of one who does.                                    *)
LEMMA CommandWaitGood ==
  ASSUME Good(Now), NEW b \in Battles, bt[b].use, NEW late,
         NEW n, n = CommandWait(b, late)
  PROVE  Good(n) /\ n.bt[b].use
<1> DEFINE stray == {p \in Alive(Now, Entries(Now, b)) : pl[p].mode \in {"NONE", "FINAL"}}
<1>1. Now.pl = pl /\ Now.bt = bt /\ stray \intersect Entries(Now, b) = {}
  BY NowIs, EntriesAt DEF Alive
<1>2. Waiting(b) \subseteq Entries(Now, b)
  BY DEF Waiting, Alive
<1> PICK s : s = Exit(Now, stray, b)
  OBVIOUS
<1> PICK m : m = SetMode(s, Waiting(b), "C_OK")
  OBVIOUS
<1>3. n = IF late THEN m ELSE s
  BY DEF CommandWait
<1> HIDE DEF stray
<1>4. /\ Good(s) /\ s.bt[b].use
      /\ \A p \in Players : s.pl[p] = Now.pl[p]
  <2>1. /\ Good(s) /\ SameChains(Now, s)
        /\ \A p \in Players \ (stray \intersect Entries(Now, b)) : s.pl[p] = Now.pl[p]
    BY <1>1, ExitGood
  <2> QED BY <1>1, <2>1 DEF SameChains
<1>5. Good(m) /\ m.bt = s.bt
  <2>1. \A p \in Waiting(b) : p \in Players => s.pl[p].at # None
    BY <1>2, <1>4, EntriesAt
  <2> QED BY <1>4, <2>1, SetModeGood
<1>6. CASE late
  BY <1>3, <1>4, <1>5, <1>6
<1>7. CASE ~late
  BY <1>3, <1>4, <1>7
<1> QED BY <1>6, <1>7

(* One battle in a pass of the loop waits for commands or plays its turn.  *)
LEMMA TurnStep ==
  ASSUME Good(Now), NEW b \in Battles, bt[b].use, NEW late, NEW hour,
         Turn(b, late, hour)
  PROVE  Good(Now)'
<1>1. PICK asked, told :
        /\ asked = CommandWait(b, late)
        /\ told = BpSend(asked, b)
        /\ \/ \E idle : PlayTurn(Exit(told, idle, b), b)
           \/ Becomes(told)
           \/ PlayTurn(told, b)
  BY DEF Turn
<1>2. Good(asked) /\ asked.bt[b].use
  BY <1>1, CommandWaitGood
<1>3. Good(told) /\ told.bt[b].use
  <2> DEFINE new == {c \in Behind(asked, b) : asked.bt[c].mode = "WATCHBC"}
  <2>1. told = SetBattles(asked, new, "WATCHPRE")
    BY <1>1 DEF BpSend
  <2>2. \A c \in new : c \in Battles => asked.bt[c].use
    BY <1>2, BehindWatch DEF Good
  <2> HIDE DEF new
  <2>3. Good(told) /\ SameChains(asked, told)
    BY <1>2, <2>1, <2>2, SetBattlesGood DEF BattleModes
  <2> QED BY <1>2, <2>3 DEF SameChains
<1>4. CASE \E idle : PlayTurn(Exit(told, idle, b), b)
  <2>1. PICK idle, rest : rest = Exit(told, idle, b) /\ PlayTurn(rest, b)
    BY <1>4
  <2>2. Good(rest) /\ SameChains(told, rest)
    BY <1>3, <2>1, ExitGood
  <2> QED BY <1>3, <2>1, <2>2, PlayTurnStep DEF SameChains
<1>5. CASE Becomes(told)
  BY <1>3, <1>5, BecomesGood
<1>6. CASE PlayTurn(told, b)
  BY <1>3, <1>6, PlayTurnStep
<1> QED BY <1>1, <1>4, <1>5, <1>6

-----------------------------------------------------------------------------
(* Nobody is in a battle at first.                                         *)
LEMMA InitInv == ASSUME Init PROVE Inv
<1>1. /\ Now.pl = pl /\ Now.bt = bt /\ None \notin Battles
      /\ \A p \in Players : pl[p] = Fresh
      /\ \A b \in Battles : bt[b] = Unused
      /\ pl = [p \in Players |-> Fresh] /\ bt = [b \in Battles |-> Unused]
  BY BattleAssumption DEF Init, Now, BattleAssumption
<1>2. /\ Unused \in Slots /\ Unused.type = "NONE" /\ Unused.use = FALSE
      /\ Unused.next = None /\ Unused.before = None
      /\ \A j \in Sides : Unused.side[j] = {}
  <2> DEFINE none == [j \in Sides |-> {}]
  <2>1. none \in [Sides -> SUBSET Players] /\ \A j \in Sides : none[j] = {}
    OBVIOUS
  <2>2. Unused = [use |-> FALSE, mode |-> "NONE", type |-> "NONE", turn |-> 0,
                  side |-> none, next |-> None, before |-> None]
    BY DEF Unused
  <2> HIDE DEF none
  <2> QED BY <2>1, <2>2 DEF Slots, BattleModes, Types
<1>3. Fresh \in Character /\ Fresh.at = None /\ Fresh.mode = "NONE"
  BY DEF Fresh, Character, CharModes
<1>4. Now \in States
  BY <1>1, <1>2, <1>3 DEF States, Now
<1>5. \A b \in Battles : Entries(Now, b) = {}
  BY <1>1, <1>2 DEF Entries, Sides
<1>6. /\ Blank(Now) /\ Agree(Now) /\ Single(Now)
      /\ Linked(Now) /\ Founded(Now) /\ AllHeaded(Now)
  BY <1>1, <1>2, <1>3, <1>5 DEF Blank, Agree, Single, Sides, Linked, Founded, AllHeaded
<1>7. Seated(Now)
  <2>1. Cardinality({}) <= PlayerMax
    BY FS_EmptySet, BattleAssumption DEF BattleAssumption
  <2> QED BY <1>1, <1>2, <1>5, <2>1 DEF Seated, Sides
<1> QED BY <1>4, <1>6, <1>7, BattleAssumption DEF Init, Inv, Good, BattleAssumption

(* Each step of Next takes a good state to a good one.                     *)
LEMMA NextInv == ASSUME Inv, [Next]_vars PROVE Inv'
<1> USE DEF Inv
<1>1. ASSUME NEW p \in Players, CreateVsEnemy(p) PROVE Inv'
  BY <1>1, CreateVsEnemyStep DEF CreateVsEnemy
<1>2. ASSUME NEW p \in Players, EncountOut(p) PROVE Inv'
  BY <1>2, EncountOutStep DEF EncountOut
<1>3. ASSUME NEW p \in Players, Command(p) PROVE Inv'
  BY <1>3, CommandStep DEF Command
<1>4. ASSUME NEW p \in Players, Logout(p) PROVE Inv'
  BY <1>4, LogoutStep DEF Logout
<1>5. ASSUME NEW p \in Players, NEW q \in Players, CreateVsPlayer(p, q) PROVE Inv'
  BY <1>5, CreateVsPlayerStep DEF CreateVsPlayer
<1>6. ASSUME NEW p \in Players, NEW q \in Players, RescueTry(p, q) PROVE Inv'
  BY <1>6, RescueTryStep DEF RescueTry
<1>7. ASSUME NEW p \in Players, NEW q \in Players, WatchEntry(p, q) PROVE Inv'
  BY <1>7, WatchEntryStep
<1>8. ASSUME NEW b \in Battles, NEW late \in BOOLEAN, NEW hour \in BOOLEAN,
             Loop(b, late, hour)
      PROVE  Inv'
  <2>1. bt[b].use /\ tries' = tries
    BY <1>8 DEF Loop
  <2>2. Opening(b) \/ Ending(b) \/ Watching(b, hour) \/ Turn(b, late, hour)
    BY <1>8 DEF Loop
  <2>3. Good(Now)'
    BY <2>1, <2>2, OpeningStep, EndingStep, WatchingStep, TurnStep
  <2> QED BY <2>1, <2>3
<1>9. CASE UNCHANGED vars
  <2>1. Now' = Now /\ tries' = tries
    BY <1>9 DEF vars, Now
  <2> QED BY <2>1
<1> QED BY <1>1, <1>2, <1>3, <1>4, <1>5, <1>6, <1>7, <1>8, <1>9 DEF Next

(* Whatever players and battles do, in whatever order, the state is good:  *)
(* this is the inductive invariant of the theorems below.                  *)
THEOREM BattleInv == Spec => []Inv
  BY InitInv, NextInv, PTL DEF Spec

-----------------------------------------------------------------------------
(* Whatever battles begin and end, the fields of a character and of a slot *)
(* of the battle array have the values the code gives them a meaning for,  *)
(* and a slot that is free is blank (BATTLE_DeleteBattle).                 *)
THEOREM BattleTypeOK == Spec => []TypeOK
<1>1. Inv => TypeOK
  <2> SUFFICES ASSUME Inv PROVE TypeOK
    OBVIOUS
  <2>1. Now.pl = pl /\ Now.bt = bt /\ Now \in States /\ Blank(Now)
    BY DEF Inv, Good, Now
  <2>2. pl \in [Players -> Character] /\ bt \in [Battles -> Slots]
    BY <2>1 DEF States
  <2>3. \A b \in Battles : ~bt[b].use => bt[b] = Unused
    BY <2>1 DEF Blank
  <2> QED BY <2>2, <2>3 DEF TypeOK, Inv, Character, Slots
<1> QED BY <1>1, BattleInv, PTL

(* A player stands in exactly the battle whose index it carries, and is in *)
(* the mode of one who does, and only one that duels itself stands on both *)
(* sides: BATTLE_NewEntry, BATTLE_Exit and BATTLE_Finish change both       *)
(* together, whoever calls them.                                           *)
THEOREM BattleEntriesAgree == Spec => []EntriesAgree
<1>1. Inv => EntriesAgree
  <2> SUFFICES ASSUME Inv PROVE EntriesAgree
    OBVIOUS
  <2>1. Now.pl = pl /\ Now.bt = bt /\ Agree(Now) /\ Single(Now) /\ Seated(Now)
    BY DEF Inv, Good, Now
  <2>2. \A b \in Battles : \A p, q \in bt[b].side[0] \intersect bt[b].side[1] :
          p = q /\ bt[b].type = "P_vs_P"
    BY <2>1 DEF Single, Seated
  <2> QED BY <2>1, <2>2 DEF Agree, EntriesAgree
<1> QED BY <1>1, BattleInv, PTL

(* Nobody joins a battle between players and no side is overfull, however  *)
(* help, parties and leaders bring players in (BATTLE_RescueEntry).        *)
THEOREM BattleDuelsAreClosed == Spec => []DuelsAreClosed
<1>1. Inv => DuelsAreClosed
  <2> SUFFICES ASSUME Inv PROVE DuelsAreClosed
    OBVIOUS
  <2>1. Now.pl = pl /\ Now.bt = bt /\ Seated(Now)
    BY DEF Inv, Good, Now
  <2> QED BY <2>1 DEF Seated, DuelsAreClosed
<1> QED BY <1>1, BattleInv, PTL

(* The chains of watch battles are intact, however many hang behind one    *)
(* battle and in whatever order they and it end.                           *)
THEOREM BattleChainsIntact == Spec => []ChainsIntact
<1>1. Inv => ChainsIntact
  <2> SUFFICES ASSUME Inv PROVE ChainsIntact
    OBVIOUS
  <2>1. Now.pl = pl /\ Now.bt = bt /\ Linked(Now) /\ AllHeaded(Now)
    BY DEF Inv, Good, Now
  <2> QED BY <2>1 DEF Linked, AllHeaded, Headed, ChainsIntact
<1> QED BY <1>1, BattleInv, PTL
=============================================================================
