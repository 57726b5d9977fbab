----------------------------- MODULE Party_proofs -----------------------------
(***************************************************************************)
(* Theorems about Party.  Agree(s, G) says of a state s of the characters  *)
(* what PartiesAgree says of those in G, one fact for each mode, and       *)
(* Closed(s, G) that they and the others do not refer to each other.       *)
(* There are two lemmas for each operation on such a state: what it does   *)
(* to any state, which is enough when it starts from a character outside   *)
(* of G, and what it does to characters in G.                              *)
(***************************************************************************)
EXTENDS Party, FiniteSetTheorems, TLAPS

Character == [use : BOOLEAN, mode : Modes, idx : [Slots -> Chars \union {None}],
              wild : BOOLEAN]
Typed(s) == s \in [Chars -> Character]

Seats == Slots \ {0}

ClientOK(s, c) ==
  /\ s[c].use
  /\ s[c].idx[0] \in Chars
  /\ s[s[c].idx[0]].mode = "LEADER"
  /\ \E i \in Seats : s[s[c].idx[0]].idx[i] = c

FirstOK(s, l) ==
  /\ s[l].use
  /\ s[l].idx[0] = l
  /\ \E i \in Seats : s[l].idx[i] # None
  /\ \A i, j \in Slots : s[l].idx[i] = s[l].idx[j] => i = j \/ s[l].idx[i] = None

MembersOK(s, l) ==
  \A i \in Seats : s[l].idx[i] # None =>
    LET m == s[l].idx[i] IN s[m].use /\ s[m].mode = "CLIENT" /\ s[m].idx[0] = l

(* Who leads nobody lists nobody: stronger than PartiesAgree, as a member  *)
(* of a party that is dissolved lists nobody afterwards.                   *)
Agree(s, G) ==
  \A c \in G :
    /\ s[c].mode = "CLIENT" => ClientOK(s, c)
    /\ s[c].mode = "LEADER" => FirstOK(s, c) /\ MembersOK(s, c)
    /\ s[c].mode # "LEADER" => \A i \in Seats : s[c].idx[i] = None
    /\ s[c].mode = "NONE" => s[c].idx[0] \in {None, c}
    /\ ~s[c].wild

(* Who is in G refers to characters in G, who is not to the others.        *)
Closed(s, G) ==
  \A c \in Chars : \A i \in Slots :
    s[c].idx[i] # None => (c \in G <=> s[c].idx[i] \in G)

Sound(s, G) == G \subseteq Chars /\ Typed(s) /\ Agree(s, G) /\ Closed(s, G)

(* Slots count from 0, and there is one for a member.                      *)
LEMMA SlotsType ==
  /\ Slots \subseteq Nat /\ 0 \in Slots /\ Seats \subseteq Slots
  /\ None \notin Chars
  BY PartyAssumption DEF Slots, Seats, Chars

(* A character's fields.                                                   *)
LEMMA FieldTypes ==
  ASSUME NEW s, Typed(s), NEW c \in Chars
  PROVE  /\ s[c] \in Character
         /\ s[c].use \in BOOLEAN /\ s[c].mode \in Modes /\ s[c].wild \in BOOLEAN
         /\ s[c].idx \in [Slots -> Chars \union {None}]
         /\ \A i \in Slots : s[c].idx[i] \in Chars \union {None}
<1>1. s[c] \in Character
  BY DEF Typed
<1>2. s[c].idx \in [Slots -> Chars \union {None}]
  BY <1>1 DEF Character
<1> QED BY <1>1, <1>2 DEF Character

(* The least element of a set of slots is one of them: of the intervals   *)
(* from 0 up to its elements one has none of the others as a strict part.  *)
LEMMA LeastType ==
  ASSUME NEW S, S \subseteq Slots, S # {}
  PROVE  Least(S) \in S
<1> DEFINE R == StrictSubsetOrdering(Slots)
           T == {0 .. i : i \in S}
<1>1. IsFiniteSet(Slots)
  BY PartyAssumption, FS_Interval DEF Slots
<1>2. IsWellFoundedOn(R, SUBSET Slots)
  BY <1>1, FS_FiniteSubsetsOfFinite, FS_StrictSubsetOrderingWellFounded
<1>3. /\ \A i \in S : 0 .. i \in SUBSET Slots
      /\ T \subseteq SUBSET Slots /\ T # {}
  <2>1. ASSUME NEW i \in S PROVE 0 .. i \subseteq Slots
    <3>1. i \in Nat /\ i <= PartyMax - 1 /\ PartyMax \in Nat
      BY PartyAssumption DEF Slots
    <3>2. \A j \in 0 .. i : j \in Slots
      BY <3>1 DEF Slots
    <3> QED BY <3>2
  <2>2. \A i \in S : 0 .. i \in SUBSET Slots
    BY <2>1
  <2> QED BY <2>2
<1>4. ASSUME NEW a \in SUBSET Slots, NEW b \in SUBSET Slots, a \subseteq b, a # b
      PROVE  <<a, b>> \in R
  BY <1>4 DEF StrictSubsetOrdering
<1>5. PICK x \in T : \A y \in T : ~(<<y, x>> \in R)
  <2> HIDE DEF R, T
  <2> QED BY <1>2, <1>3, WFMin
<1>6. PICK i \in S : x = 0 .. i
  BY <1>5
<1>7. ASSUME NEW j \in S PROVE i <= j
  <2>1. CASE j < i
    <3>1. (0 .. j) \subseteq (0 .. i) /\ i \in 0 .. i /\ i \notin 0 .. j
      BY <2>1, SlotsType
    <3>2. (0 .. j) # (0 .. i)
      BY <3>1
    <3>3. (0 .. i) \in SUBSET Slots /\ (0 .. j) \in SUBSET Slots
      BY <1>3
    <3>4. <<0 .. j, 0 .. i>> \in R
      BY <3>1, <3>2, <3>3, <1>4
    <3> QED BY <3>4, <1>5, <1>6
  <2> QED BY <2>1, SlotsType
<1> QED BY <1>7 DEF Least

(* From s to r, only character c changes: its mode is now m, its work int  *)
(* k holds x.                                                              *)
Changed(s, r, c, m, k, x) ==
  /\ Typed(r)
  /\ \A d \in Chars : d # c => r[d] = s[d]
  /\ r[c].use = s[c].use /\ r[c].wild = s[c].wild
  /\ r[c].mode = m
  /\ r[c].idx[k] = x
  /\ \A i \in Slots : i # k => r[c].idx[i] = s[c].idx[i]

(* A character gets a new record.                                          *)
LEMMA RecordChanged ==
  ASSUME NEW s, Typed(s), NEW c \in Chars, NEW u \in Character
  PROVE  /\ Typed([s EXCEPT ![c] = u])
         /\ [s EXCEPT ![c] = u][c] = u
         /\ \A d \in Chars : d # c => [s EXCEPT ![c] = u][d] = s[d]
  BY DEF Typed

(* A mode and a work int of a record are written.                          *)
LEMMA BothWritten ==
  ASSUME NEW s, Typed(s), NEW c \in Chars, NEW m \in Modes,
         NEW k \in Slots, NEW x \in Chars \union {None}
  PROVE  Changed(s, [s EXCEPT ![c] = [@ EXCEPT !.mode = m, !.idx[k] = x]], c, m, k, x)
<1> DEFINE u == [s[c] EXCEPT !.mode = m, !.idx[k] = x]
<1>1. /\ u \in Character
      /\ u.use = s[c].use /\ u.wild = s[c].wild /\ u.mode = m /\ u.idx[k] = x
      /\ \A i \in Slots : i # k => u.idx[i] = s[c].idx[i]
  BY FieldTypes DEF Character
<1> HIDE DEF u
<1>2. Changed(s, [s EXCEPT ![c] = u], c, m, k, x)
  BY <1>1, RecordChanged DEF Changed
<1> QED BY <1>2 DEF u

(* Only its mode is.                                                       *)
LEMMA ModeWritten ==
  ASSUME NEW s, Typed(s), NEW c \in Chars, NEW m \in Modes
  PROVE  Changed(s, [s EXCEPT ![c] = [@ EXCEPT !.mode = m]], c, m, 0, s[c].idx[0])
<1> DEFINE u == [s[c] EXCEPT !.mode = m]
<1>1. /\ u \in Character
      /\ u.use = s[c].use /\ u.wild = s[c].wild /\ u.mode = m
      /\ u.idx = s[c].idx
  BY FieldTypes DEF Character
<1> HIDE DEF u
<1>2. Changed(s, [s EXCEPT ![c] = u], c, m, 0, s[c].idx[0])
  BY <1>1, RecordChanged DEF Changed
<1> QED BY <1>2 DEF u

(* Only its work int is.                                                   *)
LEMMA IndexWritten ==
  ASSUME NEW s, Typed(s), NEW c \in Chars,
         NEW k \in Slots, NEW x \in Chars \union {None}
  PROVE  Changed(s, [s EXCEPT ![c] = [@ EXCEPT !.idx[k] = x]], c, s[c].mode, k, x)
<1> DEFINE u == [s[c] EXCEPT !.idx[k] = x]
<1>1. /\ u \in Character
      /\ u.use = s[c].use /\ u.wild = s[c].wild /\ u.mode = s[c].mode /\ u.idx[k] = x
      /\ \A i \in Slots : i # k => u.idx[i] = s[c].idx[i]
  BY FieldTypes DEF Character
<1> HIDE DEF u
<1>2. Changed(s, [s EXCEPT ![c] = u], c, s[c].mode, k, x)
  BY <1>1, RecordChanged DEF Changed
<1> QED BY <1>2 DEF u

(* Characters that have not changed, and refer to such characters only,    *)
(* agree as before, whatever the others do.                                *)
LEMMA UnchangedAgree ==
  ASSUME NEW s, NEW r, NEW G, NEW H, Typed(s), Agree(s, G), H \subseteq G, G \subseteq Chars,
         Closed(r, H), \A d \in H : r[d] = s[d]
  PROVE  Agree(r, H)
<1>1. ASSUME NEW d \in H, NEW i \in Slots, s[d].idx[i] # None
      PROVE  s[d].idx[i] \in H /\ r[s[d].idx[i]] = s[s[d].idx[i]]
  <2>1. d \in Chars /\ r[d] = s[d]
    OBVIOUS
  <2> QED BY <2>1, <1>1 DEF Closed
<1>2. ASSUME NEW d \in H, r[d].mode = "CLIENT"
      PROVE  ClientOK(r, d)
  <2>1. ClientOK(s, d) /\ r[d] = s[d]
    BY <1>2 DEF Agree
  <2>2. r[s[d].idx[0]] = s[s[d].idx[0]]
    BY <2>1, <1>1, SlotsType DEF ClientOK
  <2> QED BY <2>1, <2>2 DEF ClientOK
<1>3. ASSUME NEW d \in H, r[d].mode = "LEADER"
      PROVE  FirstOK(r, d) /\ MembersOK(r, d)
  <2>1. FirstOK(s, d) /\ MembersOK(s, d) /\ r[d] = s[d]
    BY <1>3 DEF Agree
  <2>2. MembersOK(r, d)
    BY <2>1, <1>1, SlotsType DEF MembersOK
  <2> QED BY <2>1, <2>2 DEF FirstOK
<1> QED BY <1>2, <1>3 DEF Agree

(* The chief of a party is one of G when somebody of it is.                *)
LEMMA ChiefClosed ==
  ASSUME NEW s, NEW G, Sound(s, G), NEW t \in Chars
  PROVE  /\ Chief(s, t) \in Chars \union {None}
         /\ Chief(s, t) # None => (t \in G <=> Chief(s, t) \in G)
<1>1. CASE s[t].mode = "NONE"
  BY <1>1 DEF Chief
<1>2. CASE s[t].mode = "LEADER"
  <2>1. Chief(s, t) = s[t].idx[0]
    BY <1>2 DEF Chief, getPartyIndex
  <2> QED BY <2>1, FieldTypes, SlotsType DEF Sound, Closed
<1>3. CASE s[t].mode = "CLIENT"
  <2> DEFINE l == s[t].idx[0]
  <2>1. l \in Chars \union {None} /\ (l # None => (t \in G <=> l \in G))
    BY FieldTypes, SlotsType DEF Sound, Closed
  <2>2. Chief(s, t) = IF CHECKINDEX(s, l) THEN s[l].idx[0] ELSE None
    BY <1>3 DEF Chief, getPartyIndex
  <2> HIDE DEF l
  <2>3. CASE CHECKINDEX(s, l)
    <3>1. l \in Chars
      BY <2>1, <2>3 DEF CHECKINDEX
    <3>2. s[l].idx[0] \in Chars \union {None} /\ (s[l].idx[0] # None => (l \in G <=> s[l].idx[0] \in G))
      BY <3>1, FieldTypes, SlotsType DEF Sound, Closed
    <3> QED BY <2>1, <2>2, <2>3, <3>1, <3>2, SlotsType
  <2> QED BY <2>2, <2>3
<1> QED BY <1>1, <1>2, <1>3, FieldTypes DEF Sound, Modes

(* The chief of a party in G, or of one that may become one.               *)
LEMMA ChiefLeads ==
  ASSUME NEW s, NEW G, Sound(s, G), NEW t \in G
  PROVE  /\ Chief(s, t) \in G /\ Chief(s, t) \in Chars
         /\ s[Chief(s, t)].mode \in {"NONE", "LEADER"}
         /\ Chief(s, Chief(s, t)) = Chief(s, t)
         /\ s[t].mode # "CLIENT" => Chief(s, t) = t
         /\ s[t].mode = "CLIENT" => /\ Chief(s, t) = s[t].idx[0]
                                    /\ s[Chief(s, t)].mode = "LEADER"
<1>0. t \in Chars /\ Typed(s) /\ Agree(s, G) /\ Closed(s, G) /\ G \subseteq Chars
  BY DEF Sound
<1>1. CASE s[t].mode = "NONE"
  BY <1>0, <1>1 DEF Chief
<1>2. CASE s[t].mode = "LEADER"
  <2>1. FirstOK(s, t)
    BY <1>0, <1>2 DEF Agree
  <2> QED BY <1>0, <1>2, <2>1 DEF Chief, getPartyIndex, FirstOK
<1>3. CASE s[t].mode = "CLIENT"
  <2> DEFINE l == s[t].idx[0]
  <2>1. l \in Chars /\ s[l].mode = "LEADER" /\ l # None
    BY <1>0, <1>3, SlotsType DEF Agree, ClientOK
  <2>2. l \in G
    BY <1>0, <2>1, SlotsType DEF Closed
  <2>3. s[l].use /\ s[l].idx[0] = l
    BY <1>0, <2>1, <2>2 DEF Agree, FirstOK
  <2>4. Chief(s, t) = l
    BY <1>3, <2>1, <2>3 DEF Chief, getPartyIndex, CHECKINDEX
  <2>5. Chief(s, l) = l
    BY <2>1, <2>3 DEF Chief, getPartyIndex
  <2> QED BY <1>3, <2>1, <2>2, <2>4, <2>5
<1> QED BY <1>0, <1>1, <1>2, <1>3, FieldTypes DEF Modes

(* A mode and the first work int of a record are written.                  *)
LEMMA FirstWritten ==
  ASSUME NEW s, Typed(s), NEW c \in Chars, NEW m \in Modes, NEW x \in Chars
  PROVE  Changed(s, [s EXCEPT ![c] = [@ EXCEPT !.mode = m, !.idx[0] = x]], c, m, 0, x)
  BY BothWritten, SlotsType

(* From s to r, c has entered the party of to: nobody else has changed, and*)
(* the two refer to whom they did and to each other.                       *)
Entered(s, r, c, to) ==
  /\ Typed(r)
  /\ \A d \in Chars : r[d].use = s[d].use
  /\ \A d \in Chars : d \notin {c, to} => r[d] = s[d]
  /\ r[c].idx[0] = to
  /\ \A d \in {c, to} : \A i \in Slots : r[d].idx[i] \in {s[d].idx[i], c, to}

(* CHAR_JoinParty_Main in any state.                                       *)
LEMMA JoinParty_MainEnters ==
  ASSUME NEW s, Typed(s), NEW c \in Chars, NEW t \in Chars, NEW to, to = Chief(s, t),
         to \in Chars \union {None}
  PROVE  LET r == JoinParty_Main(s, c, t) IN
         IF Room(s, to) THEN to \in Chars /\ Entered(s, r, c, to) ELSE r = s
<1> DEFINE k == Least(EmptySlots(s, to))
           led == IF s[to].mode = "NONE"
                    THEN [s EXCEPT ![to] = [@ EXCEPT !.mode = "LEADER", !.idx[0] = to]]
                    ELSE s
           in == [led EXCEPT ![to] = [@ EXCEPT !.idx[k] = c]]
           r == [in EXCEPT ![c] = [@ EXCEPT !.mode = "CLIENT", !.idx[0] = to]]
<1>1. JoinParty_Main(s, c, t) = IF Room(s, to) THEN r ELSE s
  BY DEF JoinParty_Main
<1>2. CASE Room(s, to)
  <2>1. to \in Chars /\ EmptySlots(s, to) # {}
    BY <1>2 DEF Room, CHECKINDEX
  <2>2. k \in Slots
    <3>1. EmptySlots(s, to) \subseteq Slots
      BY SlotsType DEF EmptySlots
    <3>2. k \in EmptySlots(s, to)
      BY <2>1, <3>1, LeastType
    <3> QED BY <3>1, <3>2
  <2>3. /\ Typed(led)
        /\ \A d \in Chars : led[d].use = s[d].use
        /\ \A d \in Chars : d # to => led[d] = s[d]
        /\ \A i \in Slots : led[to].idx[i] \in {s[to].idx[i], to}
    <3>1. CASE s[to].mode = "NONE"
      <4>1. Changed(s, led, to, "LEADER", 0, to)
        <5>1. led = [s EXCEPT ![to] = [@ EXCEPT !.mode = "LEADER", !.idx[0] = to]]
          BY <3>1
        <5> HIDE DEF led
        <5> QED BY <2>1, <5>1, FirstWritten DEF Modes
      <4> HIDE DEF led
      <4> QED BY <4>1 DEF Changed
    <3>2. CASE s[to].mode # "NONE"
      BY <3>2
    <3> QED BY <3>1, <3>2
  <2>4. Changed(led, in, to, led[to].mode, k, c)
    <3> HIDE DEF led, k
    <3> QED BY <2>1, <2>2, <2>3, IndexWritten
  <2>5. Changed(in, r, c, "CLIENT", 0, to)
    <3> HIDE DEF in
    <3>1. Typed(in)
      BY <2>4 DEF Changed
    <3> QED BY <3>1, <2>1, FirstWritten DEF Modes
  <2> HIDE DEF led, in, r, k
  <2>6. /\ \A d \in Chars : in[d].use = s[d].use
        /\ \A d \in Chars : d # to => in[d] = s[d]
        /\ \A i \in Slots : in[to].idx[i] \in {s[to].idx[i], c, to}
    BY <2>1, <2>3, <2>4 DEF Changed
  <2>7. /\ Typed(r) /\ r[c].idx[0] = to
        /\ \A d \in Chars : r[d].use = s[d].use
        /\ \A d \in Chars : d \notin {c, to} => r[d] = s[d]
    BY <2>1, <2>5, <2>6 DEF Changed
  <2>8. ASSUME NEW d \in {c, to}, NEW i \in Slots
        PROVE  r[d].idx[i] \in {s[d].idx[i], c, to}
    BY <2>1, <2>5, <2>6 DEF Changed
  <2> QED BY <1>1, <1>2, <2>1, <2>7, <2>8 DEF Entered
<1> QED BY <1>1, <1>2

(* From s to r, c has become a member of to, which leads; k is its seat.   *)
Joined(s, r, c, to, k) ==
  /\ Typed(r)
  /\ c # to /\ k \in Seats
  /\ s[to].use /\ s[to].idx[k] = None /\ s[to].mode \in {"NONE", "LEADER"}
  /\ \A d \in Chars : r[d].use = s[d].use /\ r[d].wild = s[d].wild
  /\ \A d \in Chars : d \notin {c, to} => r[d] = s[d]
  /\ r[to].mode = "LEADER" /\ r[to].idx[0] = to /\ r[to].idx[k] = c
  /\ \A i \in Seats : i # k => r[to].idx[i] = s[to].idx[i]
  /\ r[c].mode = "CLIENT" /\ r[c].idx[0] = to
  /\ \A i \in Seats : r[c].idx[i] = s[c].idx[i]

(* CHAR_JoinParty_Main between characters of G.                            *)
LEMMA JoinParty_MainFields ==
  ASSUME NEW s, NEW G, Sound(s, G), NEW c \in G, NEW t \in G,
         s[c].mode = "NONE", c # Chief(s, t), Room(s, Chief(s, t))
  PROVE  \E k \in Seats : Joined(s, JoinParty_Main(s, c, t), c, Chief(s, t), k)
<1> DEFINE to == Chief(s, t)
           k == Least(EmptySlots(s, to))
           led == IF s[to].mode = "NONE"
                    THEN [s EXCEPT ![to] = [@ EXCEPT !.mode = "LEADER", !.idx[0] = to]]
                    ELSE s
           in == [led EXCEPT ![to] = [@ EXCEPT !.idx[k] = c]]
           r == [in EXCEPT ![c] = [@ EXCEPT !.mode = "CLIENT", !.idx[0] = to]]
<1>0. Typed(s) /\ Agree(s, G) /\ c \in Chars
  BY DEF Sound
<1>1. to \in Chars /\ s[to].mode \in {"NONE", "LEADER"} /\ Chief(s, to) = to /\ to # None
  BY ChiefLeads, SlotsType DEF Sound
<1>6. to \in G
  BY ChiefLeads
<1>2. c # to
  OBVIOUS
<1>4. s[to].use /\ EmptySlots(s, to) # {}
  BY DEF Room, CHECKINDEX
<1>5. \E n \in Seats : Joined(s, JoinParty_Main(s, c, t), c, to, n)
  <2>1. JoinParty_Main(s, c, t) = r
    BY DEF JoinParty_Main
  <2>2. k \in Seats /\ s[to].idx[k] = None
    <3>1. EmptySlots(s, to) \subseteq Slots
      BY SlotsType DEF EmptySlots
    <3>2. k \in EmptySlots(s, to)
      BY <1>4, <3>1, LeastType
    <3> HIDE DEF k, to
    <3> QED BY <3>2, <1>1 DEF EmptySlots, Seats
  <2>3. Changed(s, led, to, "LEADER", 0, to)
    <3>1. CASE s[to].mode = "NONE"
      <4> HIDE DEF to
      <4> QED BY <1>0, <1>1, <3>1, BothWritten, SlotsType DEF Modes
    <3>2. CASE s[to].mode = "LEADER"
      <4> HIDE DEF to
      <4>1. s[to].idx[0] = to
        BY <1>0, <1>1, <1>6, <3>2 DEF Agree, FirstOK
      <4> QED BY <1>0, <1>1, <3>2, <4>1 DEF Changed
    <3> QED BY <1>1, <3>1, <3>2
  <2>4. Changed(led, in, to, "LEADER", k, c)
    <3> HIDE DEF led, to, k
    <3>1. Typed(led) /\ led[to].mode = "LEADER"
      BY <2>3 DEF Changed
    <3> QED BY <3>1, <2>2, <1>0, <1>1, IndexWritten, SlotsType
  <2>5. Changed(in, r, c, "CLIENT", 0, to)
    <3> HIDE DEF in, to
    <3>1. Typed(in)
      BY <2>4 DEF Changed
    <3> QED BY <3>1, <1>0, <1>1, BothWritten, SlotsType DEF Modes
  <2> HIDE DEF led, in, r, to, k
  <2>6. k # 0
    BY <2>2 DEF Seats
  <2>7. /\ led[to].use = s[to].use /\ led[to].wild = s[to].wild /\ led[to].idx[0] = to
        /\ \A i \in Seats : led[to].idx[i] = s[to].idx[i]
        /\ \A d \in Chars : d # to => led[d] = s[d]
    BY <2>3 DEF Changed, Seats
  <2>8. /\ in[to].use = s[to].use /\ in[to].wild = s[to].wild /\ in[to].idx[0] = to
        /\ in[to].mode = "LEADER" /\ in[to].idx[k] = c
        /\ \A i \in Seats : i # k => in[to].idx[i] = s[to].idx[i]
        /\ \A d \in Chars : d # to => in[d] = s[d]
    BY <2>4, <2>6, <2>7, SlotsType DEF Changed, Seats
  <2>9. /\ Typed(r) /\ r[c].mode = "CLIENT" /\ r[c].idx[0] = to
        /\ r[c].use = s[c].use /\ r[c].wild = s[c].wild
        /\ \A i \in Seats : r[c].idx[i] = s[c].idx[i]
        /\ r[to] = in[to]
        /\ \A d \in Chars : d \notin {c, to} => r[d] = s[d]
    BY <1>0, <1>1, <1>2, <2>5, <2>8 DEF Changed, Seats
  <2>10. \A d \in Chars : r[d].use = s[d].use /\ r[d].wild = s[d].wild
    BY <2>8, <2>9
  <2>11. Joined(s, r, c, to, k)
    BY <1>1, <1>2, <1>4, <2>2, <2>8, <2>9, <2>10 DEF Joined
  <2> QED BY <2>1, <2>2, <2>11
<1> QED BY <1>5

(* Whoever joins a party makes leaders and members agree as before.        *)
LEMMA JoinedAgree ==
  ASSUME NEW s, NEW r, NEW G, Sound(s, G), NEW c \in G, NEW to \in G, NEW k,
         s[c].mode = "NONE", s[c].use, Joined(s, r, c, to, k)
  PROVE  Agree(r, G)
<1>0. /\ Typed(s) /\ Agree(s, G) /\ Closed(s, G) /\ c \in Chars /\ to \in Chars
      /\ \A d \in G : d \in Chars
  BY DEF Sound
<1> USE <1>0
<1>1. \A d \in G : s[d].mode = "CLIENT" => d # to /\ d # c
  BY DEF Joined
<1>2. \A d \in G : s[d].mode = "CLIENT" => /\ r[d] = s[d]
                                               /\ s[d].idx[0] \in Chars
                                               /\ s[d].idx[0] # c
  BY <1>1 DEF Joined, Agree, ClientOK
<1>3. ASSUME NEW d \in G, r[d].mode = "CLIENT"
      PROVE  ClientOK(r, d)
  <2>1. CASE d = c
    BY <2>1 DEF Joined, ClientOK
  <2>2. CASE d # c
    <3>1. d # to /\ s[d].mode = "CLIENT" /\ r[d] = s[d]
      BY <1>3, <2>2 DEF Joined
    <3> DEFINE l == s[d].idx[0]
    <3>2. PICK i \in Seats : l \in Chars /\ s[l].mode = "LEADER" /\ s[l].idx[i] = d /\ s[d].use
      BY <3>1 DEF Agree, ClientOK
    <3>3. l # c
      BY <3>2
    <3>4. d # None
      BY SlotsType
    <3>5. r[l].mode = "LEADER" /\ r[l].idx[i] = d
      BY <3>2, <3>3, <3>4 DEF Joined
    <3> QED BY <3>1, <3>2, <3>5 DEF ClientOK
  <2> QED BY <2>1, <2>2
<1>4. ASSUME NEW l \in G, r[l].mode = "LEADER"
      PROVE  FirstOK(r, l) /\ MembersOK(r, l)
  <2>1. CASE l # to
    <3>1. l # c /\ r[l] = s[l]
      BY <1>4, <2>1 DEF Joined
    <3>2. FirstOK(s, l) /\ MembersOK(s, l)
      BY <1>4, <3>1 DEF Agree
    <3>3. FirstOK(r, l)
      BY <3>1, <3>2 DEF FirstOK
    <3>5. \A i \in Seats : s[l].idx[i] # None => s[l].idx[i] \in G
      BY SlotsType DEF Closed
    <3>4. MembersOK(r, l)
      BY <3>1, <3>2, <3>5, <1>2, SlotsType DEF MembersOK
    <3> QED BY <3>3, <3>4
  <2>2. CASE l = to
    <3>1. CASE s[to].mode = "NONE"
      <4>1. \A i \in Seats : s[to].idx[i] = None
        BY <3>1 DEF Agree
      <4>2. \A i \in Slots : r[to].idx[i] = IF i = 0 THEN to ELSE IF i = k THEN c ELSE None
        BY <4>1 DEF Joined, Seats
      <4>3. FirstOK(r, to)
        BY <4>2, SlotsType DEF FirstOK, Joined
      <4>4. MembersOK(r, to)
        BY <4>2, SlotsType DEF MembersOK, Joined, Seats
      <4> QED BY <2>2, <4>3, <4>4
    <3>2. CASE s[to].mode = "LEADER"
      <4>1. FirstOK(s, to) /\ MembersOK(s, to)
        BY <3>2 DEF Agree
      <4>2. \A i \in Slots : s[to].idx[i] # c
        <5>1. \A i \in Seats : s[to].idx[i] # c
          BY <4>1, SlotsType DEF MembersOK
        <5> QED BY <5>1, <4>1 DEF FirstOK, Joined, Seats
      <4>3. \A i \in Slots : r[to].idx[i] = IF i = k THEN c ELSE s[to].idx[i]
        BY <4>1 DEF Joined, FirstOK, Seats
      <4>4. FirstOK(r, to)
        BY <4>1, <4>2, <4>3, SlotsType DEF FirstOK, Joined
      <4>5. ASSUME NEW i \in Seats, r[to].idx[i] # None
            PROVE  LET m == r[to].idx[i] IN r[m].use /\ r[m].mode = "CLIENT" /\ r[m].idx[0] = to
        <5>1. CASE i = k
          BY <5>1 DEF Joined
        <5>2. CASE i # k
          <6>1. r[to].idx[i] = s[to].idx[i]
            BY <5>2, <4>3, SlotsType
          <6> DEFINE m == s[to].idx[i]
          <6>2. m \in Chars /\ s[m].use /\ s[m].mode = "CLIENT" /\ s[m].idx[0] = to
            BY <6>1, <4>5, <4>1, FieldTypes, SlotsType DEF MembersOK
          <6>3. m \in G
            BY <6>1, <4>5, SlotsType DEF Closed
          <6> QED BY <6>1, <6>2, <6>3, <1>2
        <5> QED BY <5>1, <5>2
      <4>6. MembersOK(r, to)
        BY <4>5 DEF MembersOK
      <4> QED BY <2>2, <4>4, <4>6
    <3> QED BY <3>1, <3>2 DEF Joined
  <2> QED BY <2>1, <2>2
<1>5. ASSUME NEW d \in G, r[d].mode # "LEADER", NEW i \in Seats
      PROVE  r[d].idx[i] = None
  BY <1>5 DEF Joined, Agree
<1>6. \A d \in G : ~r[d].wild
  BY DEF Joined, Agree
<1>7. ASSUME NEW d \in G, r[d].mode = "NONE"
      PROVE  r[d].idx[0] \in {None, d}
  BY <1>7 DEF Joined, Agree
<1> QED BY <1>3, <1>4, <1>5, <1>6, <1>7 DEF Agree

(* From s to r, c has left its party: nobody but c and those it refers to  *)
(* has changed, and nobody refers to anybody new.                          *)
Shed(s, r, c) ==
  /\ Typed(r)
  /\ \A d \in Chars : r[d].use = s[d].use
  /\ \A d \in Chars : d # c /\ (\A i \in Slots : s[c].idx[i] # d) => r[d] = s[d]
  /\ \A d \in Chars : \A i \in Slots : r[d].idx[i] \in {None, s[d].idx[i]}

(* A party is dissolved, in any state.                                     *)
LEMMA DisbandedSheds ==
  ASSUME NEW s, Typed(s), NEW l \in Chars
  PROVE  Shed(s, Disbanded(s, l), l)
<1> DEFINE gone == {m \in MembersOf(s, l) : CHECKINDEX(s, m)}
           Slot(i) == IF s[l].idx[i] \in gone THEN None ELSE s[l].idx[i]
           blank == [i \in Slots |-> Slot(i)]
           emptied == [s EXCEPT ![l] = [@ EXCEPT !.idx = blank]]
           left == [c \in Chars |->
                      IF c \in gone THEN [emptied[c] EXCEPT !.mode = "NONE", !.idx[0] = None]
                      ELSE emptied[c]]
<1>1. \A d \in gone : \E i \in Slots : s[l].idx[i] = d
  BY DEF MembersOf
<1>2. /\ blank \in [Slots -> Chars \union {None}]
      /\ \A i \in Slots : blank[i] \in {None, s[l].idx[i]}
  <2> HIDE DEF gone
  <2>1. \A i \in Slots : Slot(i) \in Chars \union {None} /\ Slot(i) \in {None, s[l].idx[i]}
    BY FieldTypes
  <2> HIDE DEF Slot
  <2> QED BY <2>1
<1> HIDE DEF gone, blank
<1>3. /\ Typed(emptied)
      /\ \A d \in Chars : d # l => emptied[d] = s[d]
      /\ emptied[l].use = s[l].use
      /\ \A i \in Slots : emptied[l].idx[i] \in {None, s[l].idx[i]}
  <2> DEFINE u == [s[l] EXCEPT !.idx = blank]
  <2>1. u \in Character /\ u.use = s[l].use /\ u.idx = blank
    BY <1>2, FieldTypes DEF Character
  <2> HIDE DEF u
  <2>2. /\ Typed([s EXCEPT ![l] = u])
        /\ [s EXCEPT ![l] = u][l] = u
        /\ \A d \in Chars : d # l => [s EXCEPT ![l] = u][d] = s[d]
    BY <2>1, RecordChanged
  <2>3. emptied = [s EXCEPT ![l] = u]
    BY DEF u
  <2> QED BY <1>2, <2>1, <2>2, <2>3
<1> HIDE DEF emptied
<1>4. ASSUME NEW d \in Chars
      PROVE  /\ left[d] \in Character
             /\ d \notin gone => left[d] = emptied[d]
             /\ left[d].use = emptied[d].use
             /\ \A i \in Slots : left[d].idx[i] \in {None, emptied[d].idx[i]}
  <2>1. emptied[d] \in Character /\ emptied[d].idx \in [Slots -> Chars \union {None}]
    BY <1>3, FieldTypes
  <2> DEFINE u == [emptied[d] EXCEPT !.mode = "NONE", !.idx[0] = None]
  <2>2. /\ u \in Character /\ u.use = emptied[d].use
        /\ \A i \in Slots : u.idx[i] \in {None, emptied[d].idx[i]}
    BY <2>1, SlotsType DEF Character, Modes
  <2>3. left[d] = IF d \in gone THEN u ELSE emptied[d]
    OBVIOUS
  <2> HIDE DEF u, left
  <2> QED BY <2>1, <2>2, <2>3
<1>5. left = [d \in Chars |-> left[d]]
  OBVIOUS
<1> HIDE DEF left
<1>6. Typed(left)
  <2>1. \A d \in Chars : left[d] \in Character
    BY <1>4
  <2> QED BY <2>1, <1>5 DEF Typed
<1>7. ASSUME NEW d \in Chars, NEW i \in Slots
      PROVE  left[d].use = s[d].use /\ left[d].idx[i] \in {None, s[d].idx[i]}
  <2>1. emptied[d].use = s[d].use /\ emptied[d].idx[i] \in {None, s[d].idx[i]}
    BY <1>3
  <2> QED BY <2>1, <1>4
<1>8. ASSUME NEW d \in Chars, d # l, \A i \in Slots : s[l].idx[i] # d
      PROVE  left[d] = s[d]
  BY <1>8, <1>1, <1>3, <1>4
<1>9. Disbanded(s, l) = left
  BY DEF Disbanded, left, emptied, blank, gone
<1> QED BY <1>6, <1>7, <1>8, <1>9, SlotsType DEF Shed

(* The work int in front of the array is written.                          *)
LEMMA WildWritten ==
  ASSUME NEW s, Typed(s), NEW c \in Chars
  PROVE  LET r == [s EXCEPT ![c] = [@ EXCEPT !.wild = TRUE]] IN
         /\ Typed(r)
         /\ \A d \in Chars : d # c => r[d] = s[d]
         /\ r[c].use = s[c].use /\ r[c].idx = s[c].idx
<1> DEFINE u == [s[c] EXCEPT !.wild = TRUE]
<1>1. u \in Character /\ u.use = s[c].use /\ u.idx = s[c].idx
  BY FieldTypes DEF Character
<1> HIDE DEF u
<1>2. /\ Typed([s EXCEPT ![c] = u])
      /\ [s EXCEPT ![c] = u][c] = u
      /\ \A d \in Chars : d # c => [s EXCEPT ![c] = u][d] = s[d]
  BY <1>1, RecordChanged
<1> QED BY <1>1, <1>2 DEF u

(* A member leaves, in any state.                                          *)
LEMMA LeftSheds ==
  ASSUME NEW s, Typed(s), NEW c \in Chars
  PROVE  Shed(s, Left(s, c), c)
<1> DEFINE to == s[c].idx[0]
           free == [s EXCEPT ![c] = [@ EXCEPT !.mode = "NONE"]]
           away == [free EXCEPT ![c] = [@ EXCEPT !.idx[0] = None]]
           mine == {i \in Slots : away[to].idx[i] = c}
           k == Least(mine)
           wild == [away EXCEPT ![to] = [@ EXCEPT !.wild = TRUE]]
           found == [away EXCEPT ![to] = [@ EXCEPT !.idx[k] = None]]
           out == IF mine = {} THEN wild ELSE found
           last == [out EXCEPT ![to] = [@ EXCEPT !.mode = "NONE"]]
<1>1. to \in Chars \union {None}
  BY FieldTypes, SlotsType
<1>2. Left(s, c) = IF ~CHECKINDEX(s, to) THEN free
                   ELSE IF \E i \in Slots \ {0} : CHECKINDEX(out, out[to].idx[i]) THEN out
                   ELSE last
  <2> DEFINE o == [away EXCEPT ![to] = IF mine = {} THEN [@ EXCEPT !.wild = TRUE]
                                       ELSE [@ EXCEPT !.idx[k] = None]]
  <2>1. Left(s, c) = IF ~CHECKINDEX(s, to) THEN free
                     ELSE IF \E i \in Slots \ {0} : CHECKINDEX(o, o[to].idx[i]) THEN o
                     ELSE [o EXCEPT ![to] = [@ EXCEPT !.mode = "NONE"]]
    BY DEF Left, o, k, mine, away, free, to
  <2>2. o = out
    <3> HIDE DEF mine, k, away
    <3> QED BY DEF o, out, wild, found
  <2> HIDE DEF o, out, to, free
  <2> QED BY <2>1, <2>2 DEF last
<1>3. Changed(s, free, c, "NONE", 0, s[c].idx[0])
  BY ModeWritten DEF Modes
<1>4. Changed(free, away, c, "NONE", 0, None)
  <2> HIDE DEF free
  <2>1. Typed(free) /\ free[c].mode = "NONE"
    BY <1>3 DEF Changed
  <2> QED BY <2>1, IndexWritten, SlotsType
<1> HIDE DEF free, away
<1>5. Shed(s, free, c)
  BY <1>3 DEF Changed, Shed
<1>6. Shed(s, away, c)
  <2>1. Typed(away) /\ \A d \in Chars : d # c => away[d] = s[d]
    BY <1>3, <1>4 DEF Changed
  <2>2. away[c].use = s[c].use /\ \A i \in Slots : away[c].idx[i] \in {None, s[c].idx[i]}
    BY <1>3, <1>4 DEF Changed
  <2> QED BY <2>1, <2>2 DEF Shed
<1>7. CASE to \in Chars
  <2>1. Shed(s, wild, c)
    <3>1. /\ Typed(wild)
          /\ \A d \in Chars : d # to => wild[d] = away[d]
          /\ wild[to].use = away[to].use /\ wild[to].idx = away[to].idx
      <4> HIDE DEF to
      <4> QED BY <1>6, <1>7, WildWritten DEF Shed
    <3> HIDE DEF wild
    <3> QED BY <1>6, <1>7, <3>1, SlotsType DEF Shed
  <2>2. ASSUME mine # {}
        PROVE  Shed(s, found, c)
    <3>1. k \in Slots
      <4>1. mine \subseteq Slots /\ k \in mine
        BY <2>2, LeastType
      <4> QED BY <4>1
    <3>2. Changed(away, found, to, away[to].mode, k, None)
      <4> HIDE DEF to, k
      <4> QED BY <1>6, <1>7, <3>1, IndexWritten DEF Shed
    <3> HIDE DEF found, k
    <3>3. Shed(s, found, c)
      <4>1. Typed(found) /\ \A d \in Chars : d # to => found[d] = away[d]
        BY <3>2 DEF Changed
      <4>2. /\ found[to].use = away[to].use
            /\ \A i \in Slots : found[to].idx[i] \in {None, away[to].idx[i]}
        BY <3>2, <3>1 DEF Changed
      <4>3. \A d \in Chars : found[d].use = s[d].use
        BY <1>6, <1>7, <4>1, <4>2 DEF Shed
      <4>4. \A d \in Chars : \A i \in Slots : found[d].idx[i] \in {None, s[d].idx[i]}
        BY <1>6, <1>7, <4>1, <4>2 DEF Shed
      <4> QED BY <1>6, <1>7, <4>1, <4>3, <4>4, SlotsType DEF Shed
    <3> QED BY <3>3
  <2> HIDE DEF mine, wild, found
  <2>3. Shed(s, out, c)
    BY <2>1, <2>2
  <2>4. Changed(out, last, to, "NONE", 0, out[to].idx[0])
    <3> HIDE DEF out, to
    <3> QED BY <1>7, <2>3, ModeWritten DEF Shed, Modes
  <2> HIDE DEF out, last
  <2>5. Shed(s, last, c)
    <3>1. Typed(last) /\ \A d \in Chars : d # to => last[d] = out[d]
      BY <2>4 DEF Changed
    <3>2. last[to].use = out[to].use /\ \A i \in Slots : last[to].idx[i] = out[to].idx[i]
      BY <2>4 DEF Changed
    <3>3. \A d \in Chars : last[d].use = s[d].use
      BY <1>7, <2>3, <3>1, <3>2 DEF Shed
    <3>4. \A d \in Chars : \A i \in Slots : last[d].idx[i] \in {None, s[d].idx[i]}
      BY <1>7, <2>3, <3>1, <3>2 DEF Shed
    <3> QED BY <1>7, <2>3, <3>1, <3>3, <3>4, SlotsType DEF Shed
  <2> HIDE DEF to
  <2> QED BY <1>2, <1>5, <2>3, <2>5
<1>8. CASE to = None
  <2>1. ~CHECKINDEX(s, to)
    BY <1>8 DEF CHECKINDEX
  <2> HIDE DEF to, out, last
  <2> QED BY <1>2, <1>5, <2>1
<1> HIDE DEF to
<1> QED BY <1>1, <1>7, <1>8

(* CHAR_DischargePartySub in any state: the characters of G refer to each  *)
(* other as before, and have not changed when c is not one of them.        *)
LEMMA DischargeSheds ==
  ASSUME NEW s, NEW G, Sound(s, G), NEW c \in Chars
  PROVE  LET r == DischargePartySub(s, c) IN
         /\ Typed(r) /\ Closed(r, G)
         /\ \A d \in Chars : r[d].use = s[d].use
         /\ c \notin G => \A d \in G : r[d] = s[d]
<1> DEFINE r == DischargePartySub(s, c)
<1>1. Typed(s) /\ Closed(s, G) /\ G \subseteq Chars
  BY DEF Sound
<1>2. Shed(s, r, c)
  <2>1. CASE s[c].mode = "LEADER"
    BY <1>1, <2>1, DisbandedSheds DEF DischargePartySub
  <2>2. CASE s[c].mode = "CLIENT"
    BY <1>1, <2>2, LeftSheds DEF DischargePartySub
  <2>3. CASE s[c].mode = "NONE"
    <3>1. r = s
      BY <2>3 DEF DischargePartySub
    <3> HIDE DEF r
    <3> QED BY <1>1, <3>1 DEF Shed
  <2> QED BY <1>1, <2>1, <2>2, <2>3, FieldTypes DEF Modes
<1> HIDE DEF r
<1>3. Closed(r, G)
  <2>1. ASSUME NEW d \in Chars, NEW i \in Slots, r[d].idx[i] # None
        PROVE  d \in G <=> r[d].idx[i] \in G
    <3>1. r[d].idx[i] = s[d].idx[i]
      BY <1>2, <2>1 DEF Shed
    <3> QED BY <1>1, <2>1, <3>1 DEF Closed
  <2> QED BY <2>1 DEF Closed
<1>4. ASSUME c \notin G, NEW d \in G
      PROVE  r[d] = s[d]
  <2>1. d \in Chars /\ d # c /\ d # None
    BY <1>1, <1>4, SlotsType
  <2>2. \A i \in Slots : s[c].idx[i] # d
    BY <1>1, <1>4, <2>1 DEF Closed
  <2> QED BY <1>2, <2>1, <2>2 DEF Shed
<1> QED BY <1>2, <1>3, <1>4 DEF Shed, r

(* From s to r, c has left its party; nobody of G got into one.            *)
Discharged(s, r, c, G) ==
  /\ Agree(r, G)
  /\ c \in G => r[c].mode = "NONE"
  /\ \A d \in G :
       /\ s[d].mode = "NONE" => r[d].mode = "NONE"
       /\ r[d].mode = "CLIENT" => s[d].mode = "CLIENT" /\ r[d].idx[0] = s[d].idx[0]

(* Those gone are blank and everybody else is as before: l and its members *)
Dissolved(s, r, l, gone) ==
  /\ Typed(r)
  /\ \A d \in Chars : d \notin gone => r[d] = s[d]
  /\ \A d \in gone : /\ r[d].mode = "NONE"
                     /\ r[d].use = s[d].use /\ r[d].wild = s[d].wild
                     /\ \A i \in Slots : r[d].idx[i] = None

(* Disbanded: l and its members are who is gone.                           *)
LEMMA DisbandedFields ==
  ASSUME NEW s, NEW G, Sound(s, G), NEW l \in G, s[l].mode = "LEADER"
  PROVE  Dissolved(s, Disbanded(s, l), l,
           {l} \union {m \in G : s[m].mode = "CLIENT" /\ s[m].idx[0] = l})
<1> DEFINE gone == {m \in MembersOf(s, l) : CHECKINDEX(s, m)}
           those == {l} \union {m \in G : s[m].mode = "CLIENT" /\ s[m].idx[0] = l}
           Slot(i) == IF s[l].idx[i] \in gone THEN None ELSE s[l].idx[i]
           blank == [i \in Slots |-> Slot(i)]
           emptied == [s EXCEPT ![l] = [@ EXCEPT !.idx = blank]]
           left == [c \in Chars |->
                      IF c \in gone THEN [emptied[c] EXCEPT !.mode = "NONE", !.idx[0] = None]
                      ELSE emptied[c]]
<1> l \in Chars /\ G \subseteq Chars /\ Typed(s) /\ Agree(s, G) /\ Closed(s, G)
  BY DEF Sound
<1>1. FirstOK(s, l) /\ MembersOK(s, l)
  BY DEF Agree
<1>2. \A i \in Slots : s[l].idx[i] # None => s[l].idx[i] \in those /\ s[s[l].idx[i]].use
  <2>1. \A i \in Seats : s[l].idx[i] # None => s[l].idx[i] \in those /\ s[s[l].idx[i]].use
    <3>1. \A i \in Seats : s[l].idx[i] # None => s[l].idx[i] \in G
      BY SlotsType DEF Closed
    <3> QED BY <1>1, <3>1 DEF MembersOK
  <2> QED BY <2>1, <1>1 DEF FirstOK, Seats
<1>3. \A m \in those : \E i \in Slots : s[l].idx[i] = m
  <2>1. ASSUME NEW m \in G, s[m].mode = "CLIENT", s[m].idx[0] = l
        PROVE  \E i \in Slots : s[l].idx[i] = m
    BY <2>1, SlotsType DEF Agree, ClientOK
  <2> QED BY <2>1, <1>1, SlotsType DEF FirstOK
<1>4. gone = those
  <2>1. gone \subseteq those
    BY <1>2 DEF MembersOf, CHECKINDEX
  <2>2. those \subseteq gone
    <3> SUFFICES ASSUME NEW m \in those PROVE m \in gone
      OBVIOUS
    <3>1. m # None
      BY SlotsType
    <3>2. PICK i \in Slots : s[l].idx[i] = m
      BY <1>3
    <3> QED BY <3>1, <3>2, <1>2 DEF MembersOf, CHECKINDEX
  <2> QED BY <2>1, <2>2
<1>5. blank \in [Slots -> Chars \union {None}] /\ \A i \in Slots : blank[i] = None
  <2>1. \A i \in Slots : Slot(i) = None
    <3> HIDE DEF gone, those
    <3> QED BY <1>2, <1>4
  <2> HIDE DEF Slot
  <2> QED BY <2>1
<1> HIDE DEF gone, those, blank
<1>6. /\ Typed(emptied)
      /\ \A d \in Chars : d # l => emptied[d] = s[d]
      /\ emptied[l].use = s[l].use /\ emptied[l].wild = s[l].wild
      /\ \A i \in Slots : emptied[l].idx[i] = None
  <2> DEFINE u == [s[l] EXCEPT !.idx = blank]
  <2>1. /\ u \in Character /\ u.use = s[l].use /\ u.wild = s[l].wild
        /\ u.idx = blank
    BY <1>5, FieldTypes DEF Character
  <2> HIDE DEF u
  <2>2. /\ Typed([s EXCEPT ![l] = u])
        /\ [s EXCEPT ![l] = u][l] = u
        /\ \A d \in Chars : d # l => [s EXCEPT ![l] = u][d] = s[d]
    BY <2>1, RecordChanged
  <2>3. emptied = [s EXCEPT ![l] = u]
    BY DEF u
  <2> QED BY <1>5, <2>1, <2>2, <2>3
<1> HIDE DEF emptied
<1>7. ASSUME NEW d \in Chars
      PROVE  /\ left[d] \in Character
             /\ d \notin gone => left[d] = emptied[d]
             /\ d \in gone => /\ left[d].mode = "NONE" /\ left[d].idx[0] = None
                              /\ left[d].use = emptied[d].use
                              /\ left[d].wild = emptied[d].wild
                              /\ \A i \in Seats : left[d].idx[i] = emptied[d].idx[i]
  <2>1. emptied[d] \in Character /\ emptied[d].idx \in [Slots -> Chars \union {None}]
    BY <1>6, FieldTypes
  <2> DEFINE u == [emptied[d] EXCEPT !.mode = "NONE", !.idx[0] = None]
  <2>2. /\ u \in Character /\ u.mode = "NONE" /\ u.idx[0] = None
        /\ u.use = emptied[d].use /\ u.wild = emptied[d].wild
        /\ \A i \in Seats : u.idx[i] = emptied[d].idx[i]
    BY <2>1, SlotsType DEF Character, Modes, Seats
  <2>3. left[d] = IF d \in gone THEN u ELSE emptied[d]
    OBVIOUS
  <2> HIDE DEF u, left
  <2> QED BY <2>1, <2>2, <2>3
<1>8. left = [d \in Chars |-> left[d]]
  OBVIOUS
<1> HIDE DEF left
<1>9. Typed(left)
  <2>1. \A d \in Chars : left[d] \in Character
    BY <1>7
  <2> QED BY <2>1, <1>8 DEF Typed
<1>10. ASSUME NEW d \in Chars, d \in gone, NEW i \in Slots
       PROVE  left[d].idx[i] = None
  <2>1. CASE i = 0
    BY <2>1, <1>7, <1>10
  <2>2. CASE i # 0
    <3>1. i \in Seats /\ left[d].idx[i] = emptied[d].idx[i]
      BY <2>2, <1>7, <1>10 DEF Seats
    <3>2. CASE d = l
      BY <3>1, <3>2, <1>6
    <3>3. CASE d # l
      <4>1. s[d].mode = "CLIENT" /\ emptied[d] = s[d] /\ d \in G
        BY <3>3, <1>10, <1>4, <1>6 DEF those
      <4> QED BY <4>1, <3>1 DEF Agree
    <3> QED BY <3>2, <3>3
  <2> QED BY <2>1, <2>2
<1>11. \A d \in Chars : d \notin gone => left[d] = s[d]
  BY <1>7, <1>6, <1>4 DEF those
<1>12. \A d \in gone : /\ d \in Chars
                       /\ left[d].use = s[d].use /\ left[d].wild = s[d].wild
                       /\ left[d].mode = "NONE"
  <2>1. gone \subseteq Chars
    BY <1>4 DEF those
  <2> QED BY <2>1, <1>6, <1>7
<1>13. Disbanded(s, l) = left
  BY DEF Disbanded, left, emptied, blank, gone
<1> QED BY <1>4, <1>9, <1>10, <1>11, <1>12, <1>13 DEF Dissolved, those

(* After a party is dissolved, leaders and members of the others agree.    *)
LEMMA DisbandedAgree ==
  ASSUME NEW s, NEW G, Sound(s, G), NEW l \in G, s[l].mode = "LEADER"
  PROVE  Discharged(s, Disbanded(s, l), l, G)
<1> DEFINE r == Disbanded(s, l)
           gone == {l} \union {m \in G : s[m].mode = "CLIENT" /\ s[m].idx[0] = l}
<1> l \in Chars /\ G \subseteq Chars /\ Typed(s) /\ Agree(s, G) /\ Closed(s, G)
  BY DEF Sound
<1>1. Dissolved(s, r, l, gone)
  BY DisbandedFields
<1>2. \A d \in G : d \in gone <=> d = l \/ (s[d].mode = "CLIENT" /\ s[d].idx[0] = l)
  OBVIOUS
<1> HIDE DEF r, gone
<1>3. ASSUME NEW d \in G, r[d].mode = "CLIENT"
      PROVE  ClientOK(r, d) /\ s[d].mode = "CLIENT" /\ r[d].idx[0] = s[d].idx[0]
  <2>1. d \notin gone /\ r[d] = s[d]
    BY <1>1, <1>3 DEF Dissolved
  <2>2. ClientOK(s, d) /\ s[d].idx[0] # l
    BY <2>1, <1>2, <1>3 DEF Agree
  <2>3. s[d].idx[0] \in Chars /\ s[d].idx[0] \notin gone
    <3>1. s[d].idx[0] \in Chars /\ s[s[d].idx[0]].mode = "LEADER" /\ s[d].idx[0] \in G
      BY <2>2, SlotsType DEF ClientOK, Closed
    <3> QED BY <2>2, <3>1, <1>2
  <2>4. r[s[d].idx[0]] = s[s[d].idx[0]]
    BY <2>3, <1>1 DEF Dissolved
  <2> QED BY <2>1, <2>2, <2>4, <1>3 DEF ClientOK
<1>4. ASSUME NEW d \in G, r[d].mode = "LEADER"
      PROVE  FirstOK(r, d) /\ MembersOK(r, d)
  <2>1. d \notin gone /\ r[d] = s[d] /\ d # l
    BY <1>1, <1>2, <1>4 DEF Dissolved
  <2>2. FirstOK(s, d) /\ MembersOK(s, d)
    BY <2>1, <1>4 DEF Agree
  <2>3. ASSUME NEW i \in Seats, s[d].idx[i] # None
        PROVE  r[s[d].idx[i]] = s[s[d].idx[i]]
    <3> DEFINE m == s[d].idx[i]
    <3>1. m \in G /\ m \in Chars /\ s[m].mode = "CLIENT" /\ s[m].idx[0] = d
      BY <2>2, <2>3, SlotsType DEF MembersOK, Closed
    <3>2. m \notin gone
      BY <3>1, <2>1, <1>2
    <3> QED BY <3>1, <3>2, <1>1 DEF Dissolved
  <2>4. MembersOK(r, d)
    BY <2>1, <2>2, <2>3 DEF MembersOK
  <2> QED BY <2>1, <2>2, <2>4 DEF FirstOK
<1>5. ASSUME NEW d \in G, r[d].mode # "LEADER", NEW i \in Seats
      PROVE  r[d].idx[i] = None
  <2>1. CASE d \in gone
    BY <2>1, <1>1, SlotsType DEF Dissolved
  <2>2. CASE d \notin gone
    BY <2>2, <1>1, <1>5 DEF Dissolved, Agree
  <2> QED BY <2>1, <2>2
<1>6. \A d \in G : ~r[d].wild /\ (r[d].mode = "NONE" => r[d].idx[0] \in {None, d})
  <2>1. ASSUME NEW d \in G
        PROVE  ~r[d].wild /\ (r[d].mode = "NONE" => r[d].idx[0] \in {None, d})
    <3>1. CASE d \in gone
      BY <3>1, <1>1, SlotsType DEF Dissolved, Agree
    <3>2. CASE d \notin gone
      BY <3>2, <1>1 DEF Dissolved, Agree
    <3> QED BY <3>1, <3>2
  <2> QED BY <2>1
<1>7. Agree(r, G)
  BY <1>3, <1>4, <1>5, <1>6 DEF Agree
<1>8. r[l].mode = "NONE" /\ \A d \in G : s[d].mode = "NONE" => r[d].mode = "NONE"
  BY <1>1, <1>2 DEF Dissolved
<1> QED BY <1>3, <1>7, <1>8 DEF Discharged, r

(* From s to r, c has left the party of to, where its seat was k.          *)
Departed(s, r, c, to, k) ==
  /\ Typed(r)
  /\ k \in Seats /\ s[to].idx[k] = c /\ to # c
  /\ \A d \in Chars : r[d].use = s[d].use /\ r[d].wild = s[d].wild
  /\ \A d \in Chars : d \notin {c, to} => r[d] = s[d]
  /\ r[c].mode = "NONE" /\ r[c].idx[0] = None
  /\ \A i \in Seats : r[c].idx[i] = s[c].idx[i]
  /\ r[to].idx[k] = None
  /\ \A i \in Slots : i # k => r[to].idx[i] = s[to].idx[i]
  /\ r[to].mode = IF \E i \in Seats : CHECKINDEX(r, r[to].idx[i]) THEN "LEADER" ELSE "NONE"

(* Left: the seat is found, and is behind the leader's own.                *)
LEMMA LeftFields ==
  ASSUME NEW s, NEW G, Sound(s, G), NEW c \in G, s[c].mode = "CLIENT"
  PROVE  \E k \in Seats : Departed(s, Left(s, c), c, s[c].idx[0], k)
<1> DEFINE to == s[c].idx[0]
           free == [s EXCEPT ![c] = [@ EXCEPT !.mode = "NONE"]]
           away == [free EXCEPT ![c] = [@ EXCEPT !.idx[0] = None]]
           mine == {i \in Slots : away[to].idx[i] = c}
           k == Least(mine)
           out == [away EXCEPT ![to] = [@ EXCEPT !.idx[k] = None]]
           last == [out EXCEPT ![to] = [@ EXCEPT !.mode = "NONE"]]
<1> c \in Chars /\ Typed(s) /\ Agree(s, G) /\ Closed(s, G)
  BY DEF Sound
<1>1. ClientOK(s, c)
  BY DEF Agree
<1>2. /\ to \in Chars /\ s[to].mode = "LEADER" /\ to # c /\ to # None
      /\ to \in G
  BY <1>1, SlotsType DEF ClientOK, Closed
<1>3. FirstOK(s, to)
  BY <1>2 DEF Agree
<1> HIDE DEF to
<1>4. Changed(s, free, c, "NONE", 0, s[c].idx[0])
  BY ModeWritten DEF Modes
<1>5. Changed(free, away, c, "NONE", 0, None)
  <2> HIDE DEF free
  <2>1. Typed(free) /\ free[c].mode = "NONE"
    BY <1>4 DEF Changed
  <2> QED BY <2>1, IndexWritten, SlotsType
<1> HIDE DEF free, away
<1>6. /\ away[to] = s[to] /\ \A d \in Chars : d # c => away[d] = s[d]
      /\ away[c].mode = "NONE" /\ away[c].idx[0] = None /\ away[c].use = s[c].use /\ away[c].wild = s[c].wild
      /\ \A i \in Seats : away[c].idx[i] = s[c].idx[i]
  BY <1>2, <1>4, <1>5 DEF Changed, Seats
<1>7. k \in Seats /\ s[to].idx[k] = c /\ mine # {}
  <2>1. PICK i \in Seats : s[to].idx[i] = c
    BY <1>1 DEF ClientOK, to
  <2>2. mine \subseteq Slots /\ i \in mine
    BY <1>6, <2>1, SlotsType
  <2>3. k \in mine
    BY <2>2, LeastType
  <2>4. k \in Slots /\ s[to].idx[k] = c
    BY <2>3, <1>6
  <2> HIDE DEF k, mine
  <2> QED BY <2>2, <2>4, <1>2, <1>3 DEF FirstOK, Seats
<1> HIDE DEF k
<1>8. Changed(away, out, to, "LEADER", k, None)
  <2>1. Typed(away) /\ away[to].mode = "LEADER"
    BY <1>2, <1>5, <1>6 DEF Changed
  <2> QED BY <2>1, <1>2, <1>7, IndexWritten, SlotsType
<1> HIDE DEF out
<1>9. Changed(out, last, to, "NONE", 0, out[to].idx[0])
  <2>1. Typed(out)
    BY <1>8 DEF Changed
  <2> QED BY <2>1, <1>2, ModeWritten DEF Modes
<1> HIDE DEF last
<1> DEFINE r == IF \E i \in Seats : CHECKINDEX(out, out[to].idx[i]) THEN out ELSE last
<1>10. Left(s, c) = r
  <2>1. CHECKINDEX(s, to)
    BY <1>2, <1>3 DEF CHECKINDEX, FirstOK
  <2> DEFINE o == [away EXCEPT ![to] = IF mine = {} THEN [@ EXCEPT !.wild = TRUE]
                                       ELSE [@ EXCEPT !.idx[k] = None]]
  <2>2. Left(s, c) = IF ~CHECKINDEX(s, to) THEN free
                     ELSE IF \E i \in Slots \ {0} : CHECKINDEX(o, o[to].idx[i]) THEN o
                     ELSE [o EXCEPT ![to] = [@ EXCEPT !.mode = "NONE"]]
    BY DEF Left, o, k, mine, away, free, to
  <2>3. o = out
    <3> HIDE DEF mine
    <3> QED BY <1>7 DEF o, out
  <2> HIDE DEF o, mine
  <2> QED BY <2>1, <2>2, <2>3 DEF r, last, Seats
<1>11. /\ \A d \in Chars : d # c /\ d # to => out[d] = s[d]
       /\ out[c] = away[c]
       /\ out[to].use = s[to].use /\ out[to].wild = s[to].wild
       /\ out[to].idx[k] = None /\ out[to].mode = "LEADER"
       /\ \A i \in Slots : i # k => out[to].idx[i] = s[to].idx[i]
  BY <1>2, <1>6, <1>8 DEF Changed
<1>12. /\ \A d \in Chars : d # to => last[d] = out[d]
       /\ last[to].use = out[to].use /\ last[to].wild = out[to].wild
       /\ last[to].mode = "NONE"
       /\ \A i \in Slots : last[to].idx[i] = out[to].idx[i]
  BY <1>9 DEF Changed
<1>13. \A d \in Chars : last[d].use = out[d].use
  BY <1>12
<1>14. Typed(out) /\ Typed(last)
  BY <1>8, <1>9 DEF Changed
<1>15. \A i \in Seats : out[to].idx[i] \in Chars \union {None}
  BY <1>14, <1>2, FieldTypes, SlotsType
<1>16. (\E i \in Seats : CHECKINDEX(out, out[to].idx[i]))
         <=> \E i \in Seats : CHECKINDEX(last, last[to].idx[i])
  BY <1>12, <1>13, <1>15, SlotsType DEF CHECKINDEX
<1>17. CASE \E i \in Seats : CHECKINDEX(out, out[to].idx[i])
  <2>1. r = out
    BY <1>17
  <2>2. \A d \in Chars : out[d].use = s[d].use /\ out[d].wild = s[d].wild
    BY <1>6, <1>11
  <2>3. Departed(s, out, c, to, k)
    BY <1>2, <1>6, <1>7, <1>11, <1>14, <1>17, <2>2 DEF Departed
  <2> QED BY <2>1, <2>3, <1>7, <1>10 DEF to
<1>18. CASE ~\E i \in Seats : CHECKINDEX(out, out[to].idx[i])
  <2>1. r = last
    BY <1>18
  <2>2. \A d \in Chars : last[d].use = s[d].use /\ last[d].wild = s[d].wild
    BY <1>6, <1>11, <1>12
  <2>3. /\ \A d \in Chars : d \notin {c, to} => last[d] = s[d]
        /\ last[c] = away[c]
    BY <1>2, <1>11, <1>12
  <2>4. /\ last[to].idx[k] = None
        /\ \A i \in Slots : i # k => last[to].idx[i] = s[to].idx[i]
    BY <1>7, <1>11, <1>12, SlotsType
  <2>5. Departed(s, last, c, to, k)
    BY <1>2, <1>6, <1>7, <1>12, <1>14, <1>16, <1>18, <2>2, <2>3, <2>4 DEF Departed
  <2> QED BY <2>1, <2>5, <1>7, <1>10 DEF to
<1> QED BY <1>17, <1>18

(* When a member leaves, leaders and members agree as before; its leader   *)
(* remains one as long as it lists anybody.                                *)
LEMMA DepartedAgree ==
  ASSUME NEW s, NEW r, NEW G, Sound(s, G), NEW c \in G, NEW k,
         s[c].mode = "CLIENT", Departed(s, r, c, s[c].idx[0], k)
  PROVE  Discharged(s, r, c, G)
<1> DEFINE to == s[c].idx[0]
<1>0. G \subseteq Chars /\ Typed(s) /\ Agree(s, G) /\ Closed(s, G)
  BY DEF Sound
<1> USE <1>0
<1>1. /\ to \in Chars /\ to \in G /\ s[to].mode = "LEADER" /\ to # c
      /\ FirstOK(s, to) /\ MembersOK(s, to)
  <2>1. to \in Chars /\ s[to].mode = "LEADER"
    BY DEF Agree, ClientOK
  <2>2. to \in G
    BY <2>1, SlotsType DEF Closed
  <2> QED BY <2>1, <2>2 DEF Agree
<1>2. Departed(s, r, c, to, k)
  OBVIOUS
<1>3. s[c].idx[0] = to
  OBVIOUS
<1> HIDE DEF to
<1>4. \A i \in Slots : s[to].idx[i] = c => i = k
  BY <1>1, <1>2, SlotsType DEF FirstOK, Departed, Seats
<1>5. \A i \in Seats : i # k => r[to].idx[i] = s[to].idx[i] /\ r[to].idx[i] # c
  BY <1>2, <1>4, SlotsType DEF Departed
<1>6. /\ r[to].idx[0] = to
      /\ r[c].mode = "NONE" /\ r[to].mode \in {"LEADER", "NONE"}
  BY <1>1, <1>2, SlotsType DEF Departed, FirstOK, Seats
<1>7. \A i \in Seats : r[to].idx[i] # None => CHECKINDEX(r, r[to].idx[i])
  <2> SUFFICES ASSUME NEW i \in Seats, r[to].idx[i] # None
               PROVE  CHECKINDEX(r, r[to].idx[i])
    OBVIOUS
  <2>3. i # k /\ r[to].idx[i] = s[to].idx[i] /\ s[to].idx[i] # None
    BY <1>2, <1>5 DEF Departed
  <2>1. i # k /\ r[to].idx[i] = s[to].idx[i] /\ s[to].idx[i] \in Chars
    BY <2>3, <1>1, FieldTypes, SlotsType
  <2>2. s[s[to].idx[i]].use
    BY <2>1, <1>1, SlotsType DEF MembersOK
  <2> QED BY <2>1, <2>2, <1>2, SlotsType DEF CHECKINDEX, Departed
<1>8. ASSUME NEW d \in G, r[d].mode = "CLIENT"
      PROVE  ClientOK(r, d) /\ s[d].mode = "CLIENT" /\ r[d].idx[0] = s[d].idx[0]
  <2>1. d # c /\ d # to /\ r[d] = s[d]
    BY <1>2, <1>6, <1>8 DEF Departed
  <2> DEFINE l == s[d].idx[0]
  <2>2. PICK i \in Seats : /\ l \in Chars /\ s[l].mode = "LEADER"
                           /\ s[l].idx[i] = d /\ s[d].use
    BY <2>1, <1>8 DEF Agree, ClientOK
  <2>3. CASE l # to
    <3>1. l # c /\ r[l] = s[l]
      BY <2>2, <2>3, <1>2 DEF Departed
    <3> QED BY <2>1, <2>2, <3>1, <1>8 DEF ClientOK
  <2>4. CASE l = to
    <3>1. i # k
      BY <2>1, <2>2, <2>4, <1>2 DEF Departed
    <3>2. r[to].idx[i] = d /\ d # None
      BY <3>1, <2>2, <2>4, <1>5, SlotsType
    <3>3. CHECKINDEX(r, r[to].idx[i])
      BY <3>2, <1>7
    <3>4. r[to].mode = "LEADER"
      BY <3>3, <1>2 DEF Departed
    <3> QED BY <2>1, <2>2, <2>4, <3>2, <3>4, <1>8 DEF ClientOK
  <2> QED BY <2>3, <2>4
<1>9. ASSUME NEW d \in G, r[d].mode = "LEADER"
      PROVE  FirstOK(r, d) /\ MembersOK(r, d)
  <2>1. CASE d # to
    <3>1. d # c /\ r[d] = s[d]
      BY <1>2, <1>6, <1>9, <2>1 DEF Departed
    <3>2. FirstOK(s, d) /\ MembersOK(s, d)
      BY <3>1, <1>9 DEF Agree
    <3>3. ASSUME NEW i \in Seats, s[d].idx[i] # None
          PROVE  r[s[d].idx[i]] = s[s[d].idx[i]]
      <4> DEFINE m == s[d].idx[i]
      <4>1. m \in Chars /\ s[m].mode = "CLIENT" /\ s[m].idx[0] = d
        BY <3>1, <3>2, <3>3, FieldTypes, SlotsType DEF MembersOK
      <4>2. m # c /\ m # to
        BY <4>1, <2>1, <1>1, <1>3
      <4> QED BY <4>1, <4>2, <1>2 DEF Departed
    <3>4. MembersOK(r, d)
      BY <3>1, <3>2, <3>3 DEF MembersOK
    <3> QED BY <3>1, <3>2, <3>4 DEF FirstOK
  <2>2. CASE d = to
    <3>1. PICK i \in Seats : CHECKINDEX(r, r[to].idx[i])
      BY <1>2, <1>9, <2>2 DEF Departed
    <3>2. r[to].idx[i] # None /\ r[to].use
      BY <3>1, <1>1, <1>2 DEF CHECKINDEX, Departed, FirstOK
    <3>3. \A a, b \in Slots : r[to].idx[a] = r[to].idx[b] => a = b \/ r[to].idx[a] = None
      BY <1>1, <1>2, SlotsType DEF FirstOK, Departed
    <3>4. FirstOK(r, to)
      BY <1>6, <3>2, <3>3 DEF FirstOK
    <3>5. ASSUME NEW j \in Seats, r[to].idx[j] # None
          PROVE  LET m == r[to].idx[j] IN r[m].use /\ r[m].mode = "CLIENT" /\ r[m].idx[0] = to
      <4>1. j # k /\ r[to].idx[j] = s[to].idx[j] /\ r[to].idx[j] # c
        BY <3>5, <1>2, <1>5 DEF Departed
      <4> DEFINE m == s[to].idx[j]
      <4>2. m \in Chars /\ s[m].use /\ s[m].mode = "CLIENT" /\ s[m].idx[0] = to
        BY <4>1, <3>5, <1>1, FieldTypes, SlotsType DEF MembersOK
      <4>3. m # c /\ m # to
        BY <4>1, <4>2, <1>1
      <4>4. r[m] = s[m]
        BY <4>2, <4>3, <1>2 DEF Departed
      <4> QED BY <4>1, <4>2, <4>4
    <3>6. MembersOK(r, to)
      BY <3>5 DEF MembersOK
    <3> QED BY <2>2, <3>4, <3>6
  <2> QED BY <2>1, <2>2
<1>10. ASSUME NEW d \in G, r[d].mode # "LEADER", NEW i \in Seats
       PROVE  r[d].idx[i] = None
  <2>1. CASE d = to
    <3>1. ~CHECKINDEX(r, r[to].idx[i])
      BY <2>1, <1>10, <1>2 DEF Departed
    <3> QED BY <2>1, <3>1, <1>7
  <2>2. CASE d = c
    BY <2>2, <1>2 DEF Departed, Agree
  <2>3. CASE d # to /\ d # c
    BY <2>3, <1>2, <1>10 DEF Departed, Agree
  <2> QED BY <2>1, <2>2, <2>3
<1>11. \A d \in G : ~r[d].wild
  BY <1>2 DEF Departed, Agree
<1>14. ASSUME NEW d \in G, r[d].mode = "NONE"
       PROVE  r[d].idx[0] \in {None, d}
  <2>1. CASE d = to
    BY <2>1, <1>6
  <2>2. CASE d = c
    BY <2>2, <1>2 DEF Departed
  <2>3. CASE d # to /\ d # c
    BY <2>3, <1>2, <1>14 DEF Departed, Agree
  <2> QED BY <2>1, <2>2, <2>3
<1>12. Agree(r, G)
  BY <1>8, <1>9, <1>10, <1>11, <1>14 DEF Agree
<1>13. \A d \in G : s[d].mode = "NONE" => r[d].mode = "NONE"
  BY <1>1, <1>2, <1>6 DEF Departed
<1> QED BY <1>6, <1>8, <1>12, <1>13 DEF Discharged

(* CHAR_DischargePartySub, whoever leaves.                                 *)
LEMMA DischargePartySubAgree ==
  ASSUME NEW s, NEW G, Sound(s, G), NEW c \in Chars
  PROVE  /\ Discharged(s, DischargePartySub(s, c), c, G)
         /\ Sound(DischargePartySub(s, c), G)
<1> DEFINE r == DischargePartySub(s, c)
<1>1. /\ Typed(r) /\ Closed(r, G) /\ G \subseteq Chars
      /\ c \notin G => \A d \in G : r[d] = s[d]
  BY DischargeSheds DEF Sound
<1>2. ASSUME c \in G, s[c].mode = "LEADER"
      PROVE  Discharged(s, r, c, G)
  BY <1>2, DisbandedAgree DEF DischargePartySub
<1>3. ASSUME c \in G, s[c].mode = "CLIENT"
      PROVE  Discharged(s, r, c, G)
  <2>1. PICK k \in Seats : Departed(s, Left(s, c), c, s[c].idx[0], k)
    BY <1>3, LeftFields
  <2>2. Discharged(s, Left(s, c), c, G)
    BY <1>3, <2>1, DepartedAgree
  <2> QED BY <1>3, <2>2 DEF DischargePartySub
<1>4. ASSUME s[c].mode = "NONE"
      PROVE  Discharged(s, r, c, G)
  <2>1. r = s
    BY <1>4 DEF DischargePartySub
  <2> HIDE DEF r
  <2> QED BY <1>4, <2>1 DEF Discharged, Sound
<1> HIDE DEF r
<1>5. ASSUME c \notin G
      PROVE  Discharged(s, r, c, G)
  <2>1. Agree(r, G)
    BY <1>1, <1>5, UnchangedAgree DEF Sound
  <2> QED BY <1>1, <1>5, <2>1 DEF Discharged
<1>6. Discharged(s, r, c, G)
  BY <1>2, <1>3, <1>4, <1>5, FieldTypes DEF Modes, Sound
<1>7. Sound(r, G)
  BY <1>1, <1>6 DEF Sound, Discharged
<1> QED BY <1>6, <1>7 DEF r

-----------------------------------------------------------------------------
(* Who of G rides in a vehicle has been let in by it.                      *)
Paid(s, f, G) ==
  \A c \in Players \intersect G, v \in Vehicles :
    f[c] = v <=> s[c].mode = "CLIENT" /\ s[c].idx[0] = v

(* No clear vehicle is led by another character, and the clear characters  *)
(* are closed off from the mixed ones.                                     *)
Inv ==
  /\ Sound(ch, Clear)
  /\ \A v \in Vehicles \intersect Clear : ch[v].mode # "CLIENT"
  /\ fare \in [Players -> Vehicles \union {None}]
  /\ mixed \subseteq Chars
  /\ Paid(ch, fare, Clear)

(* States reached from ch without anybody of G boarding a vehicle.         *)
Kept(s, G) ==
  /\ Sound(s, G)
  /\ \A v \in Vehicles \intersect G : s[v].mode # "CLIENT"
  /\ \A c \in Players \intersect G, v \in Vehicles :
       s[c].mode = "CLIENT" /\ s[c].idx[0] = v => ch[c].mode = "CLIENT" /\ ch[c].idx[0] = v

(* Players and vehicles are characters, and not the same.                  *)
LEMMA CharsType ==
  /\ Players \subseteq Chars /\ Vehicles \subseteq Chars
  /\ \A c \in Players, v \in Vehicles : c # v
  /\ None \notin Players /\ None \notin Vehicles
  BY PartyAssumption DEF Chars

(* Nothing has happened yet.                                               *)
LEMMA NowKept ==
  ASSUME Inv
  PROVE  Kept(ch, Clear)
  BY DEF Inv, Kept

(* Leaving a party lets nobody board.                                      *)
LEMMA DischargeKept ==
  ASSUME NEW s, NEW G, Kept(s, G), NEW c \in Chars
  PROVE  /\ Kept(DischargePartySub(s, c), G)
         /\ Discharged(s, DischargePartySub(s, c), c, G)
         /\ \A d \in Chars : DischargePartySub(s, c)[d].use = s[d].use
<1> DEFINE r == DischargePartySub(s, c)
<1>1. Discharged(s, r, c, G) /\ Sound(r, G) /\ \A d \in Chars : r[d].use = s[d].use
  BY DischargePartySubAgree, DischargeSheds DEF Kept
<1> HIDE DEF r
<1>2. ASSUME NEW v \in Vehicles \intersect G
      PROVE  r[v].mode # "CLIENT"
  BY <1>1 DEF Kept, Discharged
<1>3. ASSUME NEW d \in Players \intersect G, NEW v \in Vehicles,
             r[d].mode = "CLIENT", r[d].idx[0] = v
      PROVE  ch[d].mode = "CLIENT" /\ ch[d].idx[0] = v
  <2>1. s[d].mode = "CLIENT" /\ s[d].idx[0] = v
    BY <1>1, <1>3 DEF Discharged
  <2> QED BY <2>1 DEF Kept
<1>4. Kept(r, G)
  BY <1>1, <1>2, <1>3 DEF Kept
<1> QED BY <1>1, <1>4 DEF r

(* The party that c enters.                                                *)
Company(s, c, to) == {c, to} \union MembersOf(s, to)

(* Who remains in G when c has entered the party of to.                    *)
Remain(s, c, to, G) ==
  IF Room(s, to) /\ (c = to \/ ~(Company(s, c, to) \subseteq G)) THEN G \ Company(s, c, to)
  ELSE G

(* A party of characters of G is entered by one of them: nobody but they   *)
(* refer to them.                                                          *)
LEMMA CompanyClosed ==
  ASSUME NEW s, NEW G, Sound(s, G), NEW c \in Chars, NEW t \in Chars, NEW to,
         to = Chief(s, t), to \in Chars, c \in G => s[c].mode = "NONE",
         NEW d \in G, d \notin Company(s, c, to), NEW i \in Slots, s[d].idx[i] # None
  PROVE  s[d].idx[i] \in G \ Company(s, c, to)
<1> DEFINE x == s[d].idx[i]
<1>0. Typed(s) /\ Agree(s, G) /\ Closed(s, G) /\ d \in Chars
  BY DEF Sound
<1>1. x \in G /\ x \in Chars
  BY <1>0, FieldTypes DEF Closed
<1>2. d # c /\ d # to /\ \A j \in Slots : s[to].idx[j] # d
  BY <1>0, SlotsType DEF Company, MembersOf
<1>3. \/ x = d
      \/ s[d].mode = "LEADER" /\ s[x].mode = "CLIENT" /\ s[x].idx[0] = d
      \/ s[d].mode = "CLIENT" /\ s[x].mode = "LEADER" /\ \E j \in Seats : s[x].idx[j] = d
  <2>1. CASE s[d].mode = "NONE"
    BY <2>1, <1>0 DEF Agree, Seats
  <2>2. CASE s[d].mode = "LEADER"
    <3>1. FirstOK(s, d) /\ MembersOK(s, d)
      BY <2>2, <1>0 DEF Agree
    <3> QED BY <2>2, <3>1 DEF FirstOK, MembersOK, Seats
  <2>3. CASE s[d].mode = "CLIENT"
    <3>1. ClientOK(s, d) /\ \A j \in Seats : s[d].idx[j] = None
      BY <2>3, <1>0 DEF Agree
    <3>2. i = 0
      BY <3>1 DEF Seats
    <3> QED BY <2>3, <3>1, <3>2 DEF ClientOK
  <2> QED BY <1>0, <2>1, <2>2, <2>3, FieldTypes DEF Modes
<1> HIDE DEF x
<1>4. x # c
  BY <1>1, <1>2, <1>3
<1>5. ASSUME x = to
      PROVE  FALSE
  <2>1. t \in G
    BY <1>1, <1>5, ChiefClosed, SlotsType
  <2>2. s[to].mode \in {"NONE", "LEADER"}
    BY <2>1, ChiefLeads
  <2> QED BY <1>2, <1>3, <1>5, <2>2 DEF Seats
<1>6. ASSUME NEW j \in Slots, x = s[to].idx[j]
      PROVE  FALSE
  <2>1. to \in G
    BY <1>0, <1>1, <1>6, SlotsType DEF Closed
  <2>2. t \in G
    BY <2>1, ChiefClosed, SlotsType
  <2>3. s[to].mode \in {"NONE", "LEADER"}
    BY <2>2, ChiefLeads
  <2>4. x # None
    BY <1>1, SlotsType
  <2>5. CASE s[to].mode = "NONE"
    BY <1>0, <2>1, <2>4, <2>5, <1>5, <1>6 DEF Agree, Seats
  <2>6. CASE s[to].mode = "LEADER"
    <3>1. FirstOK(s, to) /\ MembersOK(s, to)
      BY <1>0, <2>1, <2>6 DEF Agree
    <3>2. x = to \/ (s[x].mode = "CLIENT" /\ s[x].idx[0] = to)
      BY <3>1, <2>4, <1>6 DEF FirstOK, MembersOK, Seats
    <3> QED BY <3>2, <1>2, <1>3, <1>5, <1>6
  <2> QED BY <2>3, <2>5, <2>6
<1> QED BY <1>1, <1>4, <1>5, <1>6 DEF Company, MembersOf, x

(* When a mixed party is entered, those who remain are as before.          *)
LEMMA EnteredMixed ==
  ASSUME NEW s, NEW r, NEW G, NEW H, Sound(s, G), NEW c \in Chars, NEW t \in Chars, NEW to,
         to = Chief(s, t), to \in Chars, c \in G => s[c].mode = "NONE",
         Entered(s, r, c, to), H = G \ Company(s, c, to)
  PROVE  Sound(r, H) /\ \A d \in H : r[d] = s[d]
<1>0. Typed(s) /\ Agree(s, G) /\ Closed(s, G) /\ H \subseteq G /\ G \subseteq Chars
  BY DEF Sound
<1>1. ASSUME NEW d \in H
      PROVE  d \in Chars /\ d \in G /\ d # c /\ d # to /\ r[d] = s[d]
  BY <1>0 DEF Entered, Company
<1>2. c \notin H /\ to \notin H /\ \A j \in Slots : s[to].idx[j] \notin H
  BY <1>0, SlotsType DEF Company, MembersOf
<1>3. ASSUME NEW d \in Chars, NEW i \in Slots, r[d].idx[i] # None
      PROVE  d \in H <=> r[d].idx[i] \in H
  <2> DEFINE y == r[d].idx[i]
  <2>1. CASE d \in H
    BY <2>1, <1>1, <1>3, CompanyClosed
  <2>2. CASE d = to
    <3>1. y \in {s[to].idx[i], c, to}
      BY <2>2 DEF Entered
    <3> QED BY <2>2, <3>1, <1>2
  <2>3. CASE d = c
    <3>1. y \in {s[c].idx[i], c, to} /\ r[c].idx[0] = to
      BY <2>3 DEF Entered
    <3>2. CASE c \notin G
      BY <2>3, <3>1, <3>2, <1>0, <1>2, <1>3 DEF Closed
    <3>3. CASE c \in G
      <4>1. i # 0 => s[c].idx[i] = None
        BY <3>3, <1>0 DEF Agree, Seats
      <4>2. y \in {c, to}
        BY <2>3, <3>1, <4>1, <1>3
      <4> QED BY <2>3, <4>2, <1>2
    <3> QED BY <3>2, <3>3
  <2>4. CASE d \notin H /\ d # to /\ d # c
    <3>1. y = s[d].idx[i] /\ y # None
      BY <2>4, <1>3 DEF Entered
    <3>2. CASE d \notin G
      BY <2>4, <3>1, <3>2, <1>0 DEF Closed
    <3>3. CASE d \in G
      <4>1. PICK j \in Slots : s[to].idx[j] = d
        BY <2>4, <3>3 DEF Company, MembersOf
      <4>2. to \in G
        BY <3>3, <4>1, <1>0, SlotsType DEF Closed
      <4>3. s[to].mode \in {"NONE", "LEADER"}
        <5>1. t \in G
          BY <4>2, ChiefClosed, SlotsType
        <5> QED BY <5>1, ChiefLeads
      <4>4. s[to].mode = "LEADER" /\ j \in Seats
        BY <2>4, <4>1, <4>2, <4>3, <1>0, SlotsType DEF Agree, FirstOK, Seats
      <4>5. s[d].mode = "CLIENT" /\ s[d].idx[0] = to
        BY <4>1, <4>2, <4>4, <1>0, SlotsType DEF Agree, MembersOK
      <4>6. y = to
        BY <3>1, <3>3, <4>5, <1>0 DEF Agree, Seats
      <4> QED BY <2>4, <4>6, <1>2
    <3> QED BY <3>2, <3>3
  <2> QED BY <2>1, <2>2, <2>3, <2>4
<1>4. Closed(r, H)
  BY <1>3 DEF Closed
<1>5. Agree(r, H)
  BY <1>0, <1>1, <1>4, UnchangedAgree
<1> QED BY <1>0, <1>1, <1>4, <1>5 DEF Sound, Entered

(* Nobody of those who remain boards a vehicle by joining a party, unless  *)
(* a vehicle leads it.                                                     *)
LEMMA JoinKept ==
  ASSUME NEW s, NEW G, Kept(s, G), NEW c \in Players, NEW t \in Chars,
         c \in G => s[c].mode = "NONE" /\ s[c].use,
         c \in G /\ t \in G => Chief(s, t) \notin Vehicles
  PROVE  Kept(JoinParty_Main(s, c, t), Remain(s, c, Chief(s, t), G))
<1> DEFINE r == JoinParty_Main(s, c, t)
           to == Chief(s, t)
           H == Remain(s, c, to, G)
<1>0. c \in Chars /\ Sound(s, G) /\ Typed(s) /\ Agree(s, G) /\ Closed(s, G) /\ G \subseteq Chars
  BY CharsType DEF Kept, Sound
<1>1. to \in Chars \union {None} /\ to = Chief(s, t)
  BY <1>0, ChiefClosed
<1>9. c \in G /\ t \in G => to \notin Vehicles
  OBVIOUS
<1> HIDE DEF to
<1>2. IF Room(s, to) THEN to \in Chars /\ Entered(s, r, c, to) ELSE r = s
  BY <1>0, <1>1, JoinParty_MainEnters
<1>3. CASE ~Room(s, to)
  <2>1. r = s /\ H = G
    BY <1>2, <1>3 DEF Remain
  <2> HIDE DEF r, H
  <2> QED BY <2>1, <1>1 DEF r, H
<1>4. CASE Room(s, to) /\ (c = to \/ ~(Company(s, c, to) \subseteq G))
  <2>1. H = G \ Company(s, c, to)
    BY <1>4 DEF Remain
  <2> HIDE DEF r, H
  <2>2. Sound(r, H) /\ \A d \in H : r[d] = s[d]
    BY <1>0, <1>1, <1>2, <1>4, <2>1, EnteredMixed
  <2>3. H \subseteq G
    BY <2>1
  <2>4. Kept(r, H)
    BY <2>2, <2>3 DEF Kept
  <2> QED BY <2>4, <1>1 DEF r, H
<1>5. CASE Room(s, to) /\ c # to /\ Company(s, c, to) \subseteq G
  <2>1. H = G /\ c \in G /\ to \in G
    BY <1>5 DEF Remain, Company
  <2>2. t \in G
    BY <2>1, <1>0, <1>1, ChiefClosed, SlotsType
  <2>3. PICK k \in Seats : Joined(s, r, c, to, k)
    BY <2>1, <2>2, <1>0, <1>1, <1>5, JoinParty_MainFields
  <2> HIDE DEF r, H
  <2>4. Agree(r, G)
    BY <2>1, <2>3, <1>0, JoinedAgree
  <2>5. ASSUME NEW d \in Chars, NEW i \in Slots, r[d].idx[i] # None
        PROVE  d \in G <=> r[d].idx[i] \in G
    <3>1. CASE d \in {c, to}
      BY <3>1, <2>1, <2>5, <1>0, <1>2, <1>5 DEF Entered, Closed
    <3>2. CASE d \notin {c, to}
      BY <3>2, <2>5, <1>0, <1>2, <1>5 DEF Entered, Closed
    <3> QED BY <3>1, <3>2
  <2>6. Sound(r, G)
    BY <2>3, <2>4, <2>5, <1>0 DEF Sound, Closed, Joined
  <2>7. to \notin Vehicles
    BY <2>1, <2>2, <1>9
  <2>8. ASSUME NEW v \in Vehicles \intersect G
        PROVE  r[v].mode # "CLIENT"
    <3>1. v # c /\ v # to /\ v \in Chars
      BY <2>7, CharsType
    <3>2. r[v] = s[v]
      BY <2>3, <3>1 DEF Joined
    <3> QED BY <3>2 DEF Kept
  <2>9. ASSUME NEW d \in Players \intersect G, NEW v \in Vehicles,
               r[d].mode = "CLIENT", r[d].idx[0] = v
        PROVE  ch[d].mode = "CLIENT" /\ ch[d].idx[0] = v
    <3>1. d # c /\ d # to
      BY <2>3, <2>7, <2>9 DEF Joined
    <3>2. r[d] = s[d]
      BY <2>3, <3>1, CharsType DEF Joined
    <3> QED BY <2>9, <3>2 DEF Kept
  <2>10. Kept(r, G)
    BY <2>6, <2>8, <2>9 DEF Kept
  <2> QED BY <2>1, <2>10, <1>1 DEF r, H
<1> QED BY <1>3, <1>4, <1>5

(* The characters become s, and nobody clear has boarded.                  *)
LEMMA BecomesInv ==
  ASSUME Inv, NEW s, Kept(s, Clear'), Becomes(s),
         mixed \subseteq mixed', mixed' \subseteq Chars
  PROVE  Inv'
<1>1. ch' = s /\ Clear' \subseteq Clear
  BY DEF Becomes, Clear
<1>2. \A c \in Players : fare'[c] = IF s[c].mode = "CLIENT" /\ s[c].idx[0] = fare[c]
                                    THEN fare[c] ELSE None
  BY DEF Becomes
<1>3. fare' \in [Players -> Vehicles \union {None}]
  BY DEF Becomes, Inv
<1>4. Paid(ch', fare', Clear')
  <2> SUFFICES ASSUME NEW c \in Players \intersect Clear', NEW v \in Vehicles
               PROVE  fare'[c] = v <=> s[c].mode = "CLIENT" /\ s[c].idx[0] = v
    BY <1>1 DEF Paid
  <2>1. v # None
    BY CharsType
  <2>2. ch[c].mode = "CLIENT" /\ ch[c].idx[0] = v => fare[c] = v
    BY <1>1 DEF Inv, Paid
  <2>3. s[c].mode = "CLIENT" /\ s[c].idx[0] = v => fare[c] = v
    BY <2>2 DEF Kept
  <2> QED BY <2>1, <2>3, <1>2
<1> QED BY <1>1, <1>3, <1>4 DEF Inv, Kept

(* The ghost of the mixed characters keeps those who remain clear.         *)
LEMMA MeetsRemain ==
  ASSUME Inv, NEW s, Typed(s), NEW c \in Chars, NEW to, to \in Chars \union {None},
         Meets(s, c, to)
  PROVE  /\ Clear' = Remain(s, c, to, Clear)
         /\ mixed \subseteq mixed' /\ mixed' \subseteq Chars
<1> DEFINE party == IF Room(s, to) THEN {c, to} \union MembersOf(s, to) ELSE {}
<1>1. mixed' = IF c = to \/ party \intersect mixed # {} THEN mixed \union party ELSE mixed
  BY DEF Meets
<1>2. mixed \subseteq Chars
  BY DEF Inv
<1>3. CASE ~Room(s, to)
  <2>1. mixed' = mixed
    BY <1>1, <1>3
  <2> QED BY <1>2, <1>3, <2>1 DEF Remain, Clear
<1>4. CASE Room(s, to)
  <2>1. party = Company(s, c, to)
    BY <1>4 DEF Company
  <2>2. party \subseteq Chars
    <3>1. to \in Chars
      BY <1>4 DEF Room, CHECKINDEX
    <3>2. MembersOf(s, to) \subseteq Chars
      BY <3>1, FieldTypes DEF MembersOf
    <3> QED BY <3>1, <3>2
  <2>3. party \intersect mixed # {} <=> ~(party \subseteq Clear)
    BY <2>2 DEF Clear
  <2> HIDE DEF party
  <2> QED BY <1>1, <1>2, <1>4, <2>1, <2>2, <2>3 DEF Remain, Clear
<1> QED BY <1>3, <1>4

(* A character's record is replaced by one that refers to nobody new: who  *)
(* is clear is in no party, before and afterwards.                         *)
LEMMA ReplacedKept ==
  ASSUME NEW s, NEW G, Kept(s, G), NEW c \in Players, NEW u \in Character,
         \A i \in Slots : u.idx[i] \in {None, s[c].idx[i]},
         c \in G => s[c].mode = "NONE" /\ u.mode = "NONE" /\ ~u.wild
  PROVE  Kept([s EXCEPT ![c] = u], G)
<1> DEFINE r == [s EXCEPT ![c] = u]
<1>0. c \in Chars /\ Typed(s) /\ Agree(s, G) /\ Closed(s, G) /\ G \subseteq Chars
  BY CharsType DEF Kept, Sound
<1>1. /\ Typed(r) /\ r[c] = u
      /\ \A d \in Chars : d # c => r[d] = s[d]
  BY <1>0, RecordChanged
<1> HIDE DEF r
<1>2. Closed(r, G)
  <2>1. ASSUME NEW d \in Chars, NEW i \in Slots, r[d].idx[i] # None
        PROVE  d \in G <=> r[d].idx[i] \in G
    <3>1. r[d].idx[i] = s[d].idx[i]
      BY <2>1, <1>1
    <3> QED BY <2>1, <3>1, <1>0 DEF Closed
  <2> QED BY <2>1 DEF Closed
<1>3. ASSUME c \notin G
      PROVE  Agree(r, G)
  <2>1. \A d \in G : r[d] = s[d]
    BY <1>0, <1>1, <1>3
  <2> QED BY <1>0, <1>2, <2>1, UnchangedAgree
<1>4. ASSUME c \in G
      PROVE  Agree(r, G)
  <2>0. /\ s[c].mode = "NONE" /\ u.mode = "NONE" /\ ~u.wild
        /\ u.idx[0] \in {None, c} /\ \A i \in Seats : u.idx[i] = None
    BY <1>0, <1>4, SlotsType DEF Agree
  <2>1. ASSUME NEW d \in G, r[d].mode = "CLIENT"
        PROVE  ClientOK(r, d)
    <3>1. d # c /\ r[d] = s[d]
      BY <1>0, <1>1, <2>0, <2>1
    <3>2. ClientOK(s, d)
      BY <1>0, <3>1, <2>1 DEF Agree
    <3>3. s[d].idx[0] \in Chars /\ s[d].idx[0] # c
      BY <3>2, <2>0 DEF ClientOK
    <3> QED BY <3>1, <3>2, <3>3, <1>1 DEF ClientOK
  <2>2. ASSUME NEW d \in G, r[d].mode = "LEADER"
        PROVE  FirstOK(r, d) /\ MembersOK(r, d)
    <3>1. d # c /\ r[d] = s[d]
      BY <1>0, <1>1, <2>0, <2>2
    <3>2. FirstOK(s, d) /\ MembersOK(s, d)
      BY <1>0, <3>1, <2>2 DEF Agree
    <3>3. ASSUME NEW i \in Seats, s[d].idx[i] # None
          PROVE  r[s[d].idx[i]] = s[s[d].idx[i]]
      <4>1. s[d].idx[i] \in Chars
        BY <1>0, <3>3, FieldTypes, SlotsType
      <4>2. s[d].idx[i] # c
        BY <3>2, <3>3, <2>0 DEF MembersOK
      <4> QED BY <4>1, <4>2, <1>1
    <3>4. MembersOK(r, d)
      BY <3>1, <3>2, <3>3 DEF MembersOK
    <3> QED BY <3>1, <3>2, <3>4 DEF FirstOK
  <2>3. ASSUME NEW d \in G
        PROVE  /\ r[d].mode # "LEADER" => \A i \in Seats : r[d].idx[i] = None
               /\ r[d].mode = "NONE" => r[d].idx[0] \in {None, d}
               /\ ~r[d].wild
    <3>1. CASE d = c
      BY <3>1, <1>1, <2>0
    <3>2. CASE d # c
      BY <3>2, <1>0, <1>1 DEF Agree
    <3> QED BY <3>1, <3>2
  <2> QED BY <2>1, <2>2, <2>3 DEF Agree
<1>5. Sound(r, G)
  BY <1>0, <1>1, <1>2, <1>3, <1>4 DEF Sound
<1>6. ASSUME NEW v \in Vehicles \intersect G
      PROVE  r[v].mode # "CLIENT"
  BY <1>1, CharsType DEF Kept
<1>7. ASSUME NEW d \in Players \intersect G, NEW v \in Vehicles,
             r[d].mode = "CLIENT", r[d].idx[0] = v
      PROVE  ch[d].mode = "CLIENT" /\ ch[d].idx[0] = v
  <2>1. d # c
    BY <1>1, <1>7
  <2>2. r[d] = s[d]
    BY <2>1, <1>1, CharsType
  <2> QED BY <1>7, <2>2 DEF Kept
<1>8. Kept(r, G)
  BY <1>5, <1>6, <1>7 DEF Kept
<1> QED BY <1>8 DEF r

(* Nobody has got mixed.                                                   *)
LEMMA ClearUnchanged ==
  ASSUME Inv, UNCHANGED mixed
  PROVE  Clear' = Clear /\ mixed \subseteq mixed' /\ mixed' \subseteq Chars
  BY DEF Inv, Clear

(* Somebody logs in, as a character that is in no party.                   *)
LEMMA LoginStep ==
  ASSUME Inv, NEW c \in Players, Login(c)
  PROVE  Inv'
<1> DEFINE u == Fresh(TRUE)
           s == [ch EXCEPT ![c] = u]
<1>1. /\ u \in Character /\ u.mode = "NONE" /\ ~u.wild
      /\ \A i \in Slots : u.idx[i] = None
  BY SlotsType DEF Fresh, Character, Modes
<1>2. c \in Clear => ch[c].mode = "NONE"
  <2>1. c \in Chars /\ ~ch[c].use
    BY CharsType DEF Login
  <2> QED BY <2>1, FieldTypes DEF Inv, Sound, Agree, ClientOK, FirstOK, Modes
<1>3. Becomes(s) /\ UNCHANGED mixed
  BY DEF Login
<1> HIDE DEF u
<1>4. Kept(s, Clear)
  BY <1>1, <1>2, NowKept, ReplacedKept
<1> HIDE DEF s
<1> QED BY <1>3, <1>4, ClearUnchanged, BecomesInv

(* Who logs out has left its party before.                                 *)
LEMMA LogoutStep ==
  ASSUME Inv, NEW c \in Players, Logout(c)
  PROVE  Inv'
<1> DEFINE s == DischargePartySub(ch, c)
           u == [s[c] EXCEPT !.use = FALSE]
           r == [s EXCEPT ![c] = u]
<1>1. Becomes(r) /\ UNCHANGED mixed
  BY DEF Logout
<1>2. c \in Chars
  BY CharsType
<1>3. Kept(s, Clear) /\ Discharged(ch, s, c, Clear)
  BY <1>2, NowKept, DischargeKept
<1> HIDE DEF s
<1>4. s[c] \in Character /\ (c \in Clear => s[c].mode = "NONE" /\ ~s[c].wild)
  BY <1>2, <1>3, FieldTypes DEF Discharged, Agree, Kept, Sound
<1>5. u \in Character /\ u.mode = s[c].mode /\ u.wild = s[c].wild /\ u.idx = s[c].idx
  BY <1>4 DEF Character
<1> HIDE DEF u
<1>6. Kept(r, Clear)
  BY <1>3, <1>4, <1>5, ReplacedKept
<1> HIDE DEF r
<1> QED BY <1>1, <1>6, ClearUnchanged, BecomesInv

(* One joins the party of another, from a state s nobody boarded in.       *)
LEMMA JoinInv ==
  ASSUME Inv, NEW s, Kept(s, Clear), NEW c \in Players, NEW t \in Chars,
         c \in Clear => s[c].mode = "NONE" /\ s[c].use,
         c \in Clear /\ t \in Clear => Chief(s, t) \notin Vehicles,
         Becomes(JoinParty_Main(s, c, t)), Meets(s, c, Chief(s, t))
  PROVE  Inv'
<1>1. c \in Chars /\ Typed(s) /\ Chief(s, t) \in Chars \union {None}
  BY CharsType, ChiefClosed DEF Kept, Sound
<1>2. /\ Clear' = Remain(s, c, Chief(s, t), Clear)
      /\ mixed \subseteq mixed' /\ mixed' \subseteq Chars
  BY <1>1, MeetsRemain
<1>3. Kept(JoinParty_Main(s, c, t), Clear')
  BY <1>2, JoinKept
<1> QED BY <1>2, <1>3, BecomesInv

(* The party of the player found is joined.                                *)
LEMMA JoinPartyStep ==
  ASSUME Inv, NEW c \in Players, JoinParty(c)
  PROVE  Inv'
<1>1. PICK t \in Joinable(c) : /\ Becomes(JoinParty_Main(ch, c, t))
                               /\ Meets(ch, c, Chief(ch, t))
  BY DEF JoinParty
<1>2. /\ t \in Players /\ t \in Chars /\ ch[c].use /\ ch[c].mode = "NONE"
      /\ ch[t].mode = "CLIENT" => ch[t].idx[0] \notin Vehicles
  BY CharsType DEF Joinable, JoinParty
<1>3. Chief(ch, t) \notin Vehicles \/ t \notin Clear
  BY <1>2, CharsType, ChiefLeads DEF Inv
<1> QED BY <1>1, <1>2, <1>3, NowKept, JoinInv

(* The window is answered, by naming anybody.                              *)
LEMMA WindowResultStep ==
  ASSUME Inv, NEW c \in Players, JoinParty_WindowResult(c)
  PROVE  Inv'
<1>1. PICK t \in Chars : /\ CHECKINDEX(ch, t) /\ Answerable(c, Chief(ch, t))
                         /\ Becomes(JoinParty_Main(ch, c, Chief(ch, t)))
                         /\ Meets(ch, c, Chief(ch, Chief(ch, t)))
  BY DEF JoinParty_WindowResult
<1> DEFINE to == Chief(ch, t)
<1>2. to \in Chars /\ (t \in Clear <=> to \in Clear)
  BY <1>1, ChiefClosed, SlotsType DEF Inv, Answerable, Room, CHECKINDEX
<1>3. ch[c].use /\ ch[c].mode = "NONE" /\ to \notin Vehicles
  BY <1>1 DEF JoinParty_WindowResult, Answerable
<1>4. to \in Clear => Chief(ch, to) = to
  BY <1>2, ChiefLeads DEF Inv
<1> QED BY <1>1, <1>2, <1>3, <1>4, NowKept, JoinInv

(* Somebody leaves its party.                                              *)
LEMMA DischargePartyStep ==
  ASSUME Inv, NEW c \in Chars, DischargeParty(c)
  PROVE  Inv'
<1>1. Kept(DischargePartySub(ch, c), Clear)
  BY NowKept, DischargeKept
<1> QED BY <1>1, ClearUnchanged, BecomesInv DEF DischargeParty

(* Two leave their parties and form one.                                   *)
LEMMA PairStep ==
  ASSUME Inv, NEW t \in Players, NEW f \in Players, PairUserAndWarp(t, f)
  PROVE  Inv'
<1> DEFINE s1 == DischargePartySub(ch, t)
           s2 == DischargePartySub(s1, f)
<1>1. /\ ch[t].use /\ Becomes(JoinParty_Main(s2, t, f)) /\ Meets(s2, t, Chief(s2, f))
  BY DEF PairUserAndWarp
<1>2. t \in Chars /\ f \in Chars /\ f \notin Vehicles
  BY CharsType
<1>3. Kept(s1, Clear) /\ Discharged(ch, s1, t, Clear) /\ s1[t].use = ch[t].use
  BY <1>2, NowKept, DischargeKept
<1> HIDE DEF s1
<1>4. Kept(s2, Clear) /\ Discharged(s1, s2, f, Clear) /\ s2[t].use = s1[t].use
  BY <1>2, <1>3, DischargeKept
<1> HIDE DEF s2
<1>5. /\ t \in Clear => s2[t].mode = "NONE" /\ s2[t].use
      /\ f \in Clear => s2[f].mode = "NONE"
  BY <1>1, <1>3, <1>4 DEF Discharged
<1>6. f \in Clear => Chief(s2, f) \notin Vehicles
  BY <1>2, <1>5 DEF Chief
<1> QED BY <1>1, <1>2, <1>4, <1>5, <1>6, JoinInv

(* A vehicle that lets somebody board carries it afterwards.               *)
LEMMA BoardStep ==
  ASSUME Inv, NEW c \in Players, NEW v \in Vehicles, Board(c, v)
  PROVE  Inv'
<1> DEFINE to == Chief(ch, v)
<1>1. /\ ch[c].use /\ ch[c].mode = "NONE"
      /\ ch' = JoinParty_Main(ch, c, v)
      /\ fare' = [fare EXCEPT ![c] = IF Room(ch, to) THEN v ELSE None]
      /\ Meets(ch, c, to)
  BY DEF Board
<1>2. /\ c \in Chars /\ v \in Chars /\ c # v /\ v # None
      /\ Sound(ch, Clear) /\ Typed(ch) /\ Closed(ch, Clear) /\ Clear \subseteq Chars
  BY CharsType DEF Inv, Sound
<1>3. to \in Chars \union {None} /\ to = Chief(ch, v)
  BY <1>2, ChiefClosed
<1>4. v \in Clear => to = v
  <2>1. v \in Clear => ch[v].mode # "CLIENT"
    BY DEF Inv
  <2> QED BY <1>2, <2>1, ChiefLeads
<1>5. to # None => (v \in Clear <=> to \in Clear)
  BY <1>2, ChiefClosed
<1> HIDE DEF to
<1>6. Clear' = Remain(ch, c, to, Clear) /\ mixed' \subseteq Chars /\ Clear' \subseteq Clear
  BY <1>1, <1>2, <1>3, MeetsRemain DEF Clear
<1>7. /\ fare' \in [Players -> Vehicles \union {None}]
      /\ fare'[c] = IF Room(ch, to) THEN v ELSE None
      /\ \A d \in Players : d # c => fare'[d] = fare[d]
  BY <1>1 DEF Inv
<1>8. IF Room(ch, to) THEN to \in Chars /\ Entered(ch, ch', c, to) ELSE ch' = ch
  BY <1>1, <1>2, <1>3, JoinParty_MainEnters
<1>9. CASE ~Room(ch, to)
  <2>1. ch' = ch /\ Clear' = Clear
    BY <1>6, <1>8, <1>9 DEF Remain
  <2>2. ASSUME NEW d \in Players \intersect Clear, NEW w \in Vehicles
        PROVE  fare'[d] = w <=> ch'[d].mode = "CLIENT" /\ ch'[d].idx[0] = w
    <3>1. CASE d = c
      BY <3>1, <1>1, <1>7, <1>9, <2>1, CharsType
    <3>2. CASE d # c
      BY <3>2, <1>7, <2>1 DEF Inv, Paid
    <3> QED BY <3>1, <3>2
  <2>3. Paid(ch', fare', Clear')
    BY <2>1, <2>2 DEF Paid
  <2> QED BY <1>6, <1>7, <2>1, <2>3 DEF Inv
<1>10. CASE Room(ch, to) /\ (c = to \/ ~(Company(ch, c, to) \subseteq Clear))
  <2>1. Clear' = Clear \ Company(ch, c, to)
    BY <1>6, <1>10 DEF Remain
  <2>2. Sound(ch', Clear') /\ \A d \in Clear' : ch'[d] = ch[d]
    <3>1. PICK r, H : r = ch' /\ H = Clear'
      OBVIOUS
    <3>2. to \in Chars /\ Entered(ch, r, c, to) /\ H = Clear \ Company(ch, c, to)
      BY <1>8, <1>10, <2>1, <3>1
    <3>3. Sound(r, H) /\ \A d \in H : r[d] = ch[d]
      BY <1>1, <1>2, <1>3, <3>2, EnteredMixed
    <3> QED BY <3>1, <3>3
  <2>3. c \notin Clear'
    BY <2>1 DEF Company
  <2>4. Paid(ch', fare', Clear')
    BY <1>6, <1>7, <2>2, <2>3 DEF Inv, Paid
  <2>5. \A w \in Vehicles \intersect Clear' : ch'[w].mode # "CLIENT"
    BY <1>6, <2>2 DEF Inv
  <2> QED BY <1>6, <1>7, <2>2, <2>4, <2>5 DEF Inv
<1>11. CASE Room(ch, to) /\ c # to /\ Company(ch, c, to) \subseteq Clear
  <2>1. Clear' = Clear /\ c \in Clear /\ to \in Clear
    BY <1>6, <1>11 DEF Remain, Company
  <2>2. v \in Clear /\ to = v
    BY <1>2, <1>4, <1>5, <1>8, <1>11, <2>1, SlotsType
  <2>3. PICK k \in Seats : Joined(ch, ch', c, v, k)
    BY <1>1, <1>2, <1>3, <1>11, <2>1, <2>2, JoinParty_MainFields
  <2>4. Agree(ch', Clear)
    BY <1>1, <1>2, <2>1, <2>2, <2>3, JoinedAgree
  <2>5. ASSUME NEW d \in Chars, NEW i \in Slots, ch'[d].idx[i] # None
        PROVE  d \in Clear <=> ch'[d].idx[i] \in Clear
    BY <1>2, <1>8, <1>11, <2>1, <2>5 DEF Entered, Closed
  <2>6. Sound(ch', Clear)
    BY <1>2, <2>3, <2>4, <2>5 DEF Sound, Closed, Joined
  <2>7. \A w \in Vehicles \intersect Clear : ch'[w].mode # "CLIENT"
    BY <2>3, CharsType DEF Joined, Inv
  <2>8. ASSUME NEW d \in Players \intersect Clear, NEW w \in Vehicles
        PROVE  fare'[d] = w <=> ch'[d].mode = "CLIENT" /\ ch'[d].idx[0] = w
    <3>1. CASE d = c
      BY <3>1, <1>7, <1>11, <2>3 DEF Joined
    <3>2. CASE d # c
      <4>1. ch'[d] = ch[d]
        BY <3>2, <2>3, CharsType DEF Joined
      <4> QED BY <3>2, <4>1, <1>7 DEF Inv, Paid
    <3> QED BY <3>1, <3>2
  <2>9. Paid(ch', fare', Clear')
    BY <2>1, <2>8 DEF Paid
  <2> QED BY <1>6, <1>7, <2>1, <2>6, <2>7, <2>9 DEF Inv
<1> QED BY <1>9, <1>10, <1>11

(* A leader walks.  No member of a clear one is missing, so nobody is      *)
(* dropped; whom a mixed one drops, no clear character knows.              *)
LEMMA WalkcallStep ==
  ASSUME Inv, NEW l \in Players, Walkcall(l)
  PROVE  Inv'
<1> DEFINE kept == [i \in Slots |-> IF i = 0 \/ CHECKINDEX(ch, ch[l].idx[i])
                                    THEN ch[l].idx[i] ELSE None]
           u == [ch[l] EXCEPT !.idx = kept]
<1>1. /\ l \in Chars /\ Sound(ch, Clear) /\ Typed(ch) /\ Agree(ch, Clear) /\ Closed(ch, Clear)
      /\ Clear \subseteq Chars /\ ch[l].mode = "LEADER"
  BY CharsType DEF Inv, Sound, Walkcall
<1>2. ch[l] \in Character /\ ch[l].idx \in [Slots -> Chars \union {None}]
  BY <1>1, FieldTypes
<1>3. \A i \in Slots : kept[i] \in {None, ch[l].idx[i]}
  OBVIOUS
<1>4. kept \in [Slots -> Chars \union {None}]
  BY <1>2
<1>5. ch' = [ch EXCEPT ![l] = u] /\ UNCHANGED <<fare, mixed>> /\ Clear' = Clear
  BY DEF Walkcall, Clear
<1>6. l \in Clear => kept = ch[l].idx
  <2> SUFFICES ASSUME l \in Clear PROVE kept = ch[l].idx
    OBVIOUS
  <2>1. MembersOK(ch, l)
    BY <1>1 DEF Agree
  <2>2. ASSUME NEW i \in Slots PROVE kept[i] = ch[l].idx[i]
    BY <2>1 DEF CHECKINDEX, MembersOK, Seats
  <2> HIDE DEF kept
  <2>3. kept = [i \in Slots |-> kept[i]] /\ ch[l].idx = [i \in Slots |-> ch[l].idx[i]]
    BY <1>2, <1>4
  <2> QED BY <2>2, <2>3
<1> HIDE DEF kept
<1>7. u \in Character /\ u.idx = kept /\ (kept = ch[l].idx => u = ch[l])
  BY <1>2, <1>4 DEF Character
<1> HIDE DEF u
<1>8. /\ Typed(ch') /\ ch'[l] = u
      /\ \A d \in Chars : d # l => ch'[d] = ch[d]
  <2>1. Typed(ch) /\ l \in Chars /\ u \in Character
    BY <1>1, <1>7
  <2>2. /\ Typed([ch EXCEPT ![l] = u]) /\ [ch EXCEPT ![l] = u][l] = u
        /\ \A d \in Chars : d # l => [ch EXCEPT ![l] = u][d] = ch[d]
    BY <2>1, RecordChanged
  <2> QED BY <1>5, <2>2
<1>9. \A d \in Clear : ch'[d] = ch[d]
  BY <1>1, <1>6, <1>7, <1>8
<1>10. Closed(ch', Clear)
  <2>1. ASSUME NEW d \in Chars, NEW i \in Slots, ch'[d].idx[i] # None
        PROVE  ch'[d].idx[i] = ch[d].idx[i]
    BY <1>3, <1>7, <1>8, <2>1
  <2> QED BY <2>1, <1>1 DEF Closed
<1>11. Agree(ch', Clear)
  BY <1>1, <1>9, <1>10, UnchangedAgree
<1>12. Paid(ch', fare', Clear)
  BY <1>5, <1>9 DEF Inv, Paid
<1>13. \A v \in Vehicles \intersect Clear : ch'[v].mode # "CLIENT"
  BY <1>9 DEF Inv
<1> QED BY <1>1, <1>5, <1>8, <1>10, <1>11, <1>12, <1>13 DEF Inv, Sound

-----------------------------------------------------------------------------
(* At the start nobody is in a party.                                      *)
LEMMA InitInv == Init => Inv
<1> SUFFICES ASSUME Init PROVE Inv
  OBVIOUS
<1>1. ch = [c \in Chars |-> Fresh(c \in Vehicles)]
  BY DEF Init
<1>2. ASSUME NEW c \in Chars
      PROVE  /\ ch[c] \in Character
             /\ ch[c].mode = "NONE" /\ ~ch[c].wild
             /\ \A i \in Slots : ch[c].idx[i] = None
  <2>1. CASE c \in Vehicles
    <3>1. ch[c] = Fresh(TRUE)
      BY <1>1, <2>1
    <3> QED BY <3>1, SlotsType DEF Fresh, Character, Modes
  <2>2. CASE c \notin Vehicles
    <3>1. (c \in Vehicles) = FALSE
      BY <2>2
    <3>2. ch[c] = Fresh(c \in Vehicles)
      BY <1>1
    <3>3. ch[c] = Fresh(FALSE)
      BY <3>1, <3>2, Zenon
    <3> QED BY <3>3, SlotsType DEF Fresh, Character, Modes
  <2> QED BY <2>1, <2>2
<1>3. Typed(ch) /\ \A c \in Chars : ch[c].mode = "NONE" /\ ~ch[c].wild
                                   /\ \A i \in Slots : ch[c].idx[i] = None
  BY <1>1, <1>2 DEF Typed
<1>4. Clear \subseteq Chars /\ mixed \subseteq Chars
  BY DEF Init, Clear
<1>5. Agree(ch, Clear) /\ Closed(ch, Clear)
  BY <1>3, <1>4, SlotsType DEF Agree, Closed
<1>6. /\ fare \in [Players -> Vehicles \union {None}] /\ Paid(ch, fare, Clear)
      /\ \A v \in Vehicles \intersect Clear : ch[v].mode # "CLIENT"
  BY <1>3, <1>4, CharsType DEF Init, Paid
<1> QED BY <1>3, <1>4, <1>5, <1>6 DEF Inv, Sound

(* The invariant holds throughout.                                         *)
LEMMA PartyInv == Spec => []Inv
<1>1. Inv /\ [Next]_vars => Inv'
  <2> SUFFICES ASSUME Inv, [Next]_vars PROVE Inv'
    OBVIOUS
  <2>1. CASE UNCHANGED vars
    BY <2>1 DEF vars, Inv, Clear
  <2>2. CASE \E c \in Players : Login(c)
    BY <2>2, LoginStep
  <2>3. CASE \E c \in Players : Logout(c)
    BY <2>3, LogoutStep
  <2>4. CASE \E c \in Players : JoinParty(c)
    BY <2>4, JoinPartyStep
  <2>5. CASE \E c \in Players : JoinParty_WindowResult(c)
    BY <2>5, WindowResultStep
  <2>6. CASE \E c \in Players : Walkcall(c)
    BY <2>6, WalkcallStep
  <2>7. CASE \E c \in Players, v \in Vehicles : Board(c, v)
    BY <2>7, BoardStep
  <2>8. CASE \E c, f \in Players : PairUserAndWarp(c, f)
    BY <2>8, PairStep
  <2>9. CASE \E c \in Chars : DischargeParty(c)
    BY <2>9, DischargePartyStep
  <2> QED BY <2>1, <2>2, <2>3, <2>4, <2>5, <2>6, <2>7, <2>8, <2>9 DEF Next
<1> QED BY InitInv, <1>1, PTL DEF Spec

(* Every variable keeps its type.                                          *)
THEOREM PartyTypeOK == Spec => []TypeOK
<1>1. Inv => TypeOK
  BY DEF Inv, Sound, TypeOK, Typed, Character
<1> QED BY PartyInv, <1>1, PTL

(* Leaders and members who never had to do with one who joined itself      *)
(* agree on every party, for any number of players, vehicles and seats,    *)
(* whatever windows the others answer and whoever takes their indices      *)
(* (char_party.c, char.c 6407-6473).                                       *)
THEOREM PartyPartiesAgree == Spec => []PartiesAgree
<1>1. Inv => PartiesAgree
  <2> SUFFICES ASSUME Inv, NEW c \in Clear
               PROVE  /\ ch[c].mode = "CLIENT" =>
                           /\ ch[c].use
                           /\ ch[c].idx[0] \in Clear
                           /\ ch[ch[c].idx[0]].mode = "LEADER"
                           /\ Leads(ch[c].idx[0], c)
                      /\ ch[c].mode = "LEADER" => ch[c].use /\ LeaderOK(c)
                      /\ \A m \in Chars : ch[c].mode = "LEADER" /\ Leads(c, m) =>
                           m \in Clear /\ ch[m].use /\ ch[m].mode = "CLIENT" /\ ch[m].idx[0] = c
                      /\ ch[c].mode = "NONE" => \A m \in Chars : ~Leads(c, m)
    BY DEF PartiesAgree
  <2>1. Agree(ch, Clear) /\ Closed(ch, Clear) /\ c \in Chars
    BY DEF Inv, Sound
  <2>2. ASSUME ch[c].mode = "CLIENT"
        PROVE  /\ ch[c].use
               /\ ch[c].idx[0] \in Clear
               /\ ch[ch[c].idx[0]].mode = "LEADER"
               /\ Leads(ch[c].idx[0], c)
    <3>1. ClientOK(ch, c)
      BY <2>1, <2>2 DEF Agree
    <3> QED BY <2>1, <3>1, SlotsType DEF ClientOK, Leads, Seats, Closed
  <2>3. ch[c].mode = "LEADER" => ch[c].use /\ LeaderOK(c)
    BY <2>1 DEF Agree, FirstOK, LeaderOK, Seats
  <2>4. ASSUME NEW m \in Chars, ch[c].mode = "LEADER", Leads(c, m)
        PROVE  m \in Clear /\ ch[m].use /\ ch[m].mode = "CLIENT" /\ ch[m].idx[0] = c
    <3>1. PICK i \in Seats : ch[c].idx[i] = m
      BY <2>4 DEF Leads, Seats
    <3>2. m # None /\ i \in Slots
      BY SlotsType
    <3> QED BY <2>1, <2>4, <3>1, <3>2 DEF Agree, MembersOK, Closed
  <2>5. ch[c].mode = "NONE" => \A m \in Chars : ~Leads(c, m)
    BY <2>1, SlotsType DEF Agree, Leads, Seats
  <2> QED BY <2>2, <2>3, <2>4, <2>5
<1> QED BY PartyInv, <1>1, PTL

(* A member that leaves is found in its leader's array, so the work int in *)
(* front of it is not written to, for a leader that never had to do with   *)
(* one who joined itself (char_party.c 504).                               *)
THEOREM PartyNoWildWrite == Spec => []NoWildWrite
<1>1. Inv => NoWildWrite
  BY DEF Inv, Sound, Agree, NoWildWrite
<1> QED BY PartyInv, <1>1, PTL

(* Whoever never had to do with one who joined itself is carried by a      *)
(* vehicle when that vehicle checked it and let it board, and only then.   *)
THEOREM PartyPassengersPaid == Spec => []PassengersPaid
<1>1. Inv => PassengersPaid
  BY DEF Inv, Paid, PassengersPaid
<1> QED BY PartyInv, <1>1, PTL
=============================================================================
