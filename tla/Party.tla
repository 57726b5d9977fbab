------------------------------- MODULE Party -------------------------------
(***************************************************************************)
(* Parties of players (gmsv/char/char_party.c): the leader's work ints     *)
(* hold the members, a member's first one holds its leader.  Characters    *)
(* log out and their indices are taken by others, while a player may answer*)
(* the window that offers several parties.  A vehicle (bus, ship, airplane)*)
(* is a character of the server that leads its passengers.  Who stands     *)
(* where, who fights and who refuses company is left open: a check of it   *)
(* may come out either way.                                                *)
(*                                                                         *)
(* The answer to the window is taken at any time, whether a window was     *)
(* sent or not, and what it selects is not compared with the length of the *)
(* list, which is never cleared: it may name any character in use, the     *)
(* player itself included.  A player that joins itself becomes a member    *)
(* led by a member, which nothing else in the code expects.  The properties*)
(* are about the others: those who never had to do with such a party.      *)
(***************************************************************************)
EXTENDS Integers, FiniteSets

CONSTANTS
  Players, Vehicles,   \* character indices
  None,                \* the index -1
  PartyMax,            \* CHAR_PARTYMAX, 5 in the code
  MaxMixed             \* bound: how many characters may get mixed, see Meets

ASSUME PartyAssumption ==
  /\ Players \intersect Vehicles = {}
  /\ None \notin Players \union Vehicles
  /\ PartyMax \in Nat \ {0, 1}
  /\ MaxMixed \in Nat

Chars == Players \union Vehicles
Slots == 0 .. PartyMax - 1
Modes == {"NONE", "LEADER", "CLIENT"}

VARIABLES
  ch,      \* ch[c]: use, CHAR_WORKPARTYMODE, CHAR_WORKPARTYINDEX1 .. 5, and
           \* whether the work int in front of these was written to
  fare,    \* ghost: fare[c] is the vehicle that let c board, until c leaves
  mixed    \* ghost: the indices that have been in a party somebody led itself in

vars == <<ch, fare, mixed>>

Fresh(used) == [use |-> used, mode |-> "NONE", idx |-> [i \in Slots |-> None],
                wild |-> FALSE]

Init ==
  /\ ch = [c \in Chars |-> Fresh(c \in Vehicles)]
  /\ fare = [c \in Players |-> None]
  /\ mixed = {}

-----------------------------------------------------------------------------
(* Look-ups in a state s of the characters.                                *)

CHECKINDEX(s, c) == c # None /\ s[c].use

getPartyIndex(s, c, n) ==
  IF s[c].mode = "LEADER" THEN s[c].idx[n]
  ELSE IF CHECKINDEX(s, s[c].idx[0]) THEN s[s[c].idx[0]].idx[n] ELSE None

(* Who leads the party one gets into by joining c.                         *)
Chief(s, c) == IF s[c].mode = "NONE" THEN c ELSE getPartyIndex(s, c, 0)

Least(S) == CHOOSE i \in S : \A j \in S : i <= j

EmptySlots(s, c) ==
  {i \in Slots \ {0} : CHECKINDEX(s, Chief(s, c)) /\ s[Chief(s, c)].idx[i] = None}

(* to may be joined: it is a character in use, and has a free slot.        *)
Room(s, to) == CHECKINDEX(s, to) /\ EmptySlots(s, to) # {}

MembersOf(s, l) == {s[l].idx[i] : i \in Slots} \ {None}

-----------------------------------------------------------------------------
(* Variant: mode and work int of the member are swapped.                   *)
JoinParty_Main_swapped(s, c, t) ==
  [s EXCEPT ![c] = [@ EXCEPT !.mode = Chief(s, t), !.idx[0] = "CLIENT"]]

(* CHAR_JoinParty_Main: c joins the party of t, which may only now become  *)
(* one; the mode c itself has is not looked at.                            *)
JoinParty_Main(s, c, t) ==
  LET to  == Chief(s, t)
      led == IF s[to].mode = "NONE"
               THEN [s EXCEPT ![to] = [@ EXCEPT !.mode = "LEADER", !.idx[0] = to]]
               ELSE s
      in  == [led EXCEPT ![to] = [@ EXCEPT !.idx[Least(EmptySlots(s, to))] = c]]
  IN IF Room(s, to)
       THEN [in EXCEPT ![c] = [@ EXCEPT !.mode = "CLIENT", !.idx[0] = to]]
       ELSE s

(* A leader is discharged: the party is dissolved.  The leader's array     *)
(* begins with itself, so the loop resets it with the others.              *)
Disbanded(s, l) ==
  LET gone == {m \in MembersOf(s, l) : CHECKINDEX(s, m)}
      Slot(i) == IF s[l].idx[i] \in gone THEN None ELSE s[l].idx[i]
      emptied == [s EXCEPT ![l] = [@ EXCEPT !.idx = [i \in Slots |-> Slot(i)]]]
  IN [c \in Chars |->
        IF c \in gone THEN [emptied[c] EXCEPT !.mode = "NONE", !.idx[0] = None]
        ELSE emptied[c]]

(* Variant: an emptied party keeps its leader.                             *)
Left_keepsLeader(s, c) ==
  LET to   == s[c].idx[0]
      away == [s EXCEPT ![c] = [@ EXCEPT !.mode = "NONE", !.idx[0] = None]]
      mine == {i \in Slots : away[to].idx[i] = c}
  IN [away EXCEPT ![to] = IF mine = {} THEN [@ EXCEPT !.wild = TRUE]
                          ELSE [@ EXCEPT !.idx[Least(mine)] = None]]

(* A member is discharged.  When it is not found in its leader's array,    *)
(* the work int in front of the array is overwritten.                      *)
Left(s, c) ==
  LET to   == s[c].idx[0]
      free == [s EXCEPT ![c] = [@ EXCEPT !.mode = "NONE"]]
      away == [free EXCEPT ![c] = [@ EXCEPT !.idx[0] = None]]
      mine == {i \in Slots : away[to].idx[i] = c}
      out  == [away EXCEPT ![to] = IF mine = {} THEN [@ EXCEPT !.wild = TRUE]
                                   ELSE [@ EXCEPT !.idx[Least(mine)] = None]]
  IN IF ~CHECKINDEX(s, to) THEN free
     ELSE IF \E i \in Slots \ {0} : CHECKINDEX(out, out[to].idx[i]) THEN out
     ELSE [out EXCEPT ![to] = [@ EXCEPT !.mode = "NONE"]]

DischargePartySub(s, c) ==
  CASE s[c].mode = "LEADER" -> Disbanded(s, c)
    [] s[c].mode = "CLIENT" -> Left(s, c)
    [] OTHER -> s

(* The new state of the characters, and of what depends on it.             *)
Becomes(s) ==
  /\ ch' = s
  /\ fare' = [c \in Players |-> IF s[c].mode = "CLIENT" /\ s[c].idx[0] = fare[c]
                                THEN fare[c] ELSE None]

(* In a state s of the characters c joins the party of to: all of it is    *)
(* mixed when c leads it, or anybody of it was mixed before.               *)
Meets(s, c, to) ==
  LET party == IF Room(s, to) THEN {c, to} \union MembersOf(s, to) ELSE {}
  IN /\ mixed' = IF c = to \/ party \intersect mixed # {} THEN mixed \union party ELSE mixed
     /\ Cardinality(mixed') <= MaxMixed

-----------------------------------------------------------------------------
Login(c) ==
  /\ ~ch[c].use
  /\ Becomes([ch EXCEPT ![c] = Fresh(TRUE)])
  /\ UNCHANGED mixed

(* CHAR_logout, from which the index is free for somebody else.            *)
Logout(c) ==
  /\ ch[c].use
  /\ Becomes([DischargePartySub(ch, c) EXCEPT ![c] = [@ EXCEPT !.use = FALSE]])
  /\ UNCHANGED mixed

(* The players whose party c may join, should they stand in front of it.   *)
Joinable(c) ==
  {t \in Players \ {c} :
     LET to == IF ch[t].mode = "CLIENT" THEN ch[t].idx[0] ELSE t IN
     /\ ch[t].use /\ Room(ch, to)
     /\ ch[t].mode = "CLIENT" => to \notin Vehicles}

(* CHAR_JoinParty finds one player, whose party is joined at once.  Between*)
(* several the client is asked, and no character changes.                  *)
JoinParty(c) ==
  /\ ch[c].use /\ ch[c].mode = "NONE"
  /\ \E t \in Joinable(c) : /\ Becomes(JoinParty_Main(ch, c, t))
                            /\ Meets(ch, c, Chief(ch, t))

(* CHAR_JoinParty finds vehicle v, which ends the search.  When            *)
(* NPC_BusCheckJoinParty accepts, it takes the fare.                       *)
Board(c, v) ==
  /\ ch[c].use /\ ch[c].mode = "NONE"
  /\ EmptySlots(ch, v) # {}
  /\ ch' = JoinParty_Main(ch, c, v)
  /\ fare' = [fare EXCEPT ![c] = IF Room(ch, Chief(ch, v)) THEN v ELSE None]
  /\ Meets(ch, c, Chief(ch, v))

(* Variant: the mode of the player itself is not asked again.              *)
Answerable_anyMode(c, to) ==
  CHECKINDEX(ch, to) /\ to \notin Vehicles /\ EmptySlots(ch, to) # {}

(* Variant: CHAR_ISPARTY is not asked again.                               *)
Answerable_anyChief(c, to) ==
  ch[c].mode = "NONE" /\ Room(ch, to)

(* CHAR_JoinParty_WindowResult: everything but whom c names is asked again,*)
(* of the chief to of whoever it names.  A vehicle's CHAR_ISPARTY flag is  *)
(* never set.                                                              *)
Answerable(c, to) ==
  /\ ch[c].mode = "NONE"
  /\ Room(ch, to)
  /\ to \notin Vehicles

JoinParty_WindowResult(c) ==
  /\ ch[c].use
  /\ \E t \in Chars :
       LET to == Chief(ch, t) IN
       /\ CHECKINDEX(ch, t) /\ Answerable(c, to)
       /\ Becomes(JoinParty_Main(ch, c, to))
       /\ Meets(ch, c, Chief(ch, to))

(* The player leaves, a battle ends, a player is warped away, a vehicle    *)
(* arrives.                                                                *)
DischargeParty(c) ==
  /\ ch[c].use
  /\ Becomes(DischargePartySub(ch, c))
  /\ UNCHANGED mixed

(* NPC_PairUserAndWarp: two leave their parties, and t joins f.            *)
PairUserAndWarp(t, f) ==
  LET alone == DischargePartySub(DischargePartySub(ch, t), f) IN
  /\ t # f /\ ch[t].use /\ ch[f].use
  /\ Becomes(JoinParty_Main(alone, t, f))
  /\ Meets(alone, t, Chief(alone, f))

(* CHAR_walkcall: a leader who walks drops the members that are gone.      *)
Walkcall(l) ==
  /\ ch[l].use /\ ch[l].mode = "LEADER"
  /\ ch' = [ch EXCEPT ![l] = [@ EXCEPT !.idx = [i \in Slots |->
              IF i = 0 \/ CHECKINDEX(ch, ch[l].idx[i]) THEN ch[l].idx[i] ELSE None]]]
  /\ UNCHANGED <<fare, mixed>>

Next ==
  \/ \E c \in Players :
       \/ Login(c) \/ Logout(c)
       \/ JoinParty(c) \/ JoinParty_WindowResult(c) \/ Walkcall(c)
       \/ \E v \in Vehicles : Board(c, v)
       \/ \E f \in Players : PairUserAndWarp(c, f)
  \/ \E c \in Chars : DischargeParty(c)

Spec == Init /\ [][Next]_vars

-----------------------------------------------------------------------------
(* Every variable keeps its type: the type invariant.                      *)
TypeOK ==
  /\ ch \in [Chars -> [use : BOOLEAN, mode : Modes,
                       idx : [Slots -> Chars \union {None}], wild : BOOLEAN]]
  /\ fare \in [Players -> Vehicles \union {None}]
  /\ mixed \in SUBSET Chars

Leads(l, c) == \E i \in Slots \ {0} : ch[l].idx[i] = c

(* A leader in use stands first in its own array, has a member, and lists  *)
(* none twice.                                                             *)
LeaderOK(l) ==
  /\ ch[l].idx[0] = l
  /\ \E i \in Slots \ {0} : ch[l].idx[i] # None
  /\ \A i, j \in Slots : ch[l].idx[i] = ch[l].idx[j] => i = j \/ ch[l].idx[i] = None

(* The characters that never had to do with a party somebody led itself in.*)
Clear == Chars \ mixed

(* Leaders and members agree on every party, whoever else has joined       *)
(* itself: a member in use has a leader in use that lists it, whom a       *)
(* leader lists is in use and led by it, and who is in no party lists      *)
(* nobody; and they are never mixed up with the others                     *)
(* (CHAR_JoinParty_Main, CHAR_DischargePartySub).                          *)
PartiesAgree ==
  \A c \in Clear :
    /\ ch[c].mode = "CLIENT" =>
         /\ ch[c].use
         /\ ch[c].idx[0] \in Clear
         /\ ch[ch[c].idx[0]].mode = "LEADER"
         /\ Leads(ch[c].idx[0], c)
    /\ ch[c].mode = "LEADER" => ch[c].use /\ LeaderOK(c)
    /\ \A m \in Chars : ch[c].mode = "LEADER" /\ Leads(c, m) =>
         m \in Clear /\ ch[m].use /\ ch[m].mode = "CLIENT" /\ ch[m].idx[0] = c
    /\ ch[c].mode = "NONE" => \A m \in Chars : ~Leads(c, m)

(* A member that leaves is found in its leader's array: the work int in    *)
(* front of the array of a leader, the trade mode, is not overwritten      *)
(* unless that leader had to do with one who joined itself                 *)
(* (char_party.c 504: slot -1).                                            *)
NoWildWrite == \A c \in Clear : ~ch[c].wild

(* Whom a vehicle carries is whom it checked and let board, and whoever    *)
(* was let in has a seat: neither the answer to a window nor an index that *)
(* somebody else has taken leads into a vehicle, except by way of those    *)
(* who joined themselves (char_party.c 290, char.c 6452).                  *)
PassengersPaid ==
  \A c \in Players \intersect Clear, v \in Vehicles :
    fare[c] = v <=> ch[c].mode = "CLIENT" /\ ch[c].idx[0] = v
=============================================================================
