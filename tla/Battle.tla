-------------------------------- MODULE Battle --------------------------------
(***************************************************************************)
(* The frame of the battles (gmsv/battle/battle.c): the array of battles,  *)
(* who is entered in which, the turns, and the watch battles that hang in  *)
(* a chain behind the battle they show and hold up its turns until they    *)
(* have shown it.  Left open are the outcomes of a fight, who is in whose  *)
(* party, who has HP left, whether a side asks for help and when a time    *)
(* limit passes: each may come out either way.  Pets, and enemies one by   *)
(* one, are left out.                                                      *)
(* Slots of the battle array are alike: a free one stands for any.         *)
(***************************************************************************)
EXTENDS Integers, FiniteSets

CONSTANTS
  Players,     \* character indices of players
  Battles,     \* indices of BattleArray
  None,        \* the index -1 and the NULL pointer
  PlayerMax,   \* BATTLE_PLAYER_MAX, the players of a side: 5 in the code
  MaxFights,   \* bound on the battles, other than watch battles, at a time
  MaxTries     \* bound on the times anybody becomes a spectator

ASSUME BattleAssumption ==
  /\ None \notin Players \union Battles
  /\ IsFiniteSet(Players)
  /\ PlayerMax \in Nat \ {0}
  /\ MaxFights \in Nat /\ MaxTries \in Nat

Sides == {0, 1}
CharModes == {"NONE", "INIT", "C_WAIT", "C_OK", "RESCUE", "FINAL", "WATCHINIT"}
BattleModes == {"NONE", "INIT", "BATTLE", "FINISH",
                "WATCHBC", "WATCHPRE", "WATCHWAIT", "WATCHMOVIE", "WATCHAFTER"}
Types == {"NONE", "P_vs_E", "P_vs_P", "WATCH"}

VARIABLES
  pl,      \* pl[p]: CHAR_WORKBATTLEMODE, WORKBATTLEINDEX, WORKBATTLEWATCH, ISDIE
  bt,      \* bt[b]: BattleArray[b]; turn, of no watch battle, modulo 2
  tries    \* times a player became a spectator

vars == <<pl, bt, tries>>

Fresh == [mode |-> "NONE", at |-> None, watch |-> FALSE, dead |-> FALSE]

Unused == [use |-> FALSE, mode |-> "NONE", type |-> "NONE", turn |-> 0,
           side |-> [j \in Sides |-> {}], next |-> None, before |-> None]

Init ==
  /\ pl = [p \in Players |-> Fresh]
  /\ bt = [b \in Battles |-> Unused]
  /\ tries = 0

-----------------------------------------------------------------------------
(* Operations on a state s of the players and the battles.                 *)

Entries(s, b) == s.bt[b].side[0] \union s.bt[b].side[1]

(* The watch battles behind b, by following pNext: no set without such a   *)
(* battle has the pNext of b and of all its members in it.                 *)
Behind(s, b) ==
  {c \in Battles : \A S \in SUBSET (Battles \ {c}) :
                    \E d \in S \union {b} : s.bt[d].next \notin S \union {None}}

(* BATTLE_NewEntry and, in mode WATCHINIT, BATTLE_WatchNewEntry.           *)
NewEntry(s, P, b, j, mode) ==
  [pl |-> [p \in Players |-> IF p \in P
             THEN [mode |-> mode, at |-> b, watch |-> mode = "WATCHINIT",
                   dead |-> s.pl[p].dead]
             ELSE s.pl[p]],
   bt |-> [s.bt EXCEPT ![b].side[j] = @ \union P]]

(* BATTLE_Exit of each of P: those found among the entries leave.  Only a  *)
(* player in a battle is asked whether it watches, so that ends here too.  *)
Exit(s, P, b) ==
  LET gone == P \intersect Entries(s, b) IN
  [pl |-> [p \in Players |-> IF p \in gone
             THEN [Fresh EXCEPT !.mode = "FINAL"] ELSE s.pl[p]],
   bt |-> [s.bt EXCEPT ![b].side = [j \in Sides |-> @[j] \ gone]]]

(* Variant: what follows is not told who stands in front of it now.        *)
WatchUnLink_oneWay(s, b) ==
  LET top == s.bt[b].before IN
  [s EXCEPT !.bt = [c \in Battles |->
     IF c = top THEN [s.bt[c] EXCEPT !.next = s.bt[b].next] ELSE s.bt[c]]]

(* The neighbours of b in its chain are linked to each other.              *)
WatchUnLink(s, b) ==
  LET top == s.bt[b].before
      nxt == s.bt[b].next
  IN [s EXCEPT !.bt = [c \in Battles |->
        CASE c = top -> [s.bt[c] EXCEPT !.next = nxt]
          [] c = nxt -> [s.bt[c] EXCEPT !.before = top]
          [] OTHER -> s.bt[c]]]

(* Variant: the links of the deleted battle stay.                          *)
DeleteBattle_keepsLinks(s, b) ==
  [WatchUnLink(s, b) EXCEPT !.bt[b] = [Unused EXCEPT !.next = s.bt[b].next]]

DeleteBattle(s, b) == [WatchUnLink(s, b) EXCEPT !.bt[b] = Unused]

(* BATTLE_Finish: everybody leaves b, those who watch it included.         *)
Dismissed(s, b) ==
  LET shows == IF s.bt[b].type = "WATCH" THEN {} ELSE Behind(s, b)
      out == Entries(s, b) \union UNION {s.bt[c].side[0] : c \in shows}
  IN [pl |-> [p \in Players |-> IF p \in out THEN [Fresh EXCEPT !.mode = "FINAL"]
                               ELSE s.pl[p]],
      bt |-> [c \in Battles |-> IF c \in shows \union {b}
                THEN [s.bt[c] EXCEPT !.side = [j \in Sides |-> {}]] ELSE s.bt[c]]]

(* Deleting the first watch battle clears the pNext by which the loop      *)
(* would go on, so the others stay, empty.                                 *)
ShowDeleted(s, b) ==
  IF s.bt[b].type = "WATCH" \/ s.bt[b].next = None THEN s
  ELSE DeleteBattle(s, s.bt[b].next)

Now == [pl |-> pl, bt |-> bt]
Becomes(s) == \E new \in {s} : pl' = new.pl /\ bt' = new.bt

-----------------------------------------------------------------------------
(* Battles begin.  Of a party, those in no battle come along.              *)

CreateBattle(s, b, type, mode) ==
  [s EXCEPT !.bt[b] = [Unused EXCEPT !.use = TRUE, !.type = type, !.mode = mode]]

Room == \E b \in Battles : ~bt[b].use
Fights == {b \in Battles : bt[b].use /\ bt[b].type # "WATCH"}
Slot == CHOOSE b \in Battles : ~bt[b].use

(* What a leader may bring along.                                          *)
Parties(p, modes) ==
  {P \in SUBSET Players : /\ p \in P /\ Cardinality(P) <= PlayerMax
                          /\ \A q \in P \ {p} : pl[q].mode \in modes}

CreateVsEnemy(p) == \E P \in Parties(p, {"NONE", "FINAL"}) :
  /\ pl[p].mode = "NONE" /\ Room /\ Cardinality(Fights) < MaxFights
  /\ Becomes(NewEntry(CreateBattle(Now, Slot, "P_vs_E", "INIT"), P, Slot, 0, "INIT"))
  /\ UNCHANGED tries

(* BATTLE_CreateVsPlayer.  By the time q's members are asked, all of P are *)
(* busy; q itself is not asked again.  A leader, and a member, is refused  *)
(* a duel with itself; who is in no party is not, and enters both sides.   *)
CreateVsPlayer(p, q) ==
  \E P \in Parties(p, {"NONE", "FINAL"}), Q \in Parties(q, {"NONE", "FINAL"}) :
    /\ pl[p].mode = "NONE" /\ pl[q].mode = "NONE"
    /\ Room /\ Cardinality(Fights) < MaxFights
    /\ p = q => P = {p} /\ Q = {p}
    /\ LET s == CreateBattle(Now, Slot, "P_vs_P", "INIT")
           come == {q} \union (Q \ P)
       IN Becomes(NewEntry(NewEntry(s, P, Slot, 0, "INIT"), come, Slot, 1, "INIT"))
    /\ UNCHANGED tries

-----------------------------------------------------------------------------
(* Others come in.                                                         *)

(* Variant: a battle between players may be joined, on either side.        *)
RescueEntry_anyType(s, p, t) ==
  LET b == s.pl[t].at
      j == IF t \in s.bt[b].side[1] THEN 1 ELSE 0
  IN IF b = None THEN s
     ELSE IF ~s.bt[b].use \/ Cardinality(s.bt[b].side[j]) >= PlayerMax THEN s
     ELSE NewEntry(s, {p}, b, j, "RESCUE")

(* p enters the side of t, unless that battle is one between players.  It  *)
(* may be a watch battle, when t is the leader p's party was brought by.   *)
RescueEntry(s, p, t) ==
  LET b == s.pl[t].at IN
  IF b = None THEN s
  ELSE IF ~s.bt[b].use \/ s.bt[b].type = "P_vs_P"
           \/ Cardinality(s.bt[b].side[0]) >= PlayerMax THEN s
  ELSE NewEntry(s, {p}, b, 0, "RESCUE")

(* Variant: the mode of who comes to help is not asked.                    *)
RescueTry_anyMode(p, t) ==
  /\ pl[t].mode # "NONE" /\ pl[t].at # None /\ bt[pl[t].at].type = "P_vs_E"
  /\ Becomes(RescueEntry(Now, p, t))
  /\ UNCHANGED tries

(* BATTLE_RescueTry, at once or by the window that offers a choice: the    *)
(* answer to it is taken in mode NONE only and asks all conditions again.  *)
RescueTry(p, t) ==
  /\ pl[p].mode = "NONE"
  /\ pl[t].mode # "NONE" /\ pl[t].at # None /\ bt[pl[t].at].type = "P_vs_E"
  /\ Becomes(RescueEntry(Now, p, t))
  /\ UNCHANGED tries

(* The client of p has shown the end.  A member whose leader is busy in a  *)
(* battle goes after it, whatever battle that is.                          *)
EncountOut(p) ==
  /\ pl[p].mode = "FINAL"
  /\ LET s == [Now EXCEPT !.pl[p] = Fresh]
     IN \/ Becomes(s)
        \/ \E t \in Players \ {p} : /\ pl[t].mode \notin {"NONE", "FINAL"}
                                    /\ Becomes(RescueEntry(s, p, t))
  /\ UNCHANGED tries

(* The watch battle b is put right behind top, itself perhaps one.         *)
WatchLink(s, top, b) ==
  LET old == s.bt[top].next
  IN [s EXCEPT !.bt = [c \in Battles |->
        CASE c = top -> [s.bt[c] EXCEPT !.next = b]
          [] c = b   -> [s.bt[c] EXCEPT !.before = top, !.next = old]
          [] c = old -> [s.bt[c] EXCEPT !.before = b]
          [] OTHER   -> s.bt[c]]]

(* BATTLE_WatchEntry: p and its party watch the battle t is in.            *)
WatchEntry(p, t) == \E P \in Parties(p, {"NONE"}) :
  /\ tries < MaxTries /\ tries' = tries + 1
  /\ pl[t].mode \notin {"NONE", "FINAL"} /\ pl[t].at # None
  /\ pl[p].mode = "NONE" /\ Room
  /\ LET s == CreateBattle(Now, Slot, "WATCH", "WATCHBC") IN
     Becomes(NewEntry(WatchLink(s, pl[t].at, Slot), P, Slot, 0, "WATCHINIT"))

-----------------------------------------------------------------------------
(* What the players do in a battle.                                        *)

(* BattleCommandDispach: a spectator's "U" ends its watching, and takes it *)
(* out of its party; anything else counts as a command.                    *)
Command(p) ==
  /\ pl[p].at # None /\ bt[pl[p].at].use /\ pl[p].mode # "NONE"
  /\ \/ Becomes([Now EXCEPT !.pl[p].mode = "C_OK"])
     \/ pl[p].watch /\ Becomes(Exit(Now, {p}, pl[p].at))
  /\ UNCHANGED tries

(* CHAR_logout; the index of p is somebody else's from now on.             *)
Logout(p) ==
  /\ LET s == IF pl[p].at = None THEN Now ELSE Exit(Now, {p}, pl[p].at) IN
     Becomes([s EXCEPT !.pl[p] = Fresh])
  /\ UNCHANGED tries

-----------------------------------------------------------------------------
(* One battle's share of a pass of BATTLE_Loop.                            *)

SetMode(s, P, mode) ==
  [s EXCEPT !.pl = [p \in Players |-> IF p \in P THEN [s.pl[p] EXCEPT !.mode = mode]
                                      ELSE s.pl[p]]]

SetBattles(s, B, mode) ==
  [s EXCEPT !.bt = [b \in Battles |-> IF b \in B THEN [s.bt[b] EXCEPT !.mode = mode]
                                      ELSE s.bt[b]]]

Alive(s, P) == {p \in P : ~s.pl[p].dead}

Waiting(b) == {p \in Alive(Now, Entries(Now, b)) : pl[p].mode = "C_WAIT"}

(* Variant: the time limit gives nobody a command.                         *)
CommandWait_noLimit(b, late) ==
  Exit(Now, {p \in Alive(Now, Entries(Now, b)) : pl[p].mode \in {"NONE", "FINAL"}}, b)

(* BATTLE_CommandWait of both sides: past the limit, whoever has chosen    *)
(* nothing guards, which counts from the next pass; strays are removed.    *)
CommandWait(b, late) ==
  LET s == Exit(Now, {p \in Alive(Now, Entries(Now, b)) :
                        pl[p].mode \in {"NONE", "FINAL"}}, b)
  IN IF late THEN SetMode(s, Waiting(b), "C_OK") ELSE s

(* Every watch battle has shown the last turn.                             *)
Shown(b) == \A c \in Behind(Now, b) : bt[c].mode = "WATCHMOVIE"

(* BATTLE_BpSendToWatch: who just began to watch is shown where it stands. *)
BpSend(s, b) == SetBattles(s, {c \in Behind(s, b) : s.bt[c].mode = "WATCHBC"}, "WATCHPRE")

(* BATTLE_PreCommandSeq: everybody is shown the battle, the watch battles  *)
(* in whatever mode they are, and waits for commands.                      *)
PreCommandSeq(s, b) ==
  SetMode(SetBattles(s, Behind(s, b), "WATCHPRE"), Entries(s, b), "C_WAIT")

(* BATTLE_Battling, as far as the frame can tell: out leave the battle,    *)
(* the killed of the others lie dead; the watch battles are shown it.      *)
Battling(s, b, out, killed) ==
  LET left == Exit(s, out, b)
      done == [left EXCEPT
        !.pl = [p \in Players |-> IF p \in Entries(left, b)
                  THEN [left.pl[p] EXCEPT !.dead = p \in killed] ELSE left.pl[p]],
        !.bt[b].turn = 1 - @]
  IN SetBattles(done, Behind(done, b), "WATCHAFTER")

(* BATTLE_OnlyRescue: only those who just came to help stand on a side.    *)
OnlyRescue(s, b, j) ==
  LET standing == Alive(s, s.bt[b].side[j]) IN
  standing # {} /\ \A p \in standing : s.pl[p].mode = "RESCUE"

(* Of such a side, those without HP are sent away, and the battle ends     *)
(* when a side has nobody left: foes says whether enemies stand, or fell   *)
(* and rose in another shape (CHAR_WORK_RELIFE, which only enemies get).   *)
(* Side 1 was not asked when nobody stands on side 0: its flag is then not *)
(* initialized, and may have any of it sent away, or nobody.  A watch      *)
(* battle never keeps the WATCHAFTER of the fight for its own pass: its    *)
(* mode is set anew here, in the same call.                                *)
TurnEnd(s, b, foes) ==
  LET lost == Alive(s, s.bt[b].side[0]) = {}
      won  == Alive(s, s.bt[b].side[1]) = {} /\ ~foes
      drop == {j \in Sides : (j = 1 /\ lost) \/ OnlyRescue(s, b, j)}
  IN \E noHP \in SUBSET UNION {s.bt[b].side[j] : j \in drop} :
       \E rest \in {Exit(s, noHP, b)} :
         Becomes(SetBattles(PreCommandSeq(rest, b), {b},
                            IF lost \/ won THEN "FINISH" ELSE "BATTLE"))

PlayTurn(s, b) ==
  \E out \in SUBSET Entries(s, b), foes \in {FALSE, s.bt[b].type = "P_vs_E"} :
    \E killed \in SUBSET (Entries(s, b) \ out) :
      \E done \in {Battling(s, b, out, killed)} :
        TurnEnd(done, b, foes)

(* BATTLE_Command.  After an hour without a turn, BATTLE_TimeOutCheck      *)
(* sends away whoever is still waited for and lets the turn begin.         *)
Turn(b, late, hour) ==
  /\ bt[b].mode = "BATTLE"
  /\ \E asked \in {CommandWait(b, late)} : \E told \in {BpSend(asked, b)} :
       LET idle == {p \in Entries(told, b) : told.pl[p].mode = "C_WAIT"}
       IN IF hour THEN \E rest \in {Exit(told, idle, b)} : PlayTurn(rest, b)
          ELSE IF Waiting(b) # {} \/ ~Shown(b) THEN Becomes(told)
          ELSE PlayTurn(told, b)

Opening(b) ==
  /\ bt[b].mode = "INIT"
  /\ Becomes(SetBattles(PreCommandSeq(Now, b), {b}, "BATTLE"))

(* A battle comes to its end; a watch battle, in the pass that finds it    *)
(* without anybody.                                                        *)
Ending(b) ==
  /\ \/ bt[b].mode = "FINISH"
     \/ bt[b].type = "WATCH" /\ Alive(Now, bt[b].side[0]) = {}
  /\ \E s \in {Dismissed(Now, b)} :
       \E rest \in {ShowDeleted(s, b)} : Becomes(DeleteBattle(rest, b))

(* The modes of a watch battle.  After an hour in WATCHWAIT,               *)
(* BATTLE_TimeOutCheck sends those who wait away here too.                 *)
Watching(b, hour) ==
  /\ bt[b].type = "WATCH" /\ Alive(Now, bt[b].side[0]) # {}
  /\ \/ /\ bt[b].mode = "WATCHPRE"
        /\ LET told == {p \in bt[b].side[0] : pl[p].mode # "WATCHINIT"}
           IN Becomes(SetBattles(SetMode(Now, told, "C_WAIT"), {b}, "WATCHWAIT"))
     \/ /\ bt[b].mode = "WATCHWAIT"
        /\ LET idle == {p \in Entries(Now, b) : hour /\ pl[p].mode = "C_WAIT"}
           IN Becomes(SetBattles(Exit(Now, idle, b), {b}, "WATCHMOVIE"))

Loop(b, late, hour) ==
  /\ bt[b].use
  /\ Opening(b) \/ Ending(b) \/ Watching(b, hour) \/ Turn(b, late, hour)
  /\ UNCHANGED tries

Next ==
  \/ \E p \in Players : CreateVsEnemy(p) \/ EncountOut(p) \/ Command(p) \/ Logout(p)
  \/ \E p, q \in Players : CreateVsPlayer(p, q) \/ RescueTry(p, q) \/ WatchEntry(p, q)
  \/ \E b \in Battles, late, hour \in BOOLEAN : Loop(b, late, hour)

(* BATTLE_Loop is called over and over and passes every battle; a command  *)
(* is waited for no longer than 120 seconds.  That an hour goes by without *)
(* a turn is allowed, never relied on.                                     *)
Fairness == \A b \in Battles : WF_vars(Loop(b, TRUE, FALSE))

Spec == Init /\ [][Next]_vars /\ Fairness

-----------------------------------------------------------------------------
(* The type invariant; a slot that is free is blank: no battle, and no     *)
(* link, is left behind in it.                                             *)
TypeOK ==
  /\ pl \in [Players -> [mode : CharModes, at : Battles \union {None},
                         watch : BOOLEAN, dead : BOOLEAN]]
  /\ bt \in [Battles -> [use : BOOLEAN, mode : BattleModes, type : Types,
                         turn : 0 .. 1, side : [Sides -> SUBSET Players],
                         next : Battles \union {None},
                         before : Battles \union {None}]]
  /\ tries \in 0 .. MaxTries
  /\ \A b \in Battles : ~bt[b].use => bt[b] = Unused

(* A character and the battle array agree: a player stands among the       *)
(* entries of exactly the battle whose index it carries, of one in use,    *)
(* and its mode says whether it is in a battle at all.  On both sides of a *)
(* battle stands at most one, a player that duels itself, and only in a    *)
(* battle between players (BATTLE_NewEntry does not look where the player  *)
(* is already: nothing but the callers' tests of its mode keeps it so).    *)
EntriesAgree ==
  /\ \A p \in Players :
       /\ \A b \in Battles : p \in Entries(Now, b) <=> pl[p].at = b
       /\ pl[p].at # None => bt[pl[p].at].use
       /\ pl[p].at = None <=> pl[p].mode \in {"NONE", "FINAL"}
  /\ \A b \in Battles : \A p, q \in bt[b].side[0] \intersect bt[b].side[1] :
       p = q /\ bt[b].type = "P_vs_P"

(* Nobody joins a battle between players: those of its sides came with it  *)
(* (BATTLE_RescueEntry refuses it), so no side of it has a rescuer, and no *)
(* side of any battle has more players than slots.                         *)
DuelsAreClosed ==
  \A b \in Battles :
    /\ bt[b].type = "P_vs_P" => \A p \in Entries(Now, b) : pl[p].mode # "RESCUE"
    /\ \A j \in Sides : Cardinality(bt[b].side[j]) <= PlayerMax

(* The chains of watch battles are intact while battles are created, left  *)
(* and deleted: pNext and pBefore name each other and battles in use, and  *)
(* whoever watches hangs behind a battle that is no watch battle, so that  *)
(* its end, which walks that chain, lets the spectators go.                *)
ChainsIntact ==
  \A b, c \in Battles :
    /\ bt[b].next = c <=> bt[c].before = b
    /\ bt[b].next = c => bt[b].use /\ bt[c].use /\ bt[c].type = "WATCH"
    /\ bt[b].type = "WATCH" /\ Entries(Now, b) # {} =>
         \E m \in Battles : /\ bt[m].use /\ bt[m].type # "WATCH"
                            /\ b \in Behind(Now, m)

(* The turns go on: neither players who give no command nor spectators who *)
(* come and go hold a battle up for ever, as long as they do not keep      *)
(* coming (MaxTries); it plays another turn or it ends.                    *)
TurnsGoOn ==
  \A b \in Battles : \A n \in 0 .. 1 :
    (bt[b].use /\ bt[b].type # "WATCH" /\ bt[b].turn = n)
      ~> (~bt[b].use \/ bt[b].turn # n)
=============================================================================
