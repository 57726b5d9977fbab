# StoneAge server: TLA+ models and proofs

StoneAge is an MMO server in C.  Players connect to game servers (**gmsv**);
all game servers of a cluster talk to one account server (**saac**), which
owns the accounts, the character files, rankings, mail and families.  This
directory models the part of it whose correctness depends on the order of
events: who may play which account where, which version of a character
reaches the disk, how bytes become lines, how a server stops, who is in whose
party, vehicle and battle, and what the ranking and the mail files hold after
a restart.

All paths below are under `src/server/`.

## 1. Inventory

| component | state it keeps | operations | hard behaviour | what makes it correct |
|---|---|---|---|---|
| Lock table (`saac/lock.c`, `lockUser` in `saac/char.c`) | `g_lock`: 256 lists of nodes with a use flag | insert, delete, delete by server, look up | node reuse, growth by 32, calloc failing half-way, colliding accounts | one node per account, bounded lists, behaves as a map |
| Login and sessions (`gmsv/net/net.c`, `common/gmsv_server_recv.c`, `common/saac_client_recv.c`, `common/saac_server_recv.c`, `saac/char.c`, `saac/main.c`) | `Connect[]` (state, cdkey, fdid, close_request), `servstate.fdid`, `gs[]`, the locks, the files | login, character list, character load, logout and periodic save, kick, lock check, unlock, server login and logout | answers that arrive after their connection is gone, two servers loading one account, relogin beside the old session's save, crashes of either side | every wait gets its answer and no other, a double session is ended, the lock covers play, no save loses a newer one |
| Character store (`saac/char.c`) | files `char/<hash>/<id>.<slot>.char` | load, save, list, delete | slots full, names, disk errors, deletion without a lock check | a save replaces the character it names and no other |
| Connection buffers of saac (`saac/main.c` 772-984, `saac/tcp_struct.c`) | one fixed pool of 512-byte buffers (`main.h` 47), two chains for each connection | accept, append, read line, consume, send, close | pool exhausted by one connection, lines longer than the reader's buffer, end of file behind queued lines | lines come out whole and in order, no buffer is shared or lost, a dead connection gives its buffers back |
| Connection buffers of gmsv (`gmsv/net/net.c`, `common/tcp_buffer.c`) | one read and one write array for each connection | append, shift, one line | overflow | as above |
| Shutdown and accept gating (`gmsv/main.c` 243-267, `gmsv/net/net.c` 1925-1954, `common/saac_client_recv.c` 116-167, `StateTable`) | `servstate` (`acceptmore`, `closeallsocketnum`, `limittime`, `dsptime`), `b_first_shutdown` | order, count down, close and save all, count acknowledgements, stop | acknowledgements of earlier saves, a stale `errno`, a GM who closes everything during the count-down | the saves awaited are the saves sent, nobody comes back, the server stops after the last |
| Ranking tables (`saac/db.c`) | a pool of list nodes; for each table a sorted list and a hash table whose chains grow into an overflow area; one file a table | insert, update, delete, rank, flush, read | deleting the head of a chain, growth while a node is held, a file cut short | a key is read as written, its rank is the number above it, a restart gives the ranking back |
| Offline mail (`saac/mail.c`) | `g_mail_buf`, one file a mail | receive, flush, acknowledge, expire, read at start | restart, expiry during delivery | stored mail comes back after a restart |
| Families (`saac/acfamily.c`) | family and member arrays, files | found, join, leave, points | leader leaving, full tables | every member belongs to one family |
| Parties (`gmsv/char/char_party.c`, `char.c` 6407-6473, `npc_bus.c`, `npc_makepair.c`) | `CHAR_WORKPARTYMODE`, `CHAR_WORKPARTYINDEX1`..`5`, `joinpartychar_index` | join, choose between parties, board, leave, dissolve, pair, walk | windows answered at any time and by any index, one's own included, indices reused, vehicles | leader and members agree, whatever becomes of who joined itself; nobody rides without a fare |
| Trade (`gmsv/char/trade.c`) | work fields pointing at each other | offer, confirm, cancel | one side disconnecting between steps | no item duplicated or lost |
| Battle (`gmsv/battle/battle.c`) | `BattleArray`: sides, mode, turn, `pNext`/`pBefore`; a character's battle mode and index | create, rescue, watch, command, turn, escape, end | players leaving in the middle, chains of watch battles that hold up the battle they show | characters and battles agree, the chain stays whole, turns go on |
| NPCs, items, pets, magic, maps | game data | scripts | numeric | out of TLC's reach (data driven) |
| SQL, client, Lua, tools | - | - | - | environment |

**How they interact.**  gmsv and saac are each one single-threaded loop.  A
gmsv has one TCP connection to saac; both directions carry lines, and a line
is handled by one function to its end (`SaacClient_*_recv` in gmsv,
`SaacServer_*_recv` in saac).  saac handles at most one line per game server
and turn (`saac/main.c` 717-756), gmsv up to three per connection
(`gmsv/net/net.c` 3063).  Nothing is shared otherwise, so all interleaving is
between lines on different queues, clients, and crashes.

## 2. Modules

| module | models | role |
|---|---|---|
| `LockMap` | what the locks promise: account -> server or none | abstract specification; `Login` extends it as its lock store |
| `LockTable` | `saac/lock.c`, `lockUser` | implementation of `LockMap` (`RefinesLockMap`) |
| `LockTable_proofs` | - | theorems about `LockTable` |
| `Login` | the login and session protocol of gmsv and saac | core module |
| `Login_proofs`, `LoginPlay_proofs` | - | theorems about `Login` |
| `ByteStreams` | what saac's connection layer promises: two streams of bytes a connection | abstract specification |
| `MemBuffer` | `saac/main.c` 772-984, `saac/tcp_struct.c` | implementation of `ByteStreams` (`RefinesByteStreams`) |
| `MemBuffer_proofs` | - | theorems about `MemBuffer` |
| `Shutdown` | the way a game server stops | alone; the sessions are those of `Login`, reduced to what a shutdown sees |
| `Shutdown_proofs` | - | theorems about `Shutdown` |
| `RankDB` | `saac/db.c` | alone |
| `RankDB_proofs` | - | theorems about `RankDB` |
| `Mail` | `saac/mail.c` | alone |
| `Party` | parties and vehicles | alone |
| `Party_proofs` | - | theorems about `Party` |
| `Battle` | the frame of battles | alone |
| `Battle_proofs` | - | theorems about `Battle` |
| `MCLockTable`, `MCLogin`, `MCMemBuffer`, `MCShutdown`, `MCRankDB`, `MCMail`, `MCParty`, `MCBattle` | - | instances for TLC |

`Login` abstracts the connection layer to queues of lines: `MemBuffer` shows that
lines do leave it whole and in order, and that a connection ends only after its
complete lines were handed out.

### LockTable

`g_lock[b]` is the sequence of nodes of list `b`.  Each action is one call of
a saac handler: `lockUser` with 1 (`charLoadCallback`) or 0 (`charSave`,
`ACLock`, `ACKick` 6; the GM commands and `charLoadCallback` call
`DeleteMemLock` directly, which is the same step), and `DeleteMemLockServer`
(`login_game_server`, GM commands).  `Grow` stands for 32, `Hash` for
`getHash(id) & 0xff`.  The allocation of list heads at start-up is assumed to
succeed, as the code does not check it either.

### Login

State, by owner:

* saac: `registered` (names in `gs[]` whose login was accepted), `lock`
  (`LockMap`), `file` (character of each account on disk);
* gmsv `s`: `up[s]`, `conn[s][f]` (the `GmsvSession` of socket `f`), and
  `nextFdid[s]` (`servstate.fdid`);
* the wires: `toSaac[s]`, `toGs[s]`;
* `client[s][f]`: what the player's program does; `edits`, `crashes`: bounds.

A character's data is the set of changes it contains, so "an older save
replaced a newer one" is visible as a change that disappears from `file`.
There is one character per account.

Each handler of the code is one action with the handler's name.  Several
calls in one handler are one step, in the order of the code: `CharList_recv`
ends the old session (logout save) and then asks for the list; `charLoadCallback`
refuses, unlocks and kicks in one step.  Password and SQL failures, missing
characters, empty or unusable character data, calloc and disk errors are
alternatives of the same action.  `EndOne` may end any connection at any
time, as a client may disconnect, log out or send rubbish at any time; it
*must* happen only where the code ends the connection by itself
(`MustEnd`).

`Polite` selects the environment.  `FALSE`: clients send any request whenever
the connection's state accepts it.  `TRUE`: the account is used from one device, which
opens a new connection only after it gave up the old one, and loads a character only
after the list arrived, as the client program does.

### MemBuffer

`g_mem_buffer`, `_used` and `_finder` are the pool; `g_con[c].ri` and `.wi` the
chains, as the sequence of the buffers their `next` links visit.  Actions are
`Accept`, `Read` (with the decisions of `tcpstruct_accept`: too little memory,
end of file, an append that is refused closes the connection), `Send` (peek,
then consume what the socket took), `Write` (a message is queued whole or
refused whole) and `Line` (`tcpstruct_readline` and what the main loop does with
its result).  Where the code goes through the connections in a fixed order the
model takes any.

`AppendMemBufList` fills the last buffer of a chain up and cuts the rest into
`Piece`s, one for each free buffer met on the way round from the finder (`Turn`);
`Upto` says where the cuts are.  `Consume` takes bytes from the front buffer by
buffer (`Before`, `Left`): the head is kept, emptied or not, and linked to what
follows the last buffer that was emptied, the emptied ones behind it are released
(`main.c` 864-884).  `Lines` maps the chains to the streams of `ByteStreams`:
`open`, `eof`, and the concatenation of the buffers of each chain as `in` and
`out`.

### Shutdown

`conn` holds what matters of a session; `tosaac` and `acks` are the saves and
acknowledgements under way, in order.  `ShutdownProc`, `Loop`, `Minute` and
`DownRequest` are the count-down of the main loop (`hun` is what is left of it),
`CloseAll` is `closeAllConnectionandSaveData`, called by `ShutdownProc` or a GM;
`ACCharSave_recv` takes an acknowledgement and may end the process, which loses
any suffix of what was not sent yet.  `errno` is part of the state because
`_CONNECT_endOne` reads it.  Two ghosts say when the code is known to go wrong:
`skipped` (the connections were closed under a stale `errno`) and `early` (the
acknowledgement of a periodic save ended the wait for the final one).

### RankDB

`db` is the memory: `entry` (the node pool of all tables), and of each table its
top node, its hash array and its finder.  Indices start at 1.  An update is
`dbUpdateEntryInt`/`String` with the search, the allocation, the growth of the
arrays and the relinking in the code's order; `dbFlush` writes every table that
changed, each of which may fail; `CutShort` is a crash while one file is written;
`Restart` reads the files.  `makeStringFromEscaped` works in place: what `dbFlush`
writes of a string table is unescaped in memory too (`db.c` 597), so a text with
escapes changes with every file written, until it has none left (`Unescaped`).  A text
in an integer table only accompanies the number (594) and is left out; so are escaped
line breaks, which would end a line of the file early.  The ghost `written` is what the
game servers last wrote, unescaped as often (`Absent`, the code's -1, for what was never
written or was deleted), `cut` the keys whose hash entry was lost with the head of its
chain.

### Mail

`buf` is `g_mail_buf`, `disk` the files, `mail_id` the counter's file.  Actions are
`Mail_receive`, `Mail_flush`, `Mail_receive_ack`, `Mail_expire` and `Restart`
(`Mail_read`).  Texts and times are left out.

### Party

`ch[c]` holds mode and index array of a character, and whether the work int in
front of the array was written.  `JoinParty_Main`, `DischargePartySub` and
`getPartyIndex` are operators on a state of the characters, so that handlers that
call them twice (`PairUserAndWarp`) compose them.  Where people stand, whether they
fight and whether they refuse company is left open.  The ghost `fare` is the vehicle
that let a player board.

The answer to the choice window is taken as the code takes it: at any time
(`common/gmsv_server_recv.c` 2223-2231), from `joinpartychar_index`, which
`initConnectOne` does not reset, at an index that is not compared with the length of the
list (`char.c` 6421, `net.c` 1504-1514), and without asking whether the player named
itself.  `JoinParty_WindowResult` therefore lets a player name any character, and the
list is not part of the state.  Who names itself becomes a member that is led by a
member, and what the rest of the code relies on is lost for such a party: a leaver may
not find itself in its leader's array (`char_party.c` 504), whoever joins such a party
later may ride in a vehicle that never let it in.  The ghost `mixed` holds the character
indices that ever were in a party with one who joined itself (`Meets`: by joining, or by
joining whoever was).  An index stays in it when somebody else gets it, as old arrays
may still name it.  The properties are about all others.

### Battle

`bt[b]` is `BattleArray[b]`: mode, type, the turn modulo 2, the players of each
side and the links of the watch chain; `pl[p]` the mode, battle index, watch and
death flags of a player.  A battle's part in `BATTLE_Loop` is one action (`Loop`);
the code takes all battles in one pass, so the model interleaves more finely.
A fight's outcome, who is in whose party and which side asks for help are left
open; enemies are one flag, pets are left out.  `BATTLE_OnlyRescue`'s
uninitialized flag (`battle.c` 4833), and who has HP left when it is set, are a
nondeterministic choice.  `CreateVsPlayer` refuses what the code refuses: members and
leaders of a party a duel with themselves, but not who is in none.  That player is
entered on both sides (`battle.c` 2924-2928), and `_BATTLE_Exit`, which searches both,
takes it out of both.  `PreCommandSeq` (the opening and every turn's end) sets all watch
battles behind the battle to WATCHPRE, whatever mode they are in, so the WATCHAFTER
that `BATTLE_Battling` sets never lasts to a watch battle's own pass.

## 3. Runs

| run | instance | shows |
|---|---|---|
| `lock_table` | 4 accounts (3 in one bucket), 2 servers, growth by 2 | types, uniqueness, boundedness, refinement of `LockMap` |
| `login_one` | 1 server, 2 sockets, 3 connections over time, 2 edits, 1 crash, polite | `OneAnswerPerWait`, `LockCoversPlay`, `NoLostUpdate` |
| `login_two` | 2 servers, 1 socket each, 2 connections each, 1 crash, any client | `OneAnswerPerWait`, `DuplicateIsKicked` |
| `login_live` | 2 servers, 1 connection each, 1 crash, fair | `DuplicateEnds`, `StaleLockReleased`, `WaitEnds` |
| `login_cannot` | 2 servers, fair | violation: `CannotLoginEnds` (finding) |
| `login_unlock` | 2 servers | violation: `UnlockOnlyIfApHasNone` (finding) |
| `mem_buffer` | 2 connections, 5 buffers of 2 bytes, fair | pool, chains, refinement of `ByteStreams`, release |
| `rank_db` | 3 keys (2 in one chain), one integer and one string table, 4 nodes | pool, ranks, look-ups, restart |
| `party` | 4 players (symmetric), 1 vehicle, 4 seats, 2 mixed at most | agreement, no wild write, passengers, for all others |
| `shutdown` | 2 connections, 3 sessions over time, shutdown at once or in a minute, fair | the count, nobody comes back, no save lost, the end |
| `battle` | 2 players, 3 battles, 2 seats a side, fair | agreement, duels, watch chain, turns |
| `mail` | 2 recipients, 1 game server, 2 mails | violation: `StoredMailIsReadBack` (finding) |

**Properties.**

* `OneAnswerPerWait`: a connection in a WHILE state has exactly one request or
  answer under way, of the type that state waits for; any other connection has
  none.  The answer handlers do not check the state (`ACCharLoad`,
  `ACCharList`), so the protocol rests on this.
* `DuplicateIsKicked`: whenever an account is, or is about to be, in play on two
  servers, all its characters on at least one of the two are marked for closing or have a kick
  queued behind them.  `DuplicateEnds`: and so the situation ends.
* `LockCoversPlay`, `NoLostUpdate`: for one server and one device, play is
  always covered by the lock, and no save removes a change from the file.
  With **two** servers both fail, even for one device: the lines of two
  servers are not ordered, so a logout save can arrive after another server
  has loaded and saved the character (see the hazards in PROJECT.json).  They are
  therefore stated for one server.
* `StaleLockReleased`: a lock without a session is given back once the lock's
  server has been asked.
* `WaitEnds`: no connection waits for authentication, list or load for ever.
* `BuffersOwned`: a buffer in use is linked exactly once, an unused one nowhere, and
  the count `getFreeMem` relies on is exact.  `NothingEmptyBehindHead`: an idle
  connection costs its two heads and no more.  `RefinesByteStreams`: nothing is
  lost, reordered or mixed, and the end of the input is acted on only when no
  complete line waits.  `ClosedIsReleased`: a connection whose peer is gone gives
  its buffers back.
* `PoolConsistent`: lists and hash chains of all tables share the node pool
  without sharing a node.  `RankIsCountAbove`: the rank reported is the number of
  larger values.  `ReadBack`: the value last written is the value read, a text unescaped
  once for each time its table was written to its file since; the exception is a key in
  `cut`, which reads as absent.  `RestartRestores`: reading the files gives the
  ranking they hold, except where a key stands in its file twice (a key that was
  cut off and written again).
* `PartiesAgree`: a member's leader lists it and whom a leader lists is led by it,
  whatever a choice window is answered.  `NoWildWrite`: the loop that
  looks a leaving member up in its leader's array finds it; the test for
  the other case (`char_party.c` 500) can never be true, and behind it slot -1 is
  written.  `PassengersPaid`: a vehicle carries exactly whom it let board.  All three
  are about characters outside `mixed`, and the first one also says that no party has
  members of both kinds.
* `CountIsAwaited`: `closeallsocketnum` is the number of awaited connections, and
  always at most that number.
  `NobodyComesBack`: after the closing nobody is or gets in.  `NoSaveLost`: when the
  process ends, every final save has reached saac.  `ShutdownEnds`.  All four
  except `skipped` (of `CountIsAwaited`, the equality only), and `NoSaveLost` also
  `early`: in these cases the code does lose
  saves, waits for saves nobody sent, or lets players stay (`net.c` 894,
  `saac_client_recv.c` 149).
* `EntriesAgree`: a player stands among the entries of the one battle whose index it
  carries, and on both of its sides only if it duels itself.  `DuelsAreClosed`: nobody
  joins a battle between players, no side is overfull.  `ChainsIntact`: `pNext` and
  `pBefore` name each other, and whoever watches hangs behind a battle that is no watch
  battle.  `TurnsGoOn`: a battle plays another turn or ends.

**Bounds.**  `MaxFdid` bounds the connections a process accepts, `MaxEdits`
the changes, `MaxCrash` the crashes (of any process), `MaxLine` the lines under
way while clients and the save timer act; handlers are never blocked by it, as every guard
that uses it is a client's or a timer's.  Three lines let a request, an answer
and a kick be under way together; two sockets let a relogin meet its old
session; two servers let two loads race.  One account is enough: handlers
touch only the account they name, and no queue is shared by accounts in a way
that reorders them.

`MemBuffer`: five buffers are one more than two connections need for their heads, so the
pool runs out, a chain grows to two and either connection can take the last buffer.
`MaxQueue` bounds the bytes queued before a peer sends more; `PeekSize` of 3 is less
than a message with what is queued before it.  `RankDB`: two keys in one chain and a
third elsewhere let a chain's head and its tail go; arrays grow by one (`Grow`), so
every growth happens; `Unescape` takes a text with two layers of escapes to one with one
layer and that to one without; with four nodes in use (top nodes included, `MaxNodes`)
nothing more is written. `Party`: four seats let a party be full with four players, and
with the vehicle in front a player be refused.  `MaxMixed` of 2 lets a player join
itself, be joined, log out and be replaced, beside two others; with 3 there is nobody
left to agree with but one.  `Shutdown`: three sessions on two descriptors let a
descriptor be reused while its old save is awaited; `MaxPending` of one periodic save is
enough to mistake its acknowledgement, and `MaxOrders` is 1 (with 2 the safety
properties were checked once, in 1,304,352 states; the proofs cover every number).

`Battle`: three slots hold a fight, the rescue of one side or
two spectators' watch battles behind it; `MaxFights` of 1 means one battle that is not
a watch battle at a time, so battles that exist beside each other are not
explored (they share no state but the slots), and `MaxTries` of 2 lets a second
spectator come while the first goes.  With two players no side of two seats can be
overfilled, so that part of `DuelsAreClosed` is shown by the theorem alone; its run is
about rescuers.  Three players, or two fights, take longer than a few minutes.

Where the bounds, or the system itself, let everything come to rest (`Login`,
`MemBuffer` with nobody connected and nothing free, `Shutdown` after the end, `Mail`
when no more may be written), the runs do not check for deadlock; the liveness
properties are what would show something stuck.  `LockTable`, `RankDB`, `Party` and
`Battle` are checked for deadlock.

**Fairness.**  Both loops read every connection that has a line, so the
handlers of one process are weakly fair as a group per queue; the game
server's loop ends a connection whose client is gone or whose `close_request`
is set on its next turn (`net.c` 3016-3037, 3214); a game server that stopped
is started again.  Nothing is assumed of clients, of the save timer or of
crashes.

`MemBuffer`: the main loop asks every connection for a line on every pass
(`saac/main.c` 703-756): `WF(Line(c))`.  Reading and sending depend on the peer and
get no fairness.  `Shutdown`: the loop runs `ShutdownProc` and `netloop_faster` on every
pass (weak fairness); saac stores saves and the server reads the
acknowledgements (weak); minutes pass (strong, because `Minute` waits until the
loop has seen the last one: the model assumes a pass in every minute, see
the hazard at `gmsv/main.c` 261).  `Battle`: `BATTLE_Loop` passes every battle
over and over, and a command is waited for no longer than 120 seconds:
`WF(Loop(b, TRUE, FALSE))`.  That a whole hour goes by without a turn is allowed and
never relied on.  `RankDB`, `Party` and `Mail` state no fairness: they promise
nothing about time.

**Findings.**

1. `CannotLoginEnds`: a connection whose character cannot be built asks saac to
   unlock the account.  If the lock is already gone, saac answers
   `不能移除锁定` (`saac/char.c:742`); gmsv expects `<cdkey> hasn't been locked`
   (`saac_client_recv.c:226`) and sends the request again, for ever.
2. `UnlockOnlyIfApHasNone`: `saac/char.c:99` says the lock is dropped when the
   game server has none; the code drops it at once, also while the account is
   in play.
3. `StoredMailIsReadBack`: `saac/mail.c:334` says the start-up scan skips `.` and `..`;
   the test in line 335, `d_name[0] != '.'`, skips every other name.  After a
   restart no stored mail is in the buffer: it is neither delivered nor does it
   expire.  With the test the comment describes the property holds in the same
   instance.

## 4. Proofs

Every safety property of a passing run is a theorem.  The runs show each on a
small instance, the theorems for every value of the constants that satisfies the
assumptions named.

### LockTable

`LockTable_proofs` proves, for all sets of accounts, servers and buckets, every
hash function and every growth:

* `LockTableTypeOK`: `Spec => []TypeOK`;
* `LockTableUnique`: `Spec => []AtMostOneNode`.  `AtMostOneNode` is inductive
  with `TypeOK`: an insertion is guarded by `isLocked`, which looks at the
  same list, and uses a node whose flag is clear;
* `LockTableRefinesMap`: `Spec => RefinesLockMap`.  The argument is that the
  first match is the only match (`AtMostOneNode`), so clearing it removes the
  account from the view, that appended nodes hold nobody, and that clearing the nodes of a
  server changes the view exactly where it named that server;
* `LockTableBounded`: `Spec => []ListsBounded`.  A list grows only when every node
  of it is in use; then, as no account has two nodes, its nodes map one to one into
  the accounts of its bucket: it is no longer than their number, and `Grow` is added.

Assumptions: `LockTableAssumption` (the hash maps accounts to buckets, the
sentinels are not accounts or servers, growth is positive, and the accounts are
finitely many, as what `char cdkey[16]` can hold is).

### Login

`Login_proofs` proves, for all sets of servers, sockets and accounts, both
values of `Polite` and every bound:

* `LoginTypeOK`: `Spec => []TypeOK`;
* `LoginOneAnswerPerWait`: `Spec => []OneAnswerPerWait`.

Neither is inductive.  A request carries the account name of its connection, so typing
needs that a connection past NULLCONNECT has a name; the answer handlers set the state
without looking at it, so that needs `OneAnswerPerWait`; and that needs that nothing is
under way about an fdid not given out yet, that fdids differ, and that a server that is
down has no connections and no answers. The invariant `Inv` is `TypeOK` with these facts
for every server (`ServerOK`).  `ServerOK` is written over the state of one server, so
each action is one of four moves of lines: none about a connection moves (`KeepServer`),
a connection asks (`AskStep`), saac moves a request to an answer (`AnswerStep`), the
server takes an answer (`ReceiveStep`); `OtherServers` covers the servers that only get
kicked or asked.  `MaxLine` and the other bounds play no role in the argument. `Inv` was
model-checked on the instance of `login_two` before it was proved.

Assumptions: `LoginAssumption` (`NoKey` is no account, the bounds are numbers)
and `NoServerAssumption`.

`LoginPlay_proofs` proves `LoginDuplicateIsKicked`: `Spec => []DuplicateIsKicked`,
for every number of servers.  `DuplicateIsKicked` speaks of pairs of servers, and a
load concerns all of them, so the invariant `KickInv` adds to `Inv`:

* `KickOK` of every server: one that is up is known to saac, or its login is
  still the first of its lines and nobody plays there (`Fresh`: otherwise a kick sent
  to the registered servers would miss it), and no closing of its line is under way;
  a request to load names the account of its connection, whatever became of the
  descriptor in the meantime (`Named`);
* `OneDoomed`: of any two servers, one throws the account out: whoever plays it is
  marked for closing or has a kick before it, and whatever answer brings a
  character into play is followed by a kick.

Nearly every step leaves each doomed server doomed (`Calm`): connections leave the
game freely, and enter it only by an answer, which is one that was already
counted.  A successful load is the exception (`CharLoadRecvKick`): it makes one
server live and sends a kick to all others that are registered; those that are
not are `Fresh`.  Neither the locks nor the manners of the clients matter.
`KickInv` was model-checked on the instance of `login_two` before it was proved
(without symmetry, 1,606,184 states).

It also proves `LoginLockCoversPlay` and `LoginNoLostUpdate`: `LockCoversPlay` and
`NoLostUpdate` for at most one game server (`\A s, t \in Servers : s = t`) and polite
clients (`Polite`), with any number of sockets, accounts, edits and crashes.  Both
hypotheses are what the properties are about (section 2): with two servers, or
two devices on one account, a save of the one unlocks the account under the other.
Nothing in the code looks at lock, file and connection at once, so the invariant
`HeldInv` follows them through both wires, account by account (`Held`):

* `InPlay`: whoever plays has the lock, no request under way can take it away, and the
  character has every change on disk and in the saves under way.  This is what the
  theorems say, and the other parts are there to make it inductive;
* `Growing`: the saves under way hold what the file holds, and each what the ones
  before it hold, so that the file grows whichever of them are lost in a crash;
* `LastWord`, `Arriving`: behind a request to load there is neither a save nor an
  unlock of its account, and none is left when the answer is on its way: what
  arrives is the file, and locked;
* `GivingBack`: who gives the lock back (WHILECANNOTLOGIN) finds it: no second
  answer can free somebody else's;
* `OneAtATime`, `ListLast`, `Granted`, `Signed`: how the polite device gets there.
  It opens a connection only when the one before is given up, and chooses a
  character from a list; saac answers a list with success only when the account is not
  locked, and lines are handled in order, so whatever the connection before still
  waits for is refused or done when the list arrives.

The steps are again few: connections go back (`HeldBack`), a line that is not about the
account moves (`HeldSent`, `HeldLessAsked`, `HeldLessTold`), a save is sent
(`HeldSaveSent`), or the lock is given back (`HeldLockSent`); the handlers of a load, a
list and a lock check have their own.  `HeldInv` was model-checked on the instance of
`login_one` before it was proved (559,792 states).

### Party

`Party_proofs` proves, for all sets of players and vehicles and every number of
seats, everything the run `party` checks: `PartyTypeOK`, `PartyPartiesAgree`,
`PartyNoWildWrite` and `PartyPassengersPaid`.  None of the last three is inductive.

The invariant is `Sound` of the characters outside `mixed` (`Clear`).  When a party
is dissolved its members become members of nothing, and one that still listed
somebody would then break the agreement: `Sound` says that whoever does not lead
lists nobody.  A vehicle must never become a member of anything, or its passengers
would be led by somebody else; a clear character is never a member of itself; and
`fare` must agree with the modes.  What the others list or are led by is not
restricted at all: the invariant says only that their links and those of the clear ones
never meet.  That `Meets` makes a whole party mixed as soon as one of it is, is what keeps
it so.  There is one lemma for each operator on a state of the characters,
which says which fields it changes, then what it keeps; each action is a composition
of them.  The code takes the first free slot: that a set of slots has a least
element is proved from `FiniteSetTheorems`.  The answer to a window needs no
invariant about what the window offered: `Answerable` asks everything again but whom it
names, and the proof shows that this is enough for those outside `mixed`.

Assumptions: `PartyAssumption` (players, vehicles and `None` are apart, and a party
has at least two seats, `MaxMixed` is a number).

### MemBuffer

`MemBuffer_proofs` proves, for every number of connections, any pool, any size of
buffers, and whatever is read and written: `MemBufferTypeOK`,
`MemBufferBuffersOwned`, `MemBufferNothingEmptyBehindHead`, and the refinement
`MemBufferRefines`: `Spec => RefinesByteStreams`.

The invariant `IInv` sees the pool and the chains as one relation of ownership
(`Pool`): whatever a chain holds is in use (`InUse`), no buffer stands at two
positions (`Apart`), every buffer in use stands at one (`Reached`), behind a head no
buffer is empty (`Full`), and the count is exact (`Counted`); a connection in use
has its two heads (`Headed`).  `getFreeMem` looks at the count alone, so that an
append that was let through finds as many free buffers as it cuts pieces rests on
`Counted`: going round from the finder numbers the free buffers, one to one, and
the pieces take the first of them.

There is one step lemma for each operation on chains: `AppendStep`, `ConsumeStep`,
`CloseStep` and `AcceptStep`.  Each says that `Pool` holds again, what became of the
text of its own chain, and that every other chain keeps its text, which is what
`Apart` is for; the steps of `ByteStreams` follow from the last two.

What a chain holds is the concatenation of its buffers, which the community
modules define by recursion over the sequence.  The first section reaches it by
partial sums: it proves that they exist and that they are what `FlattenSeq`
chooses, by an induction that is stated of a *set* of natural numbers (`Induction`,
from the well-foundedness of `<`) and so needs no operator as a parameter; then
`FlatAppend` (filling the last part up and adding parts makes the text longer
by just that) and `FlatDrop` (taking from the front, part by part, drops just that).

Assumption: `MemBufferAssumption` (sizes are positive, connections are numbers as
the code's loop has it, inputs are sequences of bytes that are not empty).

### Shutdown

`Shutdown_proofs` proves, for every number of connections, orders, minutes and saves
under way, the safety properties of the run: `ShutdownTypeOK`,
`ShutdownCountIsAwaited`, `ShutdownNobodyComesBack` and `ShutdownNoSaveLost`.  The
invariant ties together what the code keeps apart.  `ShutOK`: once an awaited
connection's character is saved, no others are in use, `accept` is off and `errno`
is clear, because the closing that saved it went through the whole table.
`ClosedOK`: unless a stale `errno` was met, either nothing was closed yet and nobody
is awaited, or the server has been shut since.  `CountBound` holds even then:
acknowledgements that release nobody count nothing down.  `OldFirst` is what makes
`NoSaveLost` inductive: the last save of a player who left earlier stands before
every awaited one, and lines are sent in order, so the acknowledgement that ends
the wait says that the older save arrived too.

Assumption: `ShutdownAssumption` (finitely many connections, the bounds are numbers).

### Battle

`Battle_proofs` proves, for all sets of players and battles and any number of seats, the
safety properties of the run: `BattleTypeOK`, `BattleEntriesAgree`,
`BattleDuelsAreClosed` and `BattleChainsIntact`.  The invariant `Good` is a predicate of
a state of the players and battles, since a handler composes several operations. It adds
to the properties that a free slot is blank (`Blank`: a new battle inherits no link),
that at most one player stands on both sides of a battle (`Single`), that only a battle
between players has players on its second side (`Seated`), that a battle is linked only
to a watch battle in use (`Linked`), and that no chain leads back to its beginning
(`Founded`: otherwise deleting the battle in front would leave spectators who wait for
each other).  Each operation keeps `Good` because it only sends players away
(`LeaveStep`), lets in players who are in no battle, or one who is on the other side of
this one already (`EnterStep`), changes nothing but modes (`ModeStep`), or links or
unlinks one battle (`LinkStep`, `DeleteStep`).  What is behind a battle is the least set
closed under `next`, so that what an operation does to it needs no induction.

Assumption: `BattleAssumption` (`None` is neither a player nor a battle, finitely many
players, at least one seat).

### RankDB

`RankDB_proofs` proves, for any finite set of tables, any keys, values, hash
function, number of primary entries and growth of the arrays, the five properties
of the run: `RankDBTypeOK`, `RankDBPoolConsistent`, `RankDBRanks`, `RankDBReadBack`
and `RankDBRestart`.

None of them is inductive, and what they say is said with recursive walks.  The
invariant, `RankInv`, is therefore stated without any walk.  `Sound(d, o, c)` says
of a memory `d`, with a labelling `o` of the nodes by the table that owns them and
`c` of the hash entries by the chain they are on (0 when they were cut off):

* `Linked`, of the pool with `o` and of each hash array with `c`: `next` and `prev` of
  what is in use agree, stay within one label, and some rank falls along `next`, so
  that every walk ends;
* `Ranked`: of a table only the top node has nothing before it, and in an integer table
  no value is larger than the one before it;
* `Chains`: a chain starts at its primary entry, and no key is on its chain twice;
* `Joined`: the hash entries in use of a table, those cut off included, name its nodes
  without the top node, one each.  That a cut off entry still names its node is
  why a key that is written again stands on the list twice, and why nothing else is
  lost with it.

`RankInv` asks for such `o` and `c`, for files of integer tables whose values never rise
(`FilesOK`), for every file and every value written to be well formed, and for
`ReadBack`.

The proof climbs in layers.  Over finite sets, a recursion along a falling rank has
a solution (`RecursionExists`), the `CHOOSE` behind a recursive function picks one,
and two solutions agree: this gives the walks of `tableGetEntry`,
`InsertPosition`, `UpPosition`, `DownPosition` and `Listing` their meaning.  Linking,
unlinking, taking and releasing a cell are shown to keep `Linked`, once for nodes and hash
entries alike.  Then each operation of `db.c` is shown to keep the memory sound, to do
to its own key what its name says, and to leave what the other tables hold alone;
`NewEntry`, `Moved` and `dbDeleteEntry` are the large ones.  A deletion labels the entries
behind the primary entry it frees 0, and these are the keys `cut` gains.

For `RestartRestores` the two folds of `dbRead` are sequences of memories, one for each
line and one for each table.  A file of an integer table was written in list order, so
its values never rise and neither do those of its beginning (`FallingPrefix`: a file cut
short); a line whose value is no larger than any on the list, and whose key is new
(`Once`), goes to the end of the list (`AtEnd`), so that after each line the list is
what was read. That reading a table leaves the others alone makes the order of the
tables irrelevant.

Assumption: `RankDBAssumption`.  There are finitely many tables (`dbt[MAXTABLE]`) of
two kinds, values are natural numbers below some bound (they have the width of an
`int`; the top node's is 0x7fffffff), the hash function selects a primary entry,
arrays grow by at least one, and `Unescape` turns a text into a text (nothing else is
asked of it).

### Only model-checked

* Liveness, which is out of the prover's reach: `DuplicateEnds`, `StaleLockReleased`,
  `WaitEnds`, `ClosedIsReleased`, `ShutdownEnds`, `TurnsGoOn`.
* The properties of the runs that expect a violation, naturally.

## 5. Not modelled

* Creating and deleting characters, slots and names of the character store
  (planned, below).  `_OFFLINE_SYSTEM` (characters that stay without a
  connection) is not defined in this build and left out.
* Trade.  The client of this repository sends the fifteen-item format
  (`src/client/stoneage/system/menu.cpp` 860), the server as built parses the
  six-entry one: no trade between these two programs exchanges anything, and a model of
  one side against an invented partner would show nothing about either.
* Families: counters and flat arrays, each written by one handler and
  read back as records (planned, with lower priority).
* The buffers of gmsv: one array a connection, a bounded copy of `ByteStreams`
  without a pool.
* `StateTable`, by which `accept` refuses clients under load: it is a statistic that
  may be stale and is corrected by the next `CONNECT_setState`.
* What a turn of a battle does to whom, experience, items, pets, magic, NPCs and
  maps: numeric and driven by data files.  This is most of the source by
  lines: of the C code, the battle events, the item events, the NPC scripts and
  the client programs (rendering, menus) alone are the largest part.
* SQL, the client, Lua and the tools: the environment.  The SQL account store is
  an alternative of the actions that ask it.

## 6. Plan

1. `CharStore`: slots and names (`getCharIndexByName`, `findBlankCharIndex`,
   `charSave`, `charDeleteCallback`, CreateNewChar and CharDelete of gmsv) and
   their composition with the session states; property: a save never replaces another
   character.
2. `Family`.

Each new module gets an MC module, a type invariant and properties for the
hazards listed for it.
