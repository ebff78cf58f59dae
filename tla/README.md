# A TLA+ model of the HysteriaCore cluster

The repository is a fork of TrinityCore that spreads one game realm over several
processes. A **hub** (`src/src/server/shade`, built as `proxyserver`) accepts the game
clients, keeps one `ClientSession` per account and passes packets on to **nodes**
(`src/src/server/game`, built as `worldserver` and `pvp_node`), each of which runs a
part of the world's maps. This directory models the clustering: the control
link between hub and nodes, the bytes of a connection, the life of the client sessions in the
hub, the routing of a player between nodes, and what the hub keeps for all nodes: the players,
their chat channels and guilds, and the renumbering of the items in the database.
Paths below are relative to `src/src/server/`.

## 1. Inventory

| Component | State | Operations | Talks to |
|---|---|---|---|
| `RoutingHelper` (`shade/Server/RoutingHelper.cpp`) | `m_nodelist` (online, can_enter, last ids), map table, `m_OnMaster` | LoadNodeList, ConnectToMaster, SetNodeOnline/Offline, RefreshOnlineStat, SetLastGUID, ... | database `nodelist`; called by all sessions |
| `ControlSession` (`shade/Server/Control`) | one socket per node, a reconnect flag | Update, reconnect, handlers for challenge, auth response, init ack, sync data | the node's `PoolSession` by TCP |
| `PoolSession`, `PoolSessionMgr`, `PoolSocket` (`game/Pool`) | sessions of the hub, packet queue | AddSession_, Update, Handle_LOGON_INIT_NODE, SendGUIDSync | `ControlSession`; `ObjectMgr` |
| `Socket` (`shade/Server/Generics`), `PoolSocket` | send buffer, output queue, packet being read, packet queues | SendPacket, handle_output, handle_input, schedule and cancel of the wakeup | the reactor; all sessions |
| id counters of `ObjectMgr` (`game/Globals`) | `_hiItemGuid`, `_mailId`, `_hiCorpseGuid`, `_hiRange` | GenerateLowGuidWhenNode, GenerateMailIDWhenNode | seeded by the hub |
| `Master` (`worldserver/Master.cpp`) | `nodelist.Online` | start, stop | database |
| `ClientSessionMgr`, `SessionUpdater` (`shade/Server`) | session map, add queue, login queue; a set, a queue and a counter per updater thread | AddSession, Update, AddSession_, RemoveQueuedPlayer, UpdateDynamics, ServerClose; svc | socket threads, world thread, updater threads |
| `ClientSession` (`shade/Server/Client`, `shade/Character`, `shade/Handler`) | flags, `_nodeId`, `_NodeSocket`, `_player`, login callback, timers | UpdateMulti, UpdateSingle, opcode handlers | `RoutingHelper`, the node's `WorldSession` |
| node `WorldSocket`, `WorldSession` (`game/Server`, `game/Handlers`) | what the player's connection has got to | HandleAuthSession, player login, logout, transfer | the hub |
| hub `ObjectMgr`, `Player` (`shade/Objects`, `shade/Character`) | `m_PlayerMap` with a queue of new and one of old players; channels and guild of a player | Player_Add, Player_Del, Update, CleanupChannels | sessions, channels, guilds |
| `Channel`, `ChannelMgr` (`shade/Chat`) | members with flags, owner, bans, password; names per team; table `channels` | join, leave, kick, ban, unban, password, modes, owner | players by guid, through `ObjectMgr` |
| `Guild`, `GuildMgr` (`shade/Guilds`) | members, leader, ranks; tables `guild`, `guild_rank`, `guild_member` | the guild opcodes, LoadGuilds with Validate | players, the global player data, nodes |
| `RebaseClass`, `Logon` (`shade/Database`, `shade/Proxy`) | rebase and halt timers, halt event, `_ItemMap`, ten tables and their copies | _UpdateGameTime, UpdateTimers, Begin, Cleanup | database worker, two threads, nodes |
| petitions, tickets, calendar, arena teams, social lists, Warden, battleground queue of the hub | | | not modelled (section 8) |
| game world, scripts, authserver, libraries | | | not modelled |

What is hard in this system:

* **Two threads per session without a lock.** The world thread runs `UpdateSingle`, an
  updater thread `UpdateMulti`; they share the flags, `_nodeId`, `_NodeSocket` and `_player`.
  A third, the socket thread, creates the session.
* **Reference counts by hand**, dropped by three kinds of threads.
* **Failure of nodes and connections** at any point of a login, a transfer or a logout, and
  of the control link while ids are drawn. Reports of ids may be lost.
* **Partial writes and a queue at its limit**, and a wakeup registered after the lock is released.
* **One number space, many drawers**: nodes draw item, mail and corpse ids without asking.
* **Pointers one way, ids the other**: players point to channels, channels name players by guid,
  and the map between them follows through two queues.
* **Several copies of one fact**: the guild of a player is in the guild, the player, the global
  data, the database (behind a queue of statements) and every node.
* **A crash in the middle** of a disbanding, a change of leader, or the rewriting of ten tables.
* **Uninitialised fields** (`can_enter`, `LastCorpseID`, `_hiRange`, `m_GuildIdInvited`,
  `CONFIG_PRESERVE_CUSTOM_CHANNELS`, `CONFIG_RESTRICTED_LFG_CHANNEL`) and 32-bit wrap.
* **Something must happen in the end**: a node is opened again, a packet arrives, a session is
  freed, a player gets into the world, the realm is opened after the rebase.

What makes each part correct: nodes draw distinct ids and are never set back; clients are
only routed to nodes that are connected and seeded; packets arrive once and in order; no session
is deleted while somebody can reach it and each is deleted in the end; the login queue keeps the
player limit; a session has one node connection, to the node it belongs to, and never stays
without one; channels and players agree on who is where; a guild has one leader, and memory and
database agree on it; the rebase loses nothing. `PROJECT.json` lists the hazards line by line.

## 2. Modules

| Module | Models |
|---|---|
| `ControlLink` | hub and nodes: node list, control link, seeding and drawing of ids |
| `ControlLinkProofs` | the theorems about `ControlLink`: ids and the link; seeding |
| `PacketChannel` | what a connection promises: a lossy-only-at-its-limits FIFO channel per class of packets |
| `SocketStream` | one direction of a connection in bytes; implements `PacketChannel` |
| `ClientSessions` | `ClientSessionMgr`, the updater threads, reference counts, login queue |
| `SessionRouting` | one player's session, its two threads, its node connections, the nodes |
| `Channel` | one chat channel as a value, its operations as functions |
| `ChatChannels` | sessions, players, the player map and the channels; uses `Channel` |
| `Guilds` | guilds, players, database, a node |
| `Rebase` | timers, halt and renumbering of the items |
| `SocketStreamProofs`, `ClientSessionsProofs`, `SessionRoutingProofs`, `ChatChannelsProofs`, `GuildsProofs`, `RebaseProofs` | the theorems about these modules |
| `DataLemmas` | facts about natural numbers, sequences and orders of finite sets that the proofs share |
| `MC*` | instances for TLC |

The models are separate because they share little state. `ControlLink` and `SessionRouting`
take a connection as the FIFO queue that `SocketStream` is shown to implement. `SessionRouting`
contains the part of `ControlLink` that a session sees (a node goes offline, is online again, is
opened to clients), `ClientSessions` the part of `SessionRouting` that the manager sees (the kick
flag is set, or wiped by a logout), and `ChatChannels` the part of `ClientSessions` that a player
sees (the session is replaced, erased, deleted).

### ControlLink

Per node `n`: `online`, `canEnter`, `last` are the fields of `NodeList`; `sock` is the hub's
`m_Socket` (absent, connected, dead but not noticed, closing); `toHub`, `toNode` are the
packets of the connection; `pend`, `sess`, `recvQ` the node's `addSessQueue`, session and
packet queue; `range`, `cur` the id counters; `db` the row of `nodelist`. Handlers are
actions with their source names. `Stop`, `BreakLink`, a refused login and a `realmlist` without
the hub's row are the faults, at most `MaxFaults` of them. The last ends the hub: the handler closes the socket
and reads the missing row all the same (`Handle_SMSG_AUTH_CHALLENGE_NoRealm`; every `sock` is then `ended`). Packets queued on a socket that closes are lost (`DropQueued`), as
`Socket::GetNextSinglePacket` and `GetNextMultiPacket` return false on it. A connection that dies is noticed later
(`HandleClose`), and until then its packets are still handled. Ids are words of `Wrap` values
(`Add32`); an uninitialised word is any of `Garbage`.

History variables: `issued` (ids drawn), `given` (counters the hub has seeded since the boot),
`assigned` (`can_enter` has been written), `early` (a node drew before it was seeded),
`unsynced` (an id never reached the hub, or was drawn by a session that had not been seeded),
`wrapped` (an addition passed 2^32). No action reads one except to extend it.

### ClientSessions

`refs` and `status` are the reference count and the life of a session; `held` says that
`_handleAuthSession` has not returned. `map`, `queue`, `addQ` are the manager's containers,
`newQ`, `set`, `counter`, `sleep` those of the updater threads. The world thread's `Update` is
cut where another thread can come in between: per session, and within `UpdateSingle` between
the test of the kick flag, the node's packets (`LogoutComplete` wipes the flags) and the test of the
socket. `AccountsAssumption` says that the accounts are finitely many and fewer than `Word`: an
account id is a `uint32` other than 0. The loop over an updater's set is cut per session, `SetSleep` between its test and its
clearing. `m_Counter` and the flags are atomic in the code and one step each here.

### SessionRouting

`upc` is the place of the updater thread in `UpdateMulti`, `wpc` that of the world thread in
`Handle_SMSG_LOGOUT_COMPLETE` and in a kick; every write of shared state in these two is a step
of its own. `conn` holds the `NodeSocket` objects, each with its two packet queues and with
what the node at the other end has got to (`new`, `authed`, `world`, `leaving`). `_sessionflags`
is a set of flag names. `OtherConnectToMaster` stands for all other sessions, which share
`m_OnMaster`.

Abstractions: the reconnect timer may run out at any time while the flag is set; the reads of
`_nodeId` within one reconnect are one; connect and assignment of the socket are one step; a node
that refuses the authentication closes the connection; the client stays connected (hanging up
is in `ClientSessions`); packets that are passed through unchanged are left out.

A client packet that is passed on and handled is two steps, since the node may answer in
between: `HandlePacket` sends it (`ClientLogoutRequest`, `ClientLogoutCancel`) and then calls the handler, which
changes the flag. `CMSG_PLAYER_LOGIN` may come at any time and drops the player that is there. A node may refuse a
login for an old session that it still has (`refused`); the player then waits at the character screen. History
`dropped`: on this connection the hub has dropped an `SMSG_LOGOUT_COMPLETE`.

### SocketStream and PacketChannel

A byte is a pair of packet and offset. `out` and `queue` are the send buffer and ACE's message
queue, `wire` what the kernels hold, `got` the packet that is being read, `rq` the queues of
received packets. `hub` chooses the direction: the two ends differ in how they register for
output. At the hub `SendPacket` registers under the lock; at the node `m_OutActive` is set under
the lock and the reactor called after it (`reg`), and the network thread polls while it is
not set. `again` is the value `ACE_Event_Handler::WRITE_MASK` that `handle_output` returns to be
called once more. The reactor does not call without need (spurious writability is left out).
`PacketChannel` promises order within a class only: the hub's socket sorts packets into one queue
for the world thread and one for the updater thread, and nothing orders the two.

### Channel and ChatChannels

`Channel` is a record and functions on it, with C++'s `players[guid]`, which adds a missing entry.
In `ChatChannels` `state`, `player`, `loading`, `adding` are the session's, `of` and `chans` the
`Player` objects', `newPlayer`, `delPlayer`, `map` those of `ObjectMgr`, `heap` and `mgr` the
channels and their names per team. The world thread runs `ObjectMgr::Update` and
then handles packets (`phase`); an updater thread finishes logins and destroys sessions between
any two steps. `config` says which of the uninitialised `CONFIG_PRESERVE_CUSTOM_CHANNELS` and
`CONFIG_RESTRICTED_LFG_CHANNEL` are true.

The kind of a channel is what the id is that its creator has sent: 0 (`custom`), one that ChatChannels.dbc does not have
(`unknown`), one that it has (`builtin`), or an LFG channel. The constructor asks the file, `IsConstant` only
whether the id is 0, and an `unknown` channel is custom to one and constant to the other. `Stored` is the table
`channels` at the start of the hub, and stays what it is: `CHAR_INS_CHANNEL` and `CHAR_UPD_CHANNEL` have fewer
parameters than the hub binds, and `CheckValidIndex` stops the process when the worker thread comes to such a
statement, which ends a behaviour. So a channel that is made again has the bans of the table, not those that were
made in it.

History `irregular`: characters for whom a login came while the session had a player, an
opcode while the map had not the player, or whose entry was not that of the removed player; what
the class then does is undefined, and the properties about pointers leave them out.
`CleanupChannels`, a loop over the player's channels, is written as its effect on all of them at once
(`LeaveAll`, `Emptied`): the passes of the loop touch different channels, so their order does not
show. `CharAssumption` says that the sessions whose player exists at the start (`Resident`) are finitely
many, numbered from 1, and no more than the `Player` objects of the model.

### Guilds

`store` is `GuildStore`; `inGuild`, `invited` are the player's, `storage` the global player
data, `db` the three tables, `pend` the statements the worker thread has not executed,
`view` what the node read at its start. Guild operations are functions on the hub's state that
append statements; `Progress` is the database after each number of them, and a crash, or a node that
reads the tables, finds one of these. A rank's rights are the set of the bits that the opcodes ask
for, `empty` for `GR_RIGHT_EMPTY`, which every right includes: `HasRankRight` compares with it, so that a member of a
rank that was removed, or that has no bit at all, has every right. `Grants` are the rights a leader may give a
rank. `New` are characters created after the hub has read the global player data, which
`UpdateGlobalPlayerGuild` then passes over. `LoadGuilds` is `LoadGuilds` with `Validate` for one guild after
another, in any order (`Validated`), from sound, damaged and half-disbanded tables. What `ChangeRank` does in a loop of
`Validate`, and `DeleteMember` in the one of `Disband`, is written as its effect on all members at once,
with the statements in the order of the loop. `guild_member` has `guid` as a unique key, one
worker thread executes in order (`proxyserver.conf.dist`), `Guild.AllowMultipleGuildMaster` is 0.
History `strayed`: characters whose guild has come apart: they declined while in a guild, a node
told the hub an old guild, were online and not in the player map or not in the global data when they came to a guild
or left it; or the tables name them the
leader of a guild and have their row in another (`Astray`).

### Rebase

`hub` is where the main thread is; times are kept as what is left of them, in a unit that stands
for hours in `Lead` and `Interval` and minutes in `Grace`. `live` and `temp` are tables and
copies; a row carries, beside its ids, the identity of the item it was written for, which nothing
in the code reads. `tasks` is the queue of the database worker, `itemRows` and `bagRows` what the two
threads have still to write. Begin and the queued statements take no time (`Tick`). The nodes create and destroy items, but keep away
from Init to the end of Begin, as the code intends with its two packets: the statements that Begin leaves to the
worker run beside them. `slow` records that `HaltServ` set the halt timer in a pass that had gone on for 2 or more
since it read the game time, as long as that timer is not settled. History `flaws`: what the rebase does not survive: it ran over old copies (`stale`), found no item
(`empty`), had a statement cut at `MAX_QUERY_LEN` (`cut`), `SetHighestGuids` deleted rows of an item
saved since it read the maximum (`swept`), or a crash came while it worked (`interrupted`).

## 3. Runs

Twelve runs, ten that pass and two that show a disagreement between the code and what the source says.

| Run | Checks | Bounds | States |
|---|---|---|---|
| `link_live` | `TypeOK`, `NeverBehind`, `EnterInitialised`, `NoEnterWithoutLink`, `EventuallyEnterable` | 1 node, 3 kinds of ids, 2 draws, 2 faults, 5-valued words | 337,917 |
| `link_nodes` | `DistinctAcrossNodes`, `NumberingInv` | 2 nodes, 2 draws, 1 fault, 8-valued words | 1,373,604 |
| `link_reseed` | violation of `LastGuidIsLastUsed` | 1 node, 2 draws, 1 fault | |
| `sess_refs` | `TypeOK`, `RefsExact`, `CounterExact`, `ClosedIsFreed`, `KickedIsRemoved` | 2 sessions of one account, 2 threads, 2 hang-ups, 1 kick, 1 wipe | 174,149 |
| `sess_queue` | `WithinLimit`, `NoDangling` with dynamic threading | 2 accounts, 3 sessions, limit 1, 2 threads, 1 hang-up, 1 move | 598,665 |
| `route_moves` | `TypeOK`, `OneConnection`, `RightNode` | 2 nodes, 2 faults, 1 transfer, 2 logins, 1 logout cancel, 1 kick, 1 tick | 3,790,572 |
| `route_logout` | `ReconnectArmed`, `PlayerEntersWorld` | 2 nodes, 1 fault, 1 transfer, 2 logins, 1 logout, 1 refusal | 577,032 |
| `route_failover` | violation of `FailoverToBackup` | 2 nodes, 1 fault | |
| `stream` | `TypeOK`, `NoLostWakeup`, `InStep`, `ImplementsChannel`, `Delivered` | both directions, 4 packets of 2 to 4 bytes, buffer, mark and wire of 3 bytes | 50,718 |
| `chat` | `TypeOK`, `OneOwnerEach`, `OwnersModerate`, `BannedStayOut`, `NoDanglingChannel`, `MembersReachable` | 2 characters of one side, channels of 4 kinds in both managers, 3 sessions, 3 `Player` objects, 1 name, 6 calls | 2,685,583 |
| `guild` | `TypeOK`, `LedByMember`, `MembershipAgrees`, `Durable`, `RestartRepairs` | 5 characters, 2 guilds, 3 kinds of tables, 5 calls, 1 crash | 1,281,951 |
| `rebase` | `TypeOK`, `HaltedWhileRebasing`, `NothingLost`, `Intact`, `Reopens` | 3 tables, 2 items, 3 writes, 1 crash, lag of 1, drift of 2, dates seen 2 late | 1,427,274 |

Why the bounds are enough. One node suffices for everything in `ControlLink` but the
distinctness of ids, since nodes share only the number space; two faults allow a crash during
the recovery from the first, and words of five values let counters reach the limit and wrap.
With two sessions of one account every replacement happens; a third one is needed before
dynamic threading finds both threads busy. In the queue one
place, two accounts and a relogin make the relogin of a waiting and of a playing account
compete with the other. Two nodes, a transfer and two faults move a player there and back; three
`NodeSocket`s at a time cover the current one, its overwritten predecessor and the next.
In `stream` a packet is longer than the buffer and than the wire, two fill the queue past its mark,
and one is a header alone, so that every branch of the output and every cut of the input is taken.
In `chat` two characters are an owner and his heir, kicker and kicked, and one of them is a game
master; the third session replaces one of theirs. They are of one side, so that moderators may set each other's
flags, and join the channels of both managers; with characters of two sides (`Sides` changed, 2,683,804 states) the
properties hold too. Six calls suffice to join, ban, leave (which
deletes the channel) and come back. In `guild` the five characters are a leader, an officer, a leader
of another guild, one with broken data and one created after the hub's start; a member's rank is one that is removed,
or whose rights are cleared; and five calls take an invitation from login to
acceptance and removal. In `rebase` two items are a bag and what is in it, two rows are a full
chunk of the long table, and the interval allows a second rebase, also after a crash. A date seen 2 late is
past by more than `Grace`, so that one pass finds both dates due, and with a drift of 2 the pass that sets the halt
timer may be slow enough for `slow`. `PlayerEntersWorld` also holds with a cancelled logout beside the other
events of `route_logout` (1.7 million states), which takes too long for a run of its own.
Symmetry is used in `sess_queue` only, between sessions of the same
account. Deadlock is checked except in `ControlLink`, where the hub may end for want of a realm row, in `ClientSessions`, where all threads end
after `ServerClose`, in `stream`, where a connection ends, and in `chat` and `guild`, whose calls
are bounded.

### What the violations show

* `link_reseed`: the hub's "last used" id is the last one *reported*. After a broken connection
  the next `LOGON_INIT_NODE` sets the counter back and the node draws an id twice.
  `NeverBehind` states what is true: it cannot happen to a node all of whose reports arrived.
* `route_failover`: the first failover switches `m_OnMaster` off for everybody; from then on a
  session without a node is given none while node 1 is dead, though the backup runs.

### Disagreements stated as premises

Met while modelling, and visible in the properties as exceptions:

* sessions: an account's replaced session keeps one reference for ever
  (`RefsExact`, the term `s \in replaced`); a session that is erased while queued stays in
  `_QueuedPlayer` (`WithinLimit`, premise `orphans = {}`); the player limit counts GMs; a logout
  wipes a kick that came in between (`KickedIsRemoved`, `s \notin kicked`); with dynamic
  threading two threads may update one session for a while, without a lock: one that has not seen `_sleep` yet, or
  keeps its set because sessions are waiting, and thread 0;
* ids: `LastCorpseID` is uninitialised (`Zeroed` leaves corpses out); the overflow assertions
  leave room for a step of one (`wrapped`);
* routing: the idle test of `UpdateMulti` never fires; an `SMSG_LOGOUT_COMPLETE` that overtakes the handler of the
  request, or that a cancel or a refused request crosses, is dropped, and the player is in nobody's world until the
  connection is lost (`Stranded`);
  `KickPlayer` and a logout together can lose both the kick and the reconnect flag (premise of
  `ReconnectArmed`); the updater, having connected, clears the reconnect flag that a logout has just
  set for the way back to the master, and the session stays where it is; a logout may leave a node
  connection open that nobody refers to (`NoLogout`);
* sockets: a write that would block loses its packet when the output queue has passed its mark
  (`Drop` of `PacketChannel`);
* channels: somebody who bans himself is entered again (`BannedIsOut`); a login forgets the
  player that the session has (`irregular`), and a removal from the map may take out another object of the same
  guid, whose login is then lost (`irregular`);
* guilds: declining an invitation takes a member out of his guild in memory and not in the
  table; a node reports an outdated guild; the global data do not hear of a character created since the hub's start
  (`strayed`); a member of a removed rank has every right, which breaks none of the properties;
* rebase: with no item it leaves the realm halted (`empty`); after a crash the next rebase discards
  what was written since (`interrupted`, `stale`); long statements are cut (`cut`); rows of new
  items are deleted (`swept`). When the pass that sets the halt timer is slow, with two units or more between
  `_UpdateGameTime` and `UpdateTimers` (`slow`), the halt timer may run out early and be set once more; but it is only counted
  down while the realm is not halted, and `UpdateTimers` returns as long as it is not 0: no rebase, and no logins until
  a restart. `Reopens` excuses that case and no other; up to a drift of one unit it needs no excuse.

## 4. Fairness

* `ControlLink!FairSpec`: weak fairness of the hub's steps for each node (the world thread
  updates every `ControlSession` in every tick, the reactor reports dead sockets), of a running node's
  steps, of the end of a node's start-up, and of `RefreshOnlineStat`, which a 30 s timer calls.
  Crashes, reboots and id draws have none.
* `ClientSessions!FairSpec`: the world thread and each updater thread loop as long as
  the process runs; `_handleAuthSession` returns. Clients, kicks, logouts and the dynamic move have none.
* `SessionRouting!FairSpec`: both threads loop, the database answers, timers run out, a running
  node reads what it is sent, and the control link opens running nodes. Crashes, restarts, transfers and
  what the client does have none; `PlayerEntersWorld` assumes that all nodes run in the end, and leaves out a player
  whom the node has refused (`Refused`) and one on a connection that has lost the answer to a logout (`Stranded`).
* `SocketStream!Spec`: the network threads call `handle_output` and `handle_input` when they are
  due and finish their call of the reactor, and the sessions take packets. Senders and failures have none.
* `Rebase!FairSpec`: time goes on, a hub that is down is started again, the main loop comes to its 30 s timer,
  Begin, its threads and the database workers go on. Nodes and crashes have none.

Weak fairness is enough everywhere: each step stays enabled until its thread takes it.

## 5. Proofs

Every theorem below holds for every value of the constants that the named assumptions of the
module allow, and for every bound. An invariant of a run is seldom inductive; each part says
what had to be added and why.

### ControlLink: ids and the link (`ControlLinkProofs`)

`TypeCorrect`, `NumberingCorrect`, `NodesDrawDistinctIds`, `NoClientsWithoutLink`: `TypeOK`,
`NumberingInv`, `DistinctAcrossNodes` and `NoEnterWithoutLink` are invariants, for every set of
nodes with a greatest id, every word size, every `Base`, every number of draws and faults. The
assumptions are those of `ControlLink`: node ids are positive and have a greatest one, all
smaller than `Wrap`; `Base` is a positive word; garbage is a word.

`DistinctAcrossNodes` is not inductive: it says nothing of the counters and of ids in
flight. `NumberingInv` does. `ClassInv` says that while nothing has wrapped and nobody drew
early, each id of node `n` in the hub's list, in either packet queue of the link, in the node's
receive queue, in a seeded counter or drawn lies in the class `Base + (n - 1) + k * GetNodeCount`.
`DownClean` says that a node that does not run has no connection, session or seeded counter; without it
the garbage that a boot puts into `_hiRange` could be taken for a seeded step. Each action
preserves both; a frame lemma (`ClassFrame`) serves the steps that touch no id. Classes of
different nodes are disjoint because `n <= GetNodeCount`, a fact about multiples proved as a
lemma. TLC checks `NumberingInv` first (`link_nodes`). `NoEnterWithoutLink` is inductive with
the type invariant.

### ControlLink: seeding (`ControlLinkProofs`)

* `OpenNodesInitialised`: `EnterInitialised`. `EnterInv` adds the acknowledgement in flight: an
  `ACK_OK` on a link that stands was sent by a process that has every counter.
* `SeedsNeverBehind`: `NeverBehind`, the hub never seeds a counter below an id that the node has
  drawn, but for the nodes in `unsynced`, an id of which the hub never heard of or hears too late. `HandshakeInv` fixes the order of
  the hand-shake (which packets can be in the two queues in which states of the two sessions), so
  that a seed is computed only when no report of the node is still under way. `InOrderInv` says that the hub's id,
  corrected by the last report that is still in the queue (`Covers`), is not below any id drawn. Both are
  needed: the reports alone say nothing about a seed that is already in the other queue.

### SocketStream (`SocketStreamProofs`)

`WakeupNeverLost`: `NoLostWakeup`, for every set of packets and all sizes. The invariant of the run says
only that some call of `handle_output` is due. `WakeupInv` says how the flags can
disagree: at the node `m_OutActive` runs ahead of the reactor's registration by the one reactor call
that is still to be made after the lock is released, and that call brings the
registration to what the flag says; the hub has no such flag and calls the reactor under the lock.

`StreamTypes` (`TypeOK`: the buffer does not overflow, the queue passes its mark by less than a packet) and
`StreamInStep` (`InStep`), from the inductive `StreamInv`, for every set of packets, all sizes and capacities.

* `Linked` says that what the receiver has, the stream, the buffer and the queue are one stream of packets:
  `Flow` that each byte is the one that comes after the byte before it, `Sending` that the blocks in the queue are
  whole packets but for the first, which is the rest of the packet that the stream ends in. Each operation (a packet
  into the buffer or the queue, a buffer or a block sent in full, in part or not at all, `recv` of n bytes) is one
  lemma about `Linked` without primes; the actions only choose.
* A block that `enqueue_head` refuses is dropped unchecked when nothing of it could be sent. Were it the rest of a packet, the
  receiver would take the next packet for its end. `Held` is why it never is: a rest stays in the queue only while the
  buffer is empty and nobody but the reactor calls `handle_output`, and the reactor calls it only
  when the stream takes at least one byte.
* `Lengths` and `Read` are recursive functions over the queue and over the bytes read; their equations and the induction
  over their argument are proved as for the guilds.

### ClientSessions (`ClientSessionsProofs`)

* `SessionsCounted`: the inductive `SessInv`, and from it `SessionsTyped` (`TypeOK`) and
  `NobodyDangles` (`NoDangling`), with and without dynamic threading. `NoDangling` says that who
  holds a pointer holds one to a live session. What keeps it is a count: `RefInv` says that the places that hold a
  session (the authenticating thread, `addSessQueue`, the map, each updater's set and queue, a position
  at a time) are no more than its references. `LoopInv` ties the loops' cursors to what they
  loop over, `NewInv` says that a session not yet in the map has been nowhere, so that adding it is one place more.
  The inequality is the strongest that holds in general: dynamic threading loses references.
* `ReferencesExact` (`RefsExact`) and `LoadsExact` (`CounterExact`), from `StaticThreads`, for
  `DynEnabled = FALSE`, the setting of the run that checks them. `ExactInv` adds that no two threads have a session, that
  nobody has it twice, and the equality of the counts. With dynamic threading the two are false.
* `LimitKept` (`WithinLimit`), with and without dynamic threading. `LimitInv` counts the players in the map that do
  not wait; `WaitInv` says that only sessions of the map wait, which is what keeps the `uint32` subtraction of
  `GetActiveSessionCount` from wrapping. The scope is that of `WithinLimit`: no session has been
  left in the queue by its replacement, and the hub is not stopping. Uses `AccountsAssumption`:
  there are fewer accounts than words, as account ids are nonzero words.

### SessionRouting (`SessionRoutingProofs`)

`RoutingCorrect`: the inductive `RoutingInv`; from it `SessionTypes` (`TypeOK`), `OnlyConnection`
(`OneConnection`), `TalksToItsNode` (`RightNode`) and `AlwaysArmed` (`ReconnectArmed`), for every set of nodes,
connections and bounds. The properties speak of moments; `AloneInv` and `ArmedInv` say for every position of
the two threads between such moments what the flags promise: while `RECONNECT` is set the old
connection is closed, except just after the new one was opened, and a session without a
socket is armed or the thread that closed it is on its way to arm it. The helper `Follows`
(connections are as before, or closed) reduces all actions but `OpenNodeConnection` to one lemma.
`AloneInv` is claimed until a logout was asked for, as the properties are: the logout of the world thread races with the last
step of a reconnect (section 3, premises).

### Chat (`ChatChannelsProofs`)

`ChatTypes` (`TypeOK`), `OwnersAgree` (`OneOwnerEach`), `OwnersAreModerators` (`OwnersModerate`), `BansHold`
(`BannedStayOut`), `ListsLeadToChannels` (`NoDanglingChannel`) and
`MembersAreReached` (`MembersReachable`), for every set of characters, names and sessions.

* The operations of `Channel` are shown once to preserve a channel's type, `OneOwner`, `OwnerModerates` and
  `BannedIsOut`; the actions of `ChatChannels` only choose the channel. `OwnerModerates` needs `OneOwner`:
  `SetMode` compares with `m_ownerGUID`, and only the one it names may have the flag. The owner and ban
  theorems need nothing of the players.
* `MembersReachable` needs `RegInv`, the life of a `Player` object: a loading session has no
  player (`LoadingOK`), a session's player is its own and is not on its way out
  (`PlayingOK`), an object is in one place between the login and the map (`WayOK`), and what is in the map or comes to it is
  played or about to be removed (`AliveOK`).
* The pointer theorems need `TidyInv`: the entries of the channels and the lists of
  the players are each other's mirror for the objects of the map (`ListedOK`), and the list of an object
  outside the map, or of one that was logged out, is empty (`EmptyOK`). The mirror is broken inside `CleanupChannels`
  only, which is one step.

### Guilds (`GuildsProofs`)

`GuildsInvariant`: the inductive `GuildInv`; from it `GuildTypes` (`TypeOK`), `GuildsLedByMember`
(`LedByMember`), `GuildMembershipAgrees` (`MembershipAgrees`), `GuildsDurable` (`Durable`) and the action
property `GuildRestartRepairs` (`RestartRepairs`), for all finite sets of characters and guilds, any tables at
first, and any number of calls and crashes.

* The properties speak of the hub or of what the database will be; a crash takes neither but the tables after some
  prefix of the statements. `Sound` therefore has three parts: the tables after all of them mirror the
  memory; rows, guilds, global data and players agree for whoever has not strayed (`At`); and
  the tables after every prefix are `Safe`: well-formed, with no leader, but for the known ones, whose row is that of another guild.
  The last is what makes a restart from any prefix work: `Validate` removes the row
  of a leader who is not a member of his guild, and without it that could be the row of a sound member of another guild.
  It holds because a new leader is a member whose row is one of the guild, and a row is inserted only for someone
  who has none and leads no other guild.
* Each operation is shown once to preserve `Sound` as a function of the hub's state (`DropSound`,
  `DisbandSound`, `AddMemberSound`, ...), then `Good`, which adds leader and ranks of each guild; the
  actions only choose the operation. `Sequel` and `Remainder` take a list of statements
  apart at any point: a started node and a crash are that.
* Restart: `SweptIs` and `LoadedSound` (what is read is `Sound` with the tables without orphans), then induction
  over the guilds in the order of the map (`Upto`): those before the k-th are `Done`, the
  others still `Waiting` as they were read, because a pass over one guild leaves the others and their rows
  alone (`Aside`, `GradedLocal`).
* `Validated` and `Progress` are recursive functions on intervals. That they satisfy their equations is proved from
  the definition, and induction over the length uses `DataLemmas`: there
  a set stands where the library's theorem has an operator.

### Rebase (`RebaseProofs`)

`RebasedHalted`: `HaltedWhileRebasing`. Nothing tests the halt before the tables are rewritten; the order of two
timers ensures it. `DatesInStep` says that the second date is `Grace` after the first. `HaltInv` says
that this holds except while the realm is halted and the rebase has not begun. The proof uses of the assumptions
only that the intervals are natural numbers and `Lead` is not 0.

`RebaseTypes` (`TypeOK`), `RebaseLosesNothing` (`NothingLost`) and `RebaseKeepsTables` (`Intact`), for every finite
set of items, every set of tables with the two that the threads write, all chunk sizes, any number of writes and crashes.
Assumed of the clocks is `Interval > Lead + Grace` and `MaxLate < Interval`: the period is days, and the main loop is never
late by a whole one. The inductive `Invariant` has three parts.

* `TypeInv`: types with the position of the main thread, the windows of the two dates, and finite tables.
* `TaskInv`: the order of the queue. While Begin copies, empties and counts nothing is queued: the second date
  is not past while a statement waits, as the statements of one rebase do not take until the next; insertions come before drops and these before sweeps; and no
  queued insertion is into a table that one of the two threads writes.
* `DataInv`: what live tables and copies have in each phase. While Begin copies, the live tables are `Consistent`
  (every item once under an id of its own, every other row true of its item and of its bag, every item placed) and a copy
  equals its table (`CopyData`); then the copies are `Consistent` and the tables emptied so far are empty
  (`EmptyData`); then each table with what is queued for it is the renumbered part of its copy that was read
  (`FillData`), and with the threads done the tables as they will be when the queue is empty are `Consistent` (`QueueData`).
  Nodes write again while those statements wait: a new item has an id and rows that none of them has, and an item can only be
  destroyed when its rows are in the tables, not in a statement. `Waits` is why the second holds: a queued row is in
  no other statement and not in its table yet.
  At rest the tables are `Consistent` or copies are left, and `Kept` holds (`CalmData`).

`Consistent` survives the renumbering because `_ItemMap` is one-to-one on the ids of the items. `INSERT
IGNORE` adds exactly the queued rows: no two items share a new id, so none of them meets a row with its key.
`Kept` is needed beside `Consistent` after a crash in the middle, when
neither the tables nor the copies have everything, and nodes go on creating and destroying items. That `slow`
is a truth value is an invariant of its own (`SlowType`), as no part of `Invariant` speaks of it.
That `Intact` may leave out `stale` is `StaleExcused`: without a crash or a rebase without items all copies are dropped
before the next rebase begins. That the chunks of a table
are its rows is proved from their bounds, that `In` keeps the tables of its order by the induction of `DataLemmas`.

## 6. Only model-checked

* Liveness (`EventuallyEnterable`, `ClosedIsFreed`, `KickedIsRemoved`, `PlayerEntersWorld`,
  `Delivered`, `Reopens`): fairness and `ENABLED` are out of the prover's reach.
* `SocketStream`: the refinement of `PacketChannel`. Its mapping filters and folds the stream, which
  needs induction over data in every step.

## 7. Plan

* Proofs: the refinement of `PacketChannel` by `SocketStream`.
* Models: `ResetLastGUID` between `Rebase` and `ControlLink`; the deletion of a `PoolSocket` under its session.

## 8. Not modelled

* Client packet framing, digest and encryption (`ClientSocket`), Warden: computations on bytes.
* Petitions, tickets, calendar, arena teams, social lists of the hub: tables that one handler at a
  time reads and writes; the group handlers are empty. Of guilds: bank, notes, texts, logs.
* Dead code: the battleground queue (`HandleBattlemasterJoinOpcode` is empty,
  `BattlegroundQueueUpdate` returns before it forms a match), `WorldDatabaseRebase`,
  `GetNodeForMap` and its kin, `Handle_NODE_TRANSFER_ACK`.
* The game of the nodes, scripts, collision, `authserver`, the database layer, libraries in
  `dep`: outside the clustering, and by far the greater part of the repository's 1.4 million lines,
  which is why the modelled lines are a small share of it. What the cluster reads from and writes to the database is modelled.
* The hub's main loop beyond the halt timer: configuration and timers that call the modelled functions.
* Reads and writes of single words by two threads inside one handler (the test and use of
  `_NodeSocket`), and guild handlers, which run on several updater threads at once
  without a lock (the channel handlers all run on the world thread): the models take a handler, or the marked part of
  one, as one step.
* What ends the hub beyond a crash at any step: the guarded bindings of the statements for the table `channels`
  (section 2).
* Smaller things that were met and have no variable in a model: the destructor of an old session
  marks the account offline while a new one is in the world (`ClientSession.cpp:73`);
  `PoolSession` keeps its `PoolSocket` without a reference (`PoolSession.cpp:15`); a late id report
  after `ResetLastGUID`, which does not reset corpses (`RoutingHelper.cpp:314`); a node that misses
  the one shutdown packet writes during the rebase (`DatabaseRoutines.cpp:77`); the realm flag is set for
  realm 2 (`Proxy.cpp:557`).
