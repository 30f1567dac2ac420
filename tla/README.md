# TLA+ models of the AoTv4 server

AoTv4 is an EverQuest server emulator (C++, an EQEmu fork with custom content): a handful of
processes on one or several machines, one MySQL database, and game clients that speak a reliable
protocol over UDP. This directory holds TLA+ specifications of the parts of it that are protocols
(something that several actors, a network or a crash can put in the wrong order), the TLC
configurations that check them, and TLAPS proofs of what matters most.

    tlc -config MCReliableStreamSafety.cfg MCReliableStream    # model-check one run
    tlapm ReliableStreamProofs.tla                             # check the proofs of one module

Paths below are relative to `src/`.

## 1. Inventory

How the processes are connected:

    client --UDP--> login, world, zone        (common/net/reliable_stream_connection.cpp)
    login, world, zone, ucs, queryserv, eqlaunch --TCP--> world   (common/net/servertalk_*)
    world, zone, ucs, queryserv, login --SQL--> MySQL             (no transactions across calls)
    eqlaunch --fork/exec, signals--> zone processes               (common/proc_launcher.cpp)
    shared_memory --mapped files--> zone, world                   (common/memory_mapped_file.cpp)

Each process runs one event loop: handlers never interleave inside a process, except for the
task scheduler's threads and for signal handlers. They do interleave between processes, at every
database call and every message.

| component | state | operations | what is hard | what makes it correct |
|---|---|---|---|---|
| **Reliable UDP stream** (`common/net/reliable_stream_connection.cpp`) | next number out, packets not acknowledged, next number in, packets ahead of their turn, the reassembly buffer, status | queue, resend, ack, out-of-order ack, receive, drain the queue, close | loss, duplication, reordering; 16-bit numbers that wrap; fragments without a message number; cumulative acks; closing in the middle | whole messages come out in order, once; nothing unreceived is forgotten; everything queued comes out |
| **Permanent player shop** (`zone/trading.cpp`, `world/zoneserver.cpp`, `zone/worldserver.cpp`, `bazaar_broker.lua`) | `trader` rows, the serial bucket, parcels, purses, the escrow bucket, where the seller is | list, pull, buy, route the payment, bank it, pay out, move, zone, log out | two zone processes and the world between each other's SQL calls; a crash between two of them; a seller who zones while paid | no item lost or duplicated, no coin made, the seller is paid |
| **Zone launcher** (`eqlaunch/`, `common/proc_launcher.cpp`) | a state machine per zone, the table of children, counted SIGCHLDs | start, restart, stop, timeouts, reap, shut down | deaths racing requests and timers; signals that coalesce; children that ignore SIGTERM | one process per zone, a stop is final, crashed zones return, the books are right |
| **UDP session and manager** (`common/net/reliable_stream_connection.cpp`, `eqstream.cpp`) | connections by endpoint with their connect code, key, clocks | request, respond, disconnect, close, the timers | late copies of a request; a close time that was never set; a close that is repeated at every tick | both ends have one key; a session that is closing or deserted ends |
| **Inter-server links** (`common/net/servertalk_*`) | a TCP connection or none, the read buffer, reconnect timer | connect, handshake, send, read, disconnect | what is sent while the link is down vanishes; half a message survives a reconnect | what is written to a connection comes out whole, in order, without a gap |
| **Task scheduler**, event loop (`common/event/`) | a queue, worker threads, the running flag | enqueue, take, stop | a stop between a worker's test and its wait; lost notifications | every task runs once; stop returns |
| Shared memory, IPC mutex | mapped files, a file lock | load, map, lock | writer and readers in several processes | a reader never sees a half-written file |
| **Data buckets** (`common/data_bucket.cpp`) | rows by key, a cache per process | get, set, delete, of a whole or a part; expire, enter, leave, reload | a cached value another process has overwritten; read, merge and write as three steps | a read returns the last write in its scope |
| Login server | accounts, sessions, world servers | log in, list, request play | a play request that races a logout or a world that goes down | one session per account reaches a world |
| **World: client list, zone handoff** (`world/clientlist.cpp`, `cliententry.cpp`, `client.cpp`, `zone/zoning.cpp`, `client_process.cpp`) | entries of characters, the zone each is in, counters, stale timers; the clients of each zone | log in, enter, zone, drop, kick, linkdead, go stale | two processes that each have a client of one character; orders nobody acknowledges | a character is in one zone, its data are not rolled back, the counters are right |
| **World: zone servers** (`world/zonelist.cpp`, `zoneserver.cpp`, `zone/worldserver.cpp`, `zone.cpp`), launcher list | what each zone process hosts, who waits for a boot | boot, register, let in, shut down, die | boots that race each other, a shutdown or a death | the books agree with the processes; a zone is hosted once; nobody waits for ever |
| Shared tasks, dynamic zones, adventures | members, invitations, lockouts | invite, join, leave, lock | world and zones hold copies | membership agrees in the end |
| Zone: groups, raids, hate lists | lists in one process | join, leave, swap | little | lists stay consistent |
| Zone: inventory, corpses, trade | slots in memory and database | move, trade, loot, save | a crash between two saves | items are conserved |
| Zone: spells, combat, AI, quests | large tables | game rules | nothing a model checker would reach | - |
| ucs, queryserv | channels, mail, LFG lists | join, send | little | - |
| Database access, client patches, utilities | none | queries, encoding | pure functions and I/O | - |

The hazards of each, line by line, are in `PROJECT.json` under `hazards`, with the property that
would catch each or the reason none does yet.

## 2. Modules

| module | models |
|---|---|
| `SequenceNumbers` | residues of packet numbers and `CompareSequence` |
| `ReliableFifo` | abstract: what a stream promises, a FIFO of whole messages |
| `ReliableStream` | one direction of one stream: both ends and the network |
| `ReliableStreamProofs` | theorems about these |
| `StreamSession`, `StreamSessionProofs` | the session under a stream: handshake, ends, timers, and theorems |
| `PlayerShop`, `PlayerShopProofs` | one seller's permanent shop, the buyers' zones, the world, the database, and theorems |
| `ZoneLauncher` | the launcher, its children, SIGCHLD, the world's requests |
| `ZoneLauncherProofs` | theorems about it |
| `CharacterHandoff`, `CharacterHandoffProofs` | one character, the world's client list and the clients in the zones, and theorems |
| `ZoneServers`, `ZoneServersProofs` | which process hosts which zone, and the players that wait for one, and theorems |
| `TaskScheduler` | the pool of threads |
| `ServertalkLink` | a TCP link between a server process and the world |
| `DataBuckets` | a data bucket and its caches |
| `MCPlayerShops`, `MCPlayerShopsProofs` | the shop in three places: in one zone process, in one process a player, and the same with two stacks; and theorems |
| `MCServices`, `MCServicesProofs` | the three small services, one a behaviour, and theorems about each and about all |
| `MCStreamSession` | a session, or one stream of a session that stays up |
| `MCZones` | two zones, seen from the launcher or from the world |
| other `MC*` | instances of one module for TLC |

`ZoneServers` and `CharacterHandoff` are two views of one handoff. `ZoneServers` has the boots and leaves out what a
client does once it is in; `CharacterHandoff` has every zone booted and follows the client and its data. `DataBuckets`
takes from `CharacterHandoff` what the code takes from it (`data_bucket.cpp:846`): a character is in one zone at a time
(`Alone`).

### ReliableStream

A `ReliableStreamConnection` has four streams in each direction, which share only the status and
the clock, so one direction of one stream is the whole protocol. The variables carry the names
of the members (`sequence_out`, `sent_packets`, `sequence_in`, `packet_queue`,
`fragment_packet`...). Beside them there are ghosts no step of the protocol reads: `queued`,
`delivered`, `log` (every packet ever numbered), `accepted` (the unwrapped `sequence_in`), and the
unwrapped number `n` in every packet and acknowledgement.

| action | code |
|---|---|
| `QueuePacket` | `InternalQueuePacket`: one `OP_Packet`, or fragments of which the first carries the total |
| `ProcessResend` | the tick's resend of the first `ResendCap` packets by residue |
| `Ack`, `OutOfOrderAck` | the two handlers that erase from `sent_packets` |
| `ReceivePacket` | `ProcessPacket`/`ProcessDecodedPacket` of `OP_Packet` and `OP_Fragment` |
| `StartProcessQueue`, `ProcessQueue` | the tick's loop over `packet_queue`, one round a step, because the callback may close the connection between two |
| `SenderClose`, `ReceiverClose`, `Drop` | `Close`, `OP_SessionDisconnect`, the tick that drops a closing connection |
| `Lose` | the network; it duplicates and reorders by keeping datagrams in a set |

A message is cut as the code cuts it (`PieceCount`, `PieceOf`); its bytes are intervals of the
message, so a byte lost, repeated or put into the wrong message is visible in `delivered`.

Two assumptions are part of the model, because the code relies on them and does not enforce them:
`Expire` (the network keeps no datagram for longer than the stream takes to number `SeqWindow`
= 10000 more) and `HasRoom` (no more than `SeqWindow` packets are outstanding; the code has no
send window). Without either, a residue cannot be ordered by a window of 10000 at all. Both are
hazards of the code and listed as such.

Left out: `OP_Combined`, CRC, compression, encoding, the data-rate budget, unreliable packets, and
the clock that decides when a tick resends: any tick may.

### StreamSession

What `ReliableStream` takes for granted: that there is a session. `connection` is the entry of `m_connections` for one
address (none, Connected, Disconnecting; its connect code, encode key, the ages of `m_last_recv`, of `m_close_time` and of the
oldest packet that is not acknowledged), `to_server` and `to_client` are the datagrams under way, each with the age
of its last copy. The game client is external: it asks with a fresh code until it is answered, talks, leaves or dies, and may come back.

| actions | code |
|---|---|
| `Receive`: `NewConnection`, `NoSession` | a datagram of an address without a connection (`ReliableStreamConnectionManager::ProcessPacket`) |
| `Receive`: `SessionRequest`, `SessionDisconnect`, `Ack`, a packet, one of another key | `ReliableStreamConnection::ProcessPacket` and its handlers |
| `QueuePacket` | a reliable packet is sent and waits for its acknowledgement |
| `Close` | the application closes |
| `OnTimer`: `Closed`, `Stale`, `TimedOut` | the tick, sixty times a second: `Process`, then `ProcessResend`, which closes |
| `Tick` | time passes |
| `Ask`, `AskAgain`, `Talk`, `Leave`, `Die`, `Hear` | the client |

A datagram lives for `Lifetime`, during which it may arrive any number of times or never. Keys and connect codes are random numbers of 32 bits
in the code; here they never repeat. What is encoded with another key than the connection's fails its CRC, but is a sign of life all the same,
because `m_last_recv` is set first. `m_close_time` is not set when the peer disconnects: its age is then past every limit, and the next timer ends the connection.

`SameKey` needs both limits (`connection_close_time`, 2 s, and `stale_connection_ms`, 60 s) to be at least twice the lifetime: the answer the client takes may be one lifetime old,
and the last copy of its request arrives one lifetime after it was sent. With one less in either it fails: the connection is gone, the late copy makes another with another key, and the client,
still in the first, cannot be understood any more. `SessionEnds` promises the end of a connection whose client stays away, not of one whose
client asks for its next session at the same address: those requests are refused for their code, and keep the connection alive. Left out: this code as a client, keep-alives (to the server they are packets),
and the streams `EQStreamManager` keeps above the connections.

### PlayerShop

One seller, some buyers, and every database call a step of its own, because each zone process
and the world process run one handler at a time but interleave with each other at each call.
`step[p]` is the handler the process of player `p` is in (with the copies it has read), `world` that of
the world process, `to_world` and `to_zone` are the `ServerOP_BazaarPurchase` messages in flight.

| actions | code |
|---|---|
| `AddItemsToShop`, `EscrowItem`, `SaveSerial` | `Client::AddItemsToShop`: insert rows, take the items from the bags, save the serial |
| `PullShopItem`, `DeletePulled` | `Client::PullShopItem` |
| `Buy`, `MarkActive`, `TakeMoney` or `RefuseBuyer`, `SendParcel` or `LoseParcel`, `TakeOffShop`, `TellWorld` | `Client::BuyTraderItemOutsideBazaar` |
| `RoutePurchase`, or `ReadEscrow` and `BankPrice` | `ZoneServer::HandleMessage` in the world |
| `PaySeller`, `DropPurchase` | `WorldServer::HandleMessage` in the seller's zone |
| `LookIntoEscrow`, `ClearEscrow`, `GrantEscrow` | `pay_escrow` in `bazaar_broker.lua` at login |
| `Move` | `TraderEndTrader` when a trader moves |
| `Login`, `Arrive`, `ZoneOut`, `Disconnect`, `Forget`, `Crash` | where the seller is, and a zone process that dies |

One unit costs one coin and there is no delivery fee, so coin and units can be compared. An item that does not stack is
one unit, whatever its charges: it is sold whole. A
repository helper that is a single SQL statement, or a read followed at once by its update, is one
step (`FindOne` and `UpdateOne` in `TakeOffShop`).

A list comes from the player and may name a slot more than once: each entry gets a row, and the deletion of a slot that is already empty
does nothing. Two history variables, which no step reads, record what the properties except: `twice`, the items a list has named
more than once (they are duplicated in one process and without a crash, so `NoDupe` is about the others), and `interrupted`, that the
seller's process died between the insertion of a list and the saving of the counter (after which serials repeat, so `UniqueSerials`
and `NoItemLost` are about behaviours without that one death; every other death, at any step of any handler, is in them).

Constants turn the dangers on one by one: `SameZone` (all in one zone process), `MayLeave`,
`MayMove`, `SerialsMeet` (an unrelated item carries the listing's serial), `MaxCrashes`. What the
model does when one is turned on where a run has it off, or an exception is dropped:

| place, run `shops` | change | what then fails |
|---|---|---|
| together | `SameZone = FALSE` | `NoDupe` (run `shop_race`) |
| together | `MayLeave = TRUE` | `SellerPaid`: the seller is zoning when the message arrives and the price is dropped |
| together | `MaxCrashes = 1` | `NoDupe`: the zone dies after the insert and before the items have left the bags; `SellerPaid`: it dies after the row is taken off and before the world is told |
| together | no exception of `twice` | `NoDupe`: an item that is named twice is listed twice |
| apart | `MayMove = TRUE` | `NoItemLost` (run `shop_move`) |
| apart | `SerialsMeet = TRUE` | `NoItemLost`: the payment removes an unrelated item |
| apart | no exception of `interrupted` | `UniqueSerials`: the next list repeats the serials |
| stacks | no exception of `interrupted` | `NoItemLost`: the zone dies after the insert and before the serial is saved, the seller lists the other stack under the same serial, and a purchase of the older row that is still under way writes its rest over the newer row's charges (`UpdateQuantity` looks for `char_id` and `item_sn`) |

### ZoneLauncher

`zones` maps a zone to its `ZoneLaunch` (state, pid, timer, `kill_fails` and a number that tells one object
from the next of the same zone), `m_running` maps a pid to the object registered as its handler, `child` is the kernel's
table. `Die`, `HandleSigChild` are the system's, `Start`, `Restart`, `Stop`, `KillAgain`, `GiveUp`, `Remove`,
`OnTerminate` the zone's, `Reap` a round of `ProcLauncher::Process`, `StartZone` the
world's request, `ShutDown`, `Exit` the end of `main`. A timer that is on may end at any time. The
Windows branch and `s_startTimer` (which spaces launches) are left out. When a handler that has been
deleted is called, which is undefined, the launcher either dies or only counts.

Dangers: `Coalesce` (two deaths share a SIGCHLD), `Stubborn` (a zone ignores SIGTERM), `Unkillable` (a
child outlives SIGKILL for a whole timeout), `KillMayFail`, `MayShutDown`. The run `launcher` and the proofs have all of them on. The properties
name what the launcher itself lets go of: the children it has stopped waiting for (`given_up`), because `kill()` failed for them (`refused`) or
because they outlived the last timeout (`outlived`). A child that is dead but whose SIGCHLD was shared is among the latter: it is never
reaped in time.

* A given-up child may call a handler that has been deleted (`HandlersAlive` is about the others) and may run beside its
  successor (`OneProcess`).
* `RunningCount` says by how much it falsifies `s_running` (`Off`): a refused child counts until it is reaped, an outlived one is counted off a
  second time when it is.
* `WorldInformed` holds after a child has been given up by timeout (`GiveUp` tells the world), and not after `kill()` has failed, which tells it nothing.
* `Recovers` promises a crashed zone its restart unless deaths are `Untold`: two that shared a SIGCHLD leave a zombie that is only reaped at the next death.

`RestartEnds`, that a restart takes place, is false as soon as a zone ignores SIGTERM (run `launcher_restart`).

### CharacterHandoff

`list` is the client list (the entries, `numplayers`, each zone's `zone_player_count`), `player` the person: at the login
server, in the world, or in a zone, and which client object is theirs. `body` holds the `Client` objects of all zones, of which
a character may have several; `db` is the character's row; `to_zone` and `to_world` are the links. `clock` numbers
the changes of the character's data, so an older save is seen as such. The methods of `ClientListEntry` are operators on
the list (`SetOnline`, `Update`, `LeavingZone`, `Camp`...), with the counters changed where they change them.

| actions | code |
|---|---|
| `CLEAdd`, `HandleSendLoginInfoPacket`, `EnterWorld`, `Quit` | login server, `world/client.cpp` |
| `ClientUpdate`, `CheckStale` | `ServerOP_ClientList`, `CLCheckStale` in `world/clientlist.cpp` |
| `Clearance`, `RouteZoneToZone` | the world's handlers of a zone's answers |
| `IncClient`, `DropClient`, `AcceptWorldEntrance`, `ChangeWID`, `ZoneChangeReply`, `ZoneChangeRequest` | `zone/worldserver.cpp` |
| `DoZoneSuccess`, `ZoneEntry`, `CompleteConnect`, `Leave`, `LinkDead`, `Destroy` | the client in the zone |
| `Play`, `Save`, `UpdateWho` | what happens in a zone, the saves, the refreshes of the entry |
| `Crash` | a zone process dies; `CLERemoveZSRef` in the world |

`prompt` says how fast the links are. With `prompt`, what the world has sent has arrived, and who was kicked is gone, before
the player has connected to the next zone (`Settled`); that is what the code counts on, and it usually holds, because a client
needs seconds to connect. Without, anything in flight may be late. `GhostDoomed`, `PlayersCounted` hold in both;
`OneZoneIfPrompt`, `WorldKnows` and `NoRollback` with `prompt` alone: without it the old client saves over what the new one
has saved (`NoRollback`), and its `UpdateWho(2)` takes the entry of the new one out of its zone (`WorldKnows`). In both modes a stale
entry is removed (after 200 s) only when nothing is in flight, and a player is back in the world only when a client that was disconnected in a zone
where another stays is gone (`Rested`): a zone looks at its clients every 32 ms (`zone/main.cpp:636`) and deletes one that was kicked
(`client_process.cpp:590`). Without it `GhostDoomed` is false for three clients: `ServerOP_ZoneIncClient` and `DropClient` look for one client of the account
(`zone/worldserver.cpp:622-664`), and the one they find may be the one that already goes.

### ZoneServers

`srv` is what the world believes of each process, `proc` what is so, `client` the world's connection of each player,
`to_proc` and `to_world` the links.

| actions | code |
|---|---|
| `EnterWorld`, `ZoneToZoneRequest` | who needs a zone: sent to its process, or `TriggerBootup` of the first that is free |
| `SetZone`, `Clearance`, `Remove` | the world's handlers, with `ClientList::ZoneBootup` |
| `Autobootup`, `Quit` | the boot timer; a player who gives up |
| `OnConnected`, `ZoneBootup`, `ZoneIncClient`, `AcceptWorldEntrance`, `Shutdown` | the process |
| `ZoneEntry`, `Leave` | a player in the zone |
| `Die`, `LoseLink` | a process that dies, a link that breaks |

A process that has connected is in the list at once (`ConnectionIdentified` in `servertalk_server_connection.cpp`), and what it says of itself, `SetZone` of what
it hosts, is a message of its own that comes later (`zone/worldserver.cpp:174-190`). `overtaken` records that the world has ordered a boot of a process
before it had read that word: the word then clears the books of a process that is booting, the zone is booted elsewhere as well, and two
processes host it although nothing has failed. `HostedOnce` excepts that.

`faulty` turns on that zones fail to load, links break, and an empty zone leaves its process running
(`KillProcessOnDynamicShutdown` off). Then `HostedOnce`, which excepts it too, fails in more ways: a process that has gone to sleep boots again on a
`ServerOP_ZoneIncClient` that was under way while the world boots the zone elsewhere; a boot that fails is followed by a
second order that reaches the same process late; a process whose link broke still hosts while the world boots another.
`BooksAgree` has no exception: every handler answers with
what the process hosts, so the books are right again as soon as the links are empty. Two processes that host one zone are then both in them.

### TaskScheduler

A thread's step is what it does between two points where another may get in: `Test` (a worker, with the lock), `Park` (it gives
the lock up and sleeps), `Run`; `CheckRunning`, `Push`, `Notify`, `Return` of a caller; `ClearRunning`, `NotifyAll`,
`Join` of the thread that stops the pool. Push and Test need the lock, which a worker that is about to sleep
holds (`Unlocked`); `ClearRunning` and `NotifyAll` do not take it. `missed` records the workers that were between test and wait when
they were notified: then `Join` never returns. `StopReturns`, which `PoolServes` contains, fails without that exception.

### ServertalkLink

A frame is a head (length and type) and a body, and TCP hands over any number of the two at a time; `sent` and `got` record by
connection what was written and read. The client's end keeps `m_buffer` over connections, the server's has a buffer for each. `torn` says
that a connection has ended with a piece of a frame in `m_buffer`; from then on the client reads a head of the old
connection with a body of the new one, so `LinkFaithful` promises the client nothing. Messages sent without a connection are dropped.

### DataBuckets

One bucket, a row of the database, with its entry in the cache of each zone process (a miss is an entry with id 0), read, set and deleted by quests as a
whole or in part. `SetData` and `DeleteData` of a part read (`SetData`, `DeletePart`), merge, and write (`Store`,
`StoreWithout`) in two steps with `busy` between them. `Enter` and `Leave` are the load and the drop of a character's
entries, `ClearCache` the reload, `Tick` lets rows expire. `store` is what the operations asked for leave when done one after the other, without any
cache, with the expiry that the last set asked for.

A value is plain or an object of parts. A set of a part drops text that is not JSON and makes an object of it. The parts that cannot be set are
`fixed`: those that hold an object or an array, of which `SetData` returns, and all parts of JSON that is no object (a number, a quoted string, an array),
which throws out of `SetData` (`data_bucket.cpp:132`). A refused set writes nothing, in the row and in `store` (`Refused`). A set without an expiry, and any set of a part, makes the row permanent:
`ExpiryKept` says what is documented instead (run `bucket_expiry`). With `Alone = FALSE` (the character in two zones) or `Gm = TRUE` (a GM edits it from another zone) `CacheCoherent` and
`LastWriteKept` both fail; `Alone` is what `handoff_one_zone` shows not to hold always.

## 3. Runs

| run | what it asks | bounds |
|---|---|---|
| `stream_safety` | type, `InOrderDelivery`, `NothingForgotten`, `QueueAhead`, and that the stream implements `ReliableFifo` | modulus 5, window 2, 3 messages of 1 byte (a packet) or 3 (two fragments), any loss, duplication, reordering, closes |
| `stream_live`, stream | `DeliveredAndAcknowledged` | the same, 3 fragmented messages (6 numbers over a modulus of 5), resend cap 1 |
| `stream_live`, session | `SameKey`, `SessionEnds` | 2 sessions asked for, 3 connections, 3 datagrams under way; lifetime 1, limits 2, 2 and 1 |
| `shops`, together | `NoDupe`, `UniqueSerials`, `SellerPaid` where handlers do not interleave | 2 buyers with 2 coins, a stack of 2 and a single item, 4 listings |
| `shops`, apart | `NoItemLost`, `UniqueSerials`, `NoCoinMinted` with every process apart and one crash | 2 buyers with 1 coin, a stack of 2, 2 listings |
| `shops`, stacks | the same | 2 stacks of 2, 2 listings, 1 of the 2 buyers buys, with 2 coins |
| `shop_race` | finding: two processes hand out one row | |
| `shop_move` | finding: a seller who moves loses what is listed | |
| `launcher`, launcher | `RunningCount`, `HandlersAlive`, `OneProcess`, `WorldInformed`, `StopIsFinal` and `Recovers`, with every danger | 2 zones, 2 objects, 3 processes, kill limit 1 |
| `launcher`, world | `BooksAgree`, `HostedOnce`, `Answered` | 2 processes, 2 zones, 1 player; one death or broken link |
| `launcher_restart` | finding: a restart that never takes place | |
| `launcher_shutdown` | finding: a zone outlives the launcher | |
| `handoff` | `OneZoneIfPrompt`, `GhostDoomed`, `PlayersCounted`, `WorldKnows`, `NoRollback` | 2 zones, 2 logins, 2 clients; with prompt links 1 change of data, 1 crash, refusals |
| `handoff_one_zone` | finding: a character in two zones | |
| `services`, bucket | `CacheCoherent`, `LastWriteKept` | 2 processes, 2 parts, 3 writes, times 1 to 3 |
| `bucket_expiry` | finding: a set without an expiry makes a bucket permanent | |
| `services`, pool | `OnceEach`, `PoolServes` | 2 workers, 2 callers, 3 tasks |
| `services`, link | `LinkFaithful`, `Arrives` | 2 connections, 2 messages each way |

`MCPlayerShops`, `MCServices`, `MCStreamSession` and `MCZones` choose one of their parts at the start and leave the variables of the others alone. In a behaviour of another
part the pool is one that has been stopped, so that its fairness asks nothing of the part that runs; the other parts at rest have nothing that theirs asks for.

Why the bounds are enough. *Stream*: up to 6 packets over 5 residues wrap the numbers, so an old
residue meets a new packet; a window of 2 has a packet ahead of its turn in flight beside old copies;
two lengths give plain packets between fragmented messages. The safety results the proofs cover
do not depend on these bounds at all, and neither do those of any other part. *Shop*: every hazard needs at most two handlers and one crash;
a second buyer and a second unit make partial purchases, resales of the rest and two escrow
payments meet; a second stack gives a serial that is used again another item. *Launcher*: two zones share `s_running`, `m_signalCount` and the child table; two objects are those of two zones, or of one that is stopped,
deleted and started again while its old process may still be dying; `KillLimit` 1 stands for
the literal 5, it only counts repetitions of one step. *Handoff*: two clients of one character, in two zones, are what the properties
are about; the second login is the player who comes back while the first client is linkdead. With slow links the data do not change and no zone
dies, which the properties that hold there do not look at. *Session*: two sessions of one address are enough for a datagram of
the one to meet the other; a third connection is one that a late copy makes; the limits are the smallest `SessionAssumption` allows. *Zone servers*: two processes for two zones make the second boot of a zone, and a boot for which no
process is left, possible; the player enters, and another zone's players ask for a zone, while at most two messages are in flight, or none if `faulty`, so that a request can come
between a greeting, an order and its answer, and the handlers' answers come on top of that. *Services*: three tasks over two workers and a
second connection with a message left over from the first are the smallest cases with every interleaving the hazards describe; the safety properties
of all three are also proved for any size. Deadlock is not checked: with the bounds on messages,
listings and launches every system here comes to rest.

Fairness. *Stream*: the process ticks for ever (weak fairness of `ProcessResend`, `StartProcessQueue`,
`ProcessQueue`), and a datagram resent for ever gets through (strong fairness of receiving a packet
the resend picks and of an acknowledgement that removes one; loss stays possible). *Launcher*: the loop
goes round every 32 ms and every timer that is on ends (weak fairness of reaping and of `Again`), signals
are delivered and kill. *Session*: time goes on and the timer fires (weak fairness of `Tick` and `OnTimer`; the event loop runs
it sixty times a second); nothing need arrive. *Zone servers*: only that the boot timer of a waiting player fires (weak fairness of `Autobootup`): `TellClientZoneUnavailable` turns it
off and nothing else does. *Pool*: threads run (weak fairness), and one that tries for the lock gets it in the end (strong fairness of `Test` and `Push`). *Link*: the
event loop of each end reads what has arrived (weak fairness). The handoff and the bucket have no liveness property. The shop has no liveness property yet, and none of its runs assumes fairness.

## 4. Findings

* `shop_race` / `NoDupe`: `active_transaction` is a flag that is read, checked and written by separate statements
  (`trading.cpp:3599-3624`), and a pull never looks at it. Two zone processes hand out one row twice. (An item that a list names
  twice is duplicated in one process too, `trading.cpp:1463-1517` and `inventory.cpp:967-979`; the run's is one that none has.)
* `shop_move` / `NoItemLost`: listing makes the seller a trader, and a trader who moves has all rows deleted
  (`client_packet.cpp:4982`, `trading.cpp:932`), although the rows are the items.
* `launcher_shutdown` / `NoneLeft`: `TerminateAll(true)` empties the table before it looks the children up in it
  (`proc_launcher.cpp:315`, `279`), so nobody is killed.
* `launcher_restart` / `RestartEnds`: a restarting zone that has not died in time is to be killed again (`zone_launch.cpp:188`), but `Restart()` only logs in
  that state, so one that ignores SIGTERM runs on and is never restarted.
* `bucket_expiry` / `ExpiryKept`: an expiry that is not given "does not modify the existing" (`gm_commands/databuckets.cpp:29`), and nested keys leave the parent's (`data_bucket.cpp:84`),
  but `SetData` assigns it in every case (`data_bucket.cpp:89`).
* `handoff_one_zone` / `OneZoneAtATime`: the cache of data buckets relies on a character being in one zone at a time (`data_bucket.cpp:846`), but
  the order to drop it elsewhere (`world/client.cpp:1434`) is not acknowledged before it enters.

## 5. Proofs

### The stream (`ReliableStreamProofs`)

For every modulus, window with `2 * SeqWindow < SeqMod`, fragment size, resend cap and number of messages:

| theorem | |
|---|---|
| `CompareSequenceCorrect` | on numbers at most `SeqWindow` apart `CompareSequence` of the residues is the order of the numbers |
| `TypeCorrect` | `Spec => []TypeOK` |
| `NoPacketForgotten` | `Spec => []NothingForgotten` |
| `QueueNeverStale` | `Spec => []QueueAhead` |
| `DeliveredInOrder` | `Spec => []InOrderDelivery` |
| `StreamIsFifo` | `Spec => ImplementsFifo`: the stream implements `ReliableFifo` |

They rest on the constants' assumptions (`SeqAssumption`, `CapAssumption`) and on the model's `Expire` and `HasRoom`.

The argument is one inductive invariant, `Inductive`. `NothingForgotten` alone is not inductive: an
acknowledgement in flight could name a packet nobody has. So `AcksTrue` says that what an acknowledgement names
has arrived, and that it is at most `SeqWindow` behind the newest packet; `Numbered` that residues are the
residues of true numbers and that the two ends are at most `SeqWindow` apart; `SentInWindow` that
everything in the resend list is as close. With these, every comparison the code makes is between numbers
that are `Near`, `CompareSequenceCorrect` replaces residues by numbers, and what an `Ack` erases has
arrived. `PacketsFresh` does the same for packets in flight against the receiver, and `QueueLogged` says that
what waits is the packet of that number. The proof has one lemma per action.

Delivery needs a second invariant, `InOrder`, about `log`: it is the messages queued, one after the other, each cut into its
pieces. The receiver stands at the end of a message, or within one with the bytes of the pieces so far in hand, and `accepted` is how many pieces
that makes. By `Numbered` and `QueueLogged` the packet the receiver takes next is `log[accepted + 1]`, so it is the next piece (`NextPiece`), and
it either continues the message in hand or completes it (`CountInOrder`). The refinement follows step by step (`StepIsFifo`): queueing a message is
the abstract `Queue`, completing one the abstract `Deliver`, anything else a stutter.

### The session (`StreamSessionProofs`)

For any limits with `2 * Lifetime <= connection_close_time` and `2 * Lifetime <= stale_connection_ms`, any number of sessions, connections and datagrams:

| theorem | |
|---|---|
| `TypeCorrect` | `Spec => []TypeOK` |
| `KeyAgreed` | `Spec => []SameKey` |

`SameKey` is about two ends that never see each other; its invariant `Inductive` is about the datagrams between them. An answer the client would
take is of the connection there is, and was sent when that was last heard of, or before it was closed (`Answers`), so it is no older than the
connection's silence. A client that plays has stopped asking, so every request under way is at most one lifetime younger than that silence (`Asked`): by the time the connection
is stale or closed for long enough, the last request is dead. `Left` covers the end without delay, after the client's own disconnect: who has left a session is not in it again.
`Numbered` says that the client's code and the connection's key are the last ones chosen. One lemma per handler.

### The handoff (`CharacterHandoffProofs`)

For any zones, number of logins and of clients, and changes of the data, under `HandoffAssumption`:

| theorem | |
|---|---|
| `TypeCorrect` | `Spec => []TypeOK` |
| `CountsTrue` | `Spec => []PlayersCounted` |
| `GhostsGo` | `Spec => []GhostDoomed` |
| `OneZonePrompt` | `Spec => []OneZoneIfPrompt` |
| `WorldFollows` | `Spec => []WorldKnows` |
| `NothingRolledBack` | `Spec => NoRollback` |

The last three say `prompt` themselves; `Rested` is part of the model (section 2). `PlayersCounted` is about cardinalities: every method of the entry is proved to
keep `Counted` of any list it is given, so that the steps which call several of them one after the other need nothing more. For the others the invariant `Inductive` says
what the messages in flight and the clients have to do with each other:

* `OneStays`: of two clients in a zone one is going, and the one that stays is the newest, so that an order that comes to the zone finds whom it is for; `Rested` keeps it so. `AllDoomed`: whoever is on
  the way to a zone comes after the orders to drop the clients there are. `GhostDoomed` is part of the invariant beside them.
* `Alone`: with `prompt` there is one client of the character at a time, and its data are no older than the row's; so a save never is older.
* `Issued`, `ListFollows`: an id that anybody holds was given out by the world; with `prompt` only the zone of the one client speaks of it (`Heard`), nobody has spoken of a client that still
  connects (`Silent`), and of one that plays, the entry it will have once it has heard every `ChangeWID` under way (`Named`) is in its zone, or the zone has said so and the message is in flight
  (`Known`). When nothing is in flight, that is `WorldKnows`.

### The zone servers (`ZoneServersProofs`)

For any processes, zones and players, under `ZoneServersAssumption`:

| theorem | |
|---|---|
| `TypeCorrect` | `Spec => []TypeOK` |
| `BooksFollow` | `Spec => []BooksAgree`, with failed boots, deaths and broken links |
| `OneHost` | `Spec => []HostedOnce`, which itself says `~faulty /\ ~overtaken` |

`BooksAgree` looks at empty links only, so it says nothing of what is on its way. `Inductive` follows each process through its link: `Link` says that a link that has ended says so
last, and that the world knows a process while it holds; `Follow` that the books are right, or the last `SetZone` under way will put them right, or an order is on its way that the process
will answer with one. `OneBook` carries `HostedOnce`: without faults all that is under way about a process is about the one zone it has in the books, or says that it hosts nothing, and that last and of one that is not booting; and no other has that zone there.

### The launcher (`ZoneLauncherProofs`)

For any set of zones, kill limit and number of requests and processes, and any choice of the dangers (signals that coalesce, `kill()` that fails,
children that ignore SIGTERM or outlive SIGKILL, an end at any moment); nothing is assumed:

| theorem | |
|---|---|
| `LauncherTypeCorrect` | `Spec => []TypeOK` |
| `StopStaysFinal` | `Spec => StopIsFinal` |
| `RunningCounted` | `Spec => []RunningCount` |
| `HandlersNeverDangle` | `Spec => []HandlersAlive` |
| `OneProcessPerZone` | `Spec => []OneProcess` |
| `WorldKnows` | `Spec => []WorldInformed` |

The last four say what holds of a child until the launcher gives it up, and `RunningCount` what holds after that as well (section 2).

None of the four is inductive by itself. The invariant is `Books`: `Registered` (a child in the table that is not given up belongs to a
running zone that remembers its pid and is its handler), `Hosted` (a running zone's pid is in the table and not given up), `Abandoned` (the handler of one that is
given up is a stopped zone, or gone: so its death, when it is reaped, stops nothing that runs), `Numbered` (objects are told apart), `Unreaped` (the table is exactly the
children not yet reaped), and the counts. It only holds while the main
loop runs, because the shutdown empties the table; `OneProcess` is carried beyond it on its own.

### The shop (`PlayerShopProofs`)

For any items, stacks, buyers and coins, under `ShopAssumption`:

| theorem | assumes | |
|---|---|---|
| `TypeCorrect` | nothing | `Spec => []TypeOK` |
| `CoinNotMinted` | nothing | `Spec => []NoCoinMinted` |
| `SerialsUnique` | nothing | `[]UniqueSerials`, which itself says `~interrupted` |
| `SellerIsPaid` | `NothingLost` | `[]SellerPaid` |
| `NoDupeInOneProcess` | `SameZone`, `NobodyDies` | `[]NoDupe`, of the items no list names twice |
| `ItemsNotLost` | `~MayMove`, `~SerialsMeet` | `[]NoItemLost`, which itself says `~interrupted` |

What a behaviour must not do is an action formula beside `Spec`: `NobodyDies`, and `NothingLost` (nobody dies and no zone drops the message of a purchase). Each is as weak as the model allows: without it the property fails (section 2).
With `MaxCrashes = 0` nobody dies, and if the seller also stays nothing is lost: the corollaries `NoDupeUnlessKilled` and `SellerPaidWhoStays` say so.

`NoCoinMinted`, `SellerPaid`, `NoDupe` and `NoItemLost` are about sums over buyers, rows and messages, so the module first proves what `SumFunction` does when one term
changes, is added or is taken away. Its definition chooses a function that is defined by itself; that there is exactly one on the subsets of a finite set is shown by induction over
these (`FiniteInduction`, from the well-foundedness of strict inclusion, with the set of the good subsets in the place of a predicate).

* `Typed` is the types, what each handler holds at each step (`Handlers`), and that a row is known by its id (`Numbers`).
* `Serials` is about the rows *and* the copies of rows in buyers' handlers (`Known`): the counter is past all of them, and a serial says which listing is meant. Without the copies it is not inductive, nor enough for the rest:
  a purchase finds its row by serial when it writes what is left of it. It holds until a process dies in the middle of a listing: `Finishes` says that a step that leaves `interrupted` false
  lets a listing finish (`ListingsFinish`).
* `CoinNotMinted` follows from `Coin`, which adds up the purses, what the buyers' handlers owe, and what is due to the seller (`Due`: messages, the world's handler, the bucket, the handler that has cleared it), and which no step increases.
  `Messages` says that a message is told from every other, so that the set in flight loses and gains what is sent; `Bucket` that who is between a read and a write of the bucket is alone with it.
  `SellerIsPaid` has the same terms in an equation, `Paid`: what the seller has, is due and is owed is what was sold.
* `NoDupeInOneProcess`: `OneAtATime` (one handler at a time), `Fresh` and `PulledThere` (what a handler has read is still so), and `Once`: an item counts twice only while the handler that moves it is under way.
* `ItemsNotLost` needs more than a sum, because stale copies of a row are written back. `Kept` counts of a listing only what is `Sure`: the least number of charges that the table or a handler has seen. A purchase that
  writes an older rest over a newer one then takes nothing that was counted, and what it delivered is counted (`Got`) once its row is taken off. What is in the bags counts while it is not on the shop too (`Held`).

### The shop in three places (`MCPlayerShopsProofs`)

The run `shops` is a behaviour of `PlayerShop` with one of three sets of constants (`OnePlace`), so each theorem of `PlayerShopProofs` gives one about the run, for any values of each set:

| theorem | assumes | |
|---|---|---|
| `TypesInAll` | nothing | `MCSpec => []Types` |
| `NeverTwice` | `SameZone`, `MaxCrashes = 0` | `MCSpec => []NoDupeTogether` |
| `SerialsStayUnique` | nothing | `MCSpec => []UniqueSerialsInAll` |
| `EverySalePaid` | `MaxCrashes = 0`, `~MayLeave`, a seller in the zone or offline | `MCSpec => []SellerPaidTogether` |
| `PaidAtMostOnce` | nothing | `MCSpec => []NoCoinMintedApart` |
| `NothingLostApart` | nothing | `MCSpec => []NoItemLostApart` |

### The services (`MCServicesProofs`)

| theorem | assumes | |
|---|---|---|
| `TypeCorrect`, `PoolTypeCorrect`, `LinkTypeCorrect` | nothing | the types of the bucket, the pool and the link |
| `CacheIsRow` | `BucketsAssumption` | `Spec => []CacheCoherent`, which itself says `Alone /\ ~Gm` |
| `NoWriteLost` | `BucketsAssumption` | `Spec => []LastWriteKept`, likewise |
| `StopWakes` | nothing | `Pool!Spec => []Pool!SleepersMissed`: Stop misses no worker but one that is about to sleep |
| `TasksOnce` | nothing | `Pool!Spec => []Pool!OnceEach`, for any workers, callers and tasks |
| `ReadFaithfully` | `MaxConnections \in Nat` | `Link!Spec => []Link!LinkFaithful`, for any number of connections and messages |
| `ServicesTyped` | `ServicesAssumption` | `MCSpec => []Types` |
| `BucketsServe` | `BucketsAssumption` | `MCSpec => []CacheCoherent /\ []LastWriteKept` |
| `EveryTaskOnce` | nothing | `MCSpec => []OnceEach` |
| `LinkReadsFaithfully` | `ServicesAssumption` | `MCSpec => []LinkFaithful` |

The last four are about the run `services`, the three side by side: a step of it is a step of each or leaves it alone (`EachStep`), and a pool that has been stopped has no task (`StoppedPool`).

*Bucket.* What a handler has read must still be the row when it writes, although the cache may have been cleared
meanwhile: `BucketInv` says that only one process has anything of the character's, that its cache is empty, a miss, or the row, that what
it has read is the row, and that the row has the value and the expiry of `store`, so that a part is refused in both or in neither.

*Pool.* `OnceEach` is proved by `OnceInv`, which names how many tasks have been taken and says of every worker's task that it is one of them. `SleepersMissed` is
not inductive, because a worker that is about to sleep is not asleep yet: `StopInv` says it of those too, and that `running` is down once the owner
has begun to stop.

*Link.* Which frames `Read` finds in a buffer is a `CHOOSE`, whose value exists because there is a first place that is no head (`FramesThere`). The invariant says of each connection that what was
read, what is in the buffer and what is on its way are together what was written, unit by unit (`Through`); then a buffer always begins with a head, so that all its whole
frames are read and at most a head is left (`WholeFrames`). On the client's side it holds of the connection there is, as long as none has ended with a piece of a frame in the one
buffer (`ClientSide`).

### Only model-checked

* All liveness: `DeliveredAndAcknowledged`, `SessionEnds`, `Recovers`, `Answered`, `PoolServes`, `Arrives` (out of reach of the prover).
* The compositions `MCStreamSession` and `MCZones`, whose parts take no step together: each part is proved alone, for every size.

## 6. Not modelled, and the plan

Modelled first was what everything else stands on (the stream), what the fork adds of its own
and holds players' property (the shop), and what keeps the zones running (the launcher); then the world's side of
zones and characters, and the services they all use. Next, in this order:

1. The shop over `ServertalkLink`: the payment that is lost with the link.
2. `ResendTimer`: when a tick resends, by packet, with a clock; exceptions from the callback; the streams of `EQStreamManager`.
3. The login server's play request; shared tasks and dynamic zones; shared memory and its mutex; inventory and trade as conservation of items.

Parts that belong together share a run (`MCServices`, `MCStreamSession`, `MCZones`), so that the project stays quick to check as a whole.

Not planned: combat, spells, AI, quests (game rules over large data, one thread), ucs and queryserv (single-threaded
list keeping), generated repositories, client patches and utilities (pure functions, I/O).
