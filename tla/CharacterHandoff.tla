-------------------------- MODULE CharacterHandoff --------------------------
(***************************************************************************)
(* One character on its way between the character selection and the zones, *)
(* and from zone to zone: the world's client list (world/clientlist.cpp,   *)
(* cliententry.cpp), the world's connection of the player (world/client.cpp)*)
(* and the Client objects in the zone processes (zone/worldserver.cpp,     *)
(* zone/zoning.cpp, zone/client_process.cpp).  World and zones share       *)
(* nothing but one TCP link each and the character's row in the database.  *)
(* Every zone is loaded and has one process: ZoneServers models booting.   *)
(***************************************************************************)
EXTENDS Integers, FiniteSets, Sequences

CONSTANTS
    Zones,        \* zones, each hosted by a process of its own
    NoZone,       \* m_zone_server = 0
    MaxLogins,    \* entries of the client list that are ever made
    MaxBodies,    \* Client objects that are ever made
    Promptness,   \* {TRUE}, {FALSE} or both: see Settled
    MaxPlay,      \* changes of the character's data, by prompt like the next four
    LinkRoom,     \* a client refreshes its entry only with fewer messages on the link
    Backlog,      \* a player enters or changes zone only with fewer messages to each zone
    MaxCrashes,   \* zone processes that die
    MayRefuse     \* a zone may be locked or full

ASSUME HandoffAssumption ==
    /\ NoZone \notin Zones
    /\ {MaxLogins, MaxBodies} \subseteq Nat
    /\ Promptness \subseteq BOOLEAN
    /\ {MaxPlay, LinkRoom, Backlog, MaxCrashes} \subseteq [BOOLEAN -> Nat]
    /\ MayRefuse \in [BOOLEAN -> BOOLEAN]

VARIABLES
    list,      \* the client list: entries by id, numplayers, zone_player_count
    player,    \* the person: where the game client is and what it holds
    body,      \* Client objects in the zones, numbered in the order they are made
    auth,      \* the id authorised to enter each zone, or 0
    db,        \* the character's row: its data and its zone
    to_zone, to_world,  \* the links
    clock,     \* ghost: the newest data anybody has made
    made,      \* bodies made so far
    crashes, prompt

vars == <<list, player, body, auth, db, to_zone, to_world, clock, made, crashes, prompt>>
world == <<list, player>>
bounds == <<clock, made, crashes, prompt>>

\* CLE_Status, in its order.
Never == 0
Offline == 1
Online == 2
CharSelect == 3
Zoning == 4
InZone == 5

Ids == 1 .. MaxLogins
Bodies == 1 .. MaxBodies
NoEntry == [listed |-> FALSE, key |-> FALSE, online |-> Never, server |-> NoZone]
NoBody == [zone |-> NoZone, state |-> "none", data |-> 0, dest |-> NoZone, id |-> 0, loaded |-> FALSE]
Out == [at |-> "out", id |-> 0, zone |-> NoZone, body |-> 0]

Init ==
    /\ list = [next |-> 1, entry |-> [i \in Ids |-> NoEntry],
               numplayers |-> 0, players |-> [z \in Zones |-> 0]]
    /\ player = Out
    /\ body = [n \in Bodies |-> NoBody]
    /\ auth = [z \in Zones |-> 0]
    /\ \E z \in Zones : db = [data |-> 0, zone |-> z]
    /\ to_zone = [z \in Zones |-> <<>>] /\ to_world = [z \in Zones |-> <<>>]
    /\ clock = 0 /\ made = 0 /\ crashes = 0
    /\ prompt \in Promptness

-----------------------------------------------------------------------------
(***************************************************************************)
(* The client list.  Each operator is a method of ClientListEntry on the   *)
(* entry i of the list l; the counters change as the method changes them.  *)
(***************************************************************************)

Camp(l, i) ==
    LET z == l.entry[i].server
    IN IF z = NoZone THEN l ELSE [l EXCEPT !.players[z] = @ - 1, !.entry[i].server = NoZone]

SetOnline(l, i, s) ==
    LET old == l.entry[i].online
        set == [l EXCEPT
                  !.numplayers = IF s >= Online /\ old < Online THEN @ + 1
                                 ELSE IF s < Online /\ old >= Online THEN @ - 1 ELSE @,
                  !.entry[i].online = IF s # Online \/ old < Online THEN s ELSE @]
    IN IF s < Zoning THEN Camp(set, i) ELSE set

\* Mutant: the zone left keeps counting the client.
UpdateUncounted(l, i, z, s) ==
    SetOnline(IF l.entry[i].server = z THEN l
              ELSE [l EXCEPT !.players[z] = @ + 1, !.entry[i].server = z], i, s)

Update(l, i, z, s) ==
    LET left == Camp(l, i)
        moved == IF l.entry[i].server = z THEN l
                 ELSE [left EXCEPT !.players[z] = @ + 1, !.entry[i].server = z]
    IN SetOnline(moved, i, s)

LeavingZone(l, i, z, s) ==
    IF z # l.entry[i].server THEN l ELSE Camp(SetOnline(l, i, s), i)

NewEntry(l, key) ==
    [l EXCEPT !.next = @ + 1, !.entry[l.next] = [NoEntry EXCEPT !.listed = TRUE, !.key = key]]

\* The answer to UpdateWho(0), (1) and (2) of a client whose entry is in the list.
Statuses == <<InZone, Zoning, Offline>>

\* ... and of one whose entry is not: a new entry, without the session key.
NewStatuses == <<InZone, Zoning, Online>>

Recreate(l, z, remove) ==
    LET s == NewStatuses[remove + 1]
    IN IF s >= Zoning THEN Update(NewEntry(l, FALSE), l.next, z, s)
                      ELSE SetOnline(NewEntry(l, FALSE), l.next, s)

RemoveZone(l, z) ==
    LET here == {i \in Ids : l.entry[i].server = z}
    IN [l EXCEPT !.entry = [i \in Ids |-> IF i \in here
                              THEN [@[i] EXCEPT !.server = NoZone, !.online = Offline] ELSE @[i]],
                 !.numplayers = @ - Cardinality({i \in here : l.entry[i].online >= Online}),
                 !.players[z] = 0]

-----------------------------------------------------------------------------
(***************************************************************************)
(* The zones' side.                                                        *)
(***************************************************************************)

In(z) == {n \in Bodies : body[n].zone = z}

\* What entity_list finds by name, by account or by character; 0 when there is none.
Found(z) == IF In(z) = {} THEN {0} ELSE In(z)

\* Client::Save: nothing is written before the data have been loaded.
Saved(b) == IF b.loaded THEN [data |-> b.data, zone |-> b.dest] ELSE db

Short == \A z \in Zones : Len(to_zone[z]) < Backlog[prompt]

Say(link, z, m) == [link EXCEPT ![z] = Append(@, m)]
Who(n, remove) == [type |-> "ClientList", id |-> body[n].id, remove |-> remove]
Drop == [type |-> "DropClient"]
AcceptEntrance(r) == [type |-> "AcceptWorldEntrance", response |-> r]
ZoneToZone(from, to, r) == [type |-> "ZoneToZoneRequest", from |-> from, to |-> to, response |-> r]

\* Whoever plays a body that is kicked is back at the login screen.
WithoutBody(n) == IF n # 0 /\ player.body = n THEN Out ELSE player

\* Mutant: the client forgets its zone before it is saved.
KickForgetsZone(n) ==
    IF n = 0 THEN UNCHANGED <<body, db, player>>
    ELSE /\ body' = [body EXCEPT ![n].state = "leaving", ![n].dest = NoZone]
         /\ db' = Saved(body'[n])
         /\ player' = WithoutBody(n)

\* Kick and Save.
Kick(n) ==
    IF n = 0 THEN UNCHANGED <<body, db, player>>
    ELSE /\ body' = [body EXCEPT ![n].state = "leaving"]
         /\ db' = Saved(body[n])
         /\ player' = WithoutBody(n)

-----------------------------------------------------------------------------
(***************************************************************************)
(* The player and the world.                                               *)
(***************************************************************************)

\* The login server announces the player: a new entry with the session key.
CLEAdd ==
    /\ player.at = "out" /\ list.next <= MaxLogins
    /\ list' = NewEntry(list, TRUE)
    /\ player' = [Out EXCEPT !.at = "keyed", !.id = list.next]
    /\ UNCHANGED <<body, auth, db, to_zone, to_world, bounds>>

\* The client connects to the world, for character selection or between two zones.
HandleSendLoginInfoPacket ==
    /\ player.at \in {"keyed", "camped", "told"}
    /\ LET e == list.entry[player.id]
           zoning == player.at = "told"
       IN IF e.listed /\ e.key
          THEN /\ list' = SetOnline(list, player.id, IF zoning THEN Online ELSE CharSelect)
               /\ player' = [player EXCEPT !.at = IF zoning THEN "passing" ELSE "select"]
          ELSE /\ player' = Out
               /\ UNCHANGED list
    /\ UNCHANGED <<body, auth, db, to_zone, to_world, bounds>>

\* The processes run their clients every 32 ms: one that was disconnected when another came
\* is gone before that one's player, or the next, is back in the world.
Rested == \A n, k \in Bodies :
    body[n].zone = body[k].zone /\ body[n].state = "leaving" => body[k].state = "leaving"

\* Mutant: nobody is dropped.
EnterWorldAlone ==
    /\ player.at \in {"select", "passing"} /\ Short /\ Rested
    /\ to_zone' = [to_zone EXCEPT ![db.zone] = @ \o <<[type |-> "IncClient", id |-> player.id]>>
                      \o (IF player.at = "select" THEN <<AcceptEntrance(0)>> ELSE <<>>)]
    /\ player' = [player EXCEPT !.at = IF player.at = "select" THEN "asking" ELSE "cleared", !.zone = db.zone]
    /\ list' = IF player.at = "select" THEN list ELSE SetOnline(list, player.id, Zoning)
    /\ UNCHANGED <<body, auth, db, to_world, bounds>>

\* EnterWorld: the other zones are told to drop the account, the character's zone that
\* it comes.  From character selection the zone is asked first; between zones the
\* client is sent on at once.
EnterWorld ==
    /\ player.at \in {"select", "passing"} /\ Short /\ Rested
    /\ LET ask == player.at = "select"
           coming == <<[type |-> "IncClient", id |-> player.id]>>
       IN /\ to_zone' = [z \in Zones |->
                           IF z # db.zone THEN Append(to_zone[z], Drop)
                           ELSE to_zone[z] \o coming \o (IF ask THEN <<AcceptEntrance(0)>> ELSE <<>>)]
          /\ player' = [player EXCEPT !.at = IF ask THEN "asking" ELSE "cleared", !.zone = db.zone]
          /\ list' = IF ask THEN list ELSE SetOnline(list, player.id, Zoning)
    /\ UNCHANGED <<body, auth, db, to_world, bounds>>

\* The player closes the game, or the line breaks.  A world connection without a zone yet
\* takes its entry offline; a body is found out later by its zone.
Quit ==
    /\ player.at # "out"
    /\ list' = IF player.at \in {"select", "passing"} THEN SetOnline(list, player.id, Offline) ELSE list
    /\ player' = Out
    /\ UNCHANGED <<body, auth, db, to_zone, to_world, bounds>>

\* With prompt, what is in flight arrives before an entry is stale for 200 seconds; and it
\* arrives, and a kicked client is gone, before the player is connected to a new zone.
Quiet == \A z \in Zones : to_zone[z] = <<>> /\ to_world[z] = <<>>
Settled == Quiet /\ \A n \in Bodies : body[n].state # "leaving"

\* Entries nobody keeps alive: the world's connection and the zone of a connected body do.
KeptAlive(i) ==
    \/ player.id = i /\ player.at \in {"keyed", "select", "passing", "asking"}
    \/ \E n \in Bodies : body[n].id = i /\ body[n].state \in {"playing", "told", "linkdead"}

CheckStale(i) ==
    /\ list.entry[i].listed /\ ~KeptAlive(i)
    /\ Quiet
    /\ list' = [SetOnline(list, i, Offline) EXCEPT !.entry[i] = NoEntry]
    /\ UNCHANGED <<player, body, auth, db, to_zone, to_world, bounds>>

Took(z) == to_world' = [to_world EXCEPT ![z] = Tail(@)]
FromZone(z, type) == to_world[z] # <<>> /\ Head(to_world[z]).type = type

\* Mutant: the client is not told the id of its new entry.
ClientUpdateSilent(z) ==
    /\ FromZone(z, "ClientList")
    /\ Took(z)
    /\ LET m == Head(to_world[z])
       IN IF list.entry[m.id].listed
          THEN list' = IF m.remove = 0 THEN Update(list, m.id, z, InZone)
                       ELSE LeavingZone(list, m.id, z, Statuses[m.remove + 1])
          ELSE list.next <= MaxLogins /\ list' = Recreate(list, z, m.remove)
    /\ UNCHANGED <<player, body, auth, db, to_zone, bounds>>

ClientUpdate(z) ==
    /\ FromZone(z, "ClientList")
    /\ Took(z)
    /\ LET m == Head(to_world[z])
       IN IF list.entry[m.id].listed
          THEN /\ list' = IF m.remove = 0 THEN Update(list, m.id, z, InZone)
                          ELSE LeavingZone(list, m.id, z, Statuses[m.remove + 1])
               /\ UNCHANGED to_zone
          ELSE /\ list.next <= MaxLogins
               /\ list' = Recreate(list, z, m.remove)
               /\ to_zone' = [y \in Zones |-> Append(to_zone[y], [type |-> "ChangeWID", id |-> list.next])]
    /\ UNCHANGED <<player, body, auth, db, bounds>>

\* Clearance: the zone's answer is for the account's connection, if it still waits.
Clearance(z) ==
    /\ FromZone(z, "AcceptWorldEntrance")
    /\ Took(z)
    /\ IF player.at # "asking" THEN UNCHANGED <<list, player>>
       ELSE IF Head(to_world[z]).response = 1
       THEN /\ player' = [player EXCEPT !.at = "cleared"]
            /\ list' = SetOnline(list, player.id, Zoning)
       ELSE /\ player' = [player EXCEPT !.at = "select", !.zone = NoZone]
            /\ UNCHANGED list
    /\ UNCHANGED <<body, auth, db, to_zone, bounds>>

\* A request to zone is answered by the world and passed on; the target's own answer is
\* passed back to the zone the character comes from.
RouteZoneToZone(z) ==
    /\ FromZone(z, "ZoneToZoneRequest")
    /\ Took(z)
    /\ LET m == Head(to_world[z])
       IN \/ m.from # z /\ to_zone' = Say(to_zone, m.from, m)
          \/ m.from = z /\ to_zone' = Say(Say(to_zone, z, ZoneToZone(z, m.to, 1)), m.to, ZoneToZone(z, m.to, 1))
          \/ m.from = z /\ MayRefuse[prompt] /\ to_zone' = Say(to_zone, z, ZoneToZone(z, m.to, 0))
    /\ UNCHANGED <<list, player, body, auth, db, bounds>>

-----------------------------------------------------------------------------
(***************************************************************************)
(* The zones.                                                              *)
(***************************************************************************)

Got(z) == to_zone' = [to_zone EXCEPT ![z] = Tail(@)]
ToZone(z, type) == to_zone[z] # <<>> /\ Head(to_zone[z]).type = type

\* ServerOP_ZoneIncClient: a client of the account that is still here is kicked.
IncClient(z) ==
    /\ ToZone(z, "IncClient")
    /\ Got(z)
    /\ \E n \in Found(z) : Kick(n)
    /\ auth' = [auth EXCEPT ![z] = Head(to_zone[z]).id]
    /\ UNCHANGED <<list, to_world, bounds>>

\* Mutant: only the authorisation is taken back.
DropAuth(z) ==
    /\ ToZone(z, "DropClient")
    /\ Got(z)
    /\ auth' = [auth EXCEPT ![z] = 0]
    /\ UNCHANGED <<world, body, db, to_world, bounds>>

DropClient(z) ==
    /\ ToZone(z, "DropClient")
    /\ Got(z)
    /\ \E n \in Found(z) : Kick(n)
    /\ auth' = [auth EXCEPT ![z] = 0]
    /\ UNCHANGED <<list, to_world, bounds>>

AcceptWorldEntrance(z) ==
    /\ ToZone(z, "AcceptWorldEntrance")
    /\ Got(z)
    /\ \E r \in {1} \cup (IF MayRefuse[prompt] THEN {-1} ELSE {}) : to_world' = Say(to_world, z, AcceptEntrance(r))
    /\ UNCHANGED <<world, body, auth, db, bounds>>

ChangeWID(z) ==
    /\ ToZone(z, "ChangeWID")
    /\ Got(z)
    /\ \E n \in Found(z) : body' = IF n = 0 THEN body ELSE [body EXCEPT ![n].id = Head(to_zone[z]).id]
    /\ UNCHANGED <<world, auth, db, to_world, bounds>>

\* The answer to a request to zone, in the zone that asked: a success sends the client
\* away and stores the target as its zone, a refusal stores this zone.
ZoneChangeReply(z) ==
    /\ ToZone(z, "ZoneToZoneRequest") /\ Head(to_zone[z]).from = z
    /\ Got(z)
    /\ \E n \in Found(z) :
          LET m == Head(to_zone[z])
              allowed == m.response > 0
              dest == IF allowed THEN m.to ELSE z
              goes == allowed /\ body[n].state = "playing"
          IN IF n = 0 THEN UNCHANGED <<body, db, to_world, player>>
             ELSE /\ body' = [body EXCEPT ![n].dest = dest, ![n].state = IF goes THEN "told" ELSE @]
                  /\ db' = [data |-> body[n].data, zone |-> dest]
                  /\ to_world' = IF allowed THEN Say(to_world, z, Who(n, 1)) ELSE to_world
                  /\ player' = IF goes /\ player.body = n
                               THEN [player EXCEPT !.at = "told", !.body = 0, !.zone = NoZone] ELSE player
    /\ UNCHANGED <<list, auth, bounds>>

\* ... and in the zone that is asked for.
ZoneChangeRequest(z) ==
    /\ ToZone(z, "ZoneToZoneRequest") /\ Head(to_zone[z]).from # z
    /\ Got(z)
    /\ \E r \in {1} \cup (IF MayRefuse[prompt] THEN {-1} ELSE {}) :
          to_world' = Say(to_world, z, [Head(to_zone[z]) EXCEPT !.response = r])
    /\ UNCHANGED <<world, body, auth, db, bounds>>

\* OP_ZoneEntry: an older client of that name is saved and disconnected, then the
\* character is read from the database.  The data are written back only once all of
\* them have arrived (CompleteConnect).
ZoneEntry(z) ==
    /\ player.at = "cleared" /\ player.zone = z
    /\ prompt => Settled
    /\ made < MaxBodies
    /\ \E ghost \in Found(z) :
          LET saved == IF ghost = 0 THEN db ELSE Saved(body[ghost])
              rest == IF ghost = 0 THEN body ELSE [body EXCEPT ![ghost].state = "leaving"]
          IN /\ db' = saved
             /\ IF auth[z] = 0 THEN body' = rest /\ player' = Out /\ UNCHANGED made
                ELSE /\ body' = [rest EXCEPT ![made + 1] =
                           [zone |-> z, state |-> "connecting", data |-> saved.data, dest |-> z,
                            id |-> auth[z], loaded |-> FALSE]]
                     /\ player' = [player EXCEPT !.at = "inzone", !.body = made + 1]
                     /\ made' = made + 1
    /\ UNCHANGED <<list, auth, to_zone, to_world, clock, crashes, prompt>>

Plays(n) == player.body = n /\ body[n].state = "playing"

\* The process runs its clients every 32 ms: one that was disconnected is gone by now.
CompleteConnect(n) ==
    /\ player.body = n /\ body[n].state = "connecting"
    /\ \A k \in In(body[n].zone) : body[k].state # "leaving"
    /\ body' = [body EXCEPT ![n].state = "playing", ![n].loaded = TRUE]
    /\ to_world' = Say(to_world, body[n].zone, Who(n, 0))
    /\ UNCHANGED <<world, auth, db, to_zone, bounds>>

Play(n) ==
    /\ Plays(n) /\ clock < MaxPlay[prompt]
    /\ clock' = clock + 1
    /\ body' = [body EXCEPT ![n].data = clock + 1]
    /\ UNCHANGED <<world, auth, db, to_zone, to_world, made, crashes, prompt>>

\* The timer that saves, and whatever else saves while a client is in the zone.
Save(n) ==
    /\ body[n].state \in {"playing", "told", "linkdead"}
    /\ db' = Saved(body[n])
    /\ UNCHANGED <<world, body, auth, to_zone, to_world, bounds>>

\* UpdateWho(0), sent whenever something the list shows has changed.
UpdateWho(n) ==
    /\ Plays(n) /\ Len(to_world[body[n].zone]) < LinkRoom[prompt]
    /\ to_world' = Say(to_world, body[n].zone, Who(n, 0))
    /\ UNCHANGED <<world, body, auth, db, to_zone, bounds>>

\* DoZoneSuccess: the target is stored before anybody has agreed to it.
DoZoneSuccess(n, to) ==
    /\ Plays(n) /\ body[n].dest = body[n].zone /\ to # body[n].zone /\ Short
    /\ body' = [body EXCEPT ![n].dest = to]
    /\ db' = [data |-> body[n].data, zone |-> to]
    /\ to_world' = Say(to_world, body[n].zone, ZoneToZone(body[n].zone, to, 0))
    /\ UNCHANGED <<world, auth, to_zone, bounds>>

\* A client that was told to go says so, or logs out to character selection.
Leave(n) ==
    /\ \/ body[n].state = "told" /\ UNCHANGED player
       \/ Plays(n) /\ player' = [player EXCEPT !.at = "camped", !.zone = NoZone, !.body = 0]
    /\ body' = [body EXCEPT ![n].state = "leaving"]
    /\ UNCHANGED <<list, auth, db, to_zone, to_world, bounds>>

LinkDead(n) ==
    /\ body[n].state \in {"connecting", "playing", "told"} /\ player.body # n
    /\ body' = [body EXCEPT ![n].state = "linkdead"]
    /\ UNCHANGED <<world, auth, db, to_zone, to_world, bounds>>

\* The end of a client that was kicked or disconnected, or linkdead for too long: ~Client.
Destroy(n) ==
    /\ body[n].state \in {"leaving", "linkdead"}
    /\ body' = [body EXCEPT ![n] = NoBody]
    /\ db' = Saved(body[n])
    /\ to_world' = Say(to_world, body[n].zone, Who(n, 2))
    /\ UNCHANGED <<world, auth, to_zone, bounds>>

\* A zone process dies, and another takes its place.
Crash(z) ==
    /\ crashes < MaxCrashes[prompt]
    /\ crashes' = crashes + 1
    /\ body' = [n \in Bodies |-> IF n \in In(z) THEN NoBody ELSE body[n]]
    /\ player' = IF player.body \in In(z) THEN Out ELSE player
    /\ auth' = [auth EXCEPT ![z] = 0]
    /\ to_zone' = [to_zone EXCEPT ![z] = <<>>] /\ to_world' = [to_world EXCEPT ![z] = <<>>]
    /\ list' = RemoveZone(list, z)
    /\ UNCHANGED <<db, clock, made, prompt>>

Next ==
    \/ CLEAdd \/ HandleSendLoginInfoPacket \/ EnterWorld \/ Quit
    \/ \E i \in Ids : CheckStale(i)
    \/ \E z \in Zones : ClientUpdate(z) \/ Clearance(z) \/ RouteZoneToZone(z)
    \/ \E z \in Zones : \/ IncClient(z) \/ DropClient(z) \/ AcceptWorldEntrance(z) \/ ChangeWID(z)
                        \/ ZoneChangeReply(z) \/ ZoneChangeRequest(z) \/ ZoneEntry(z) \/ Crash(z)
    \/ \E n \in Bodies : \/ CompleteConnect(n) \/ Play(n) \/ Save(n) \/ UpdateWho(n)
                         \/ \E to \in Zones : DoZoneSuccess(n, to)
                         \/ Leave(n) \/ LinkDead(n) \/ Destroy(n)

Spec == Init /\ [][Next]_vars

-----------------------------------------------------------------------------
(***************************************************************************)
(* Properties.                                                             *)
(***************************************************************************)

Messages ==
    [type : {"IncClient", "ChangeWID"}, id : Ids] \cup [type : {"DropClient"}]
    \cup [type : {"AcceptWorldEntrance"}, response : {-1, 0, 1}]
    \cup [type : {"ZoneToZoneRequest"}, from : Zones, to : Zones, response : {-1, 0, 1}]
    \cup [type : {"ClientList"}, id : Ids, remove : 0 .. 2]

Entries == [listed : BOOLEAN, key : BOOLEAN, online : Never .. InZone, server : Zones \cup {NoZone}]
Lists == [next : 1 .. MaxLogins + 1, entry : [Ids -> Entries], numplayers : Int, players : [Zones -> Int]]
Players == [at : {"out", "keyed", "select", "passing", "asking", "cleared", "inzone", "told", "camped"},
            id : 0 .. MaxLogins, zone : Zones \cup {NoZone}, body : 0 .. MaxBodies]
Objects == [zone : Zones \cup {NoZone},
            state : {"none", "connecting", "playing", "told", "linkdead", "leaving"},
            data : Nat, dest : Zones \cup {NoZone}, id : 0 .. MaxLogins, loaded : BOOLEAN]

\* Types.
TypeOK ==
    /\ list \in Lists
    /\ player \in Players
    /\ body \in [Bodies -> Objects]
    /\ auth \in [Zones -> 0 .. MaxLogins]
    /\ db \in [data : Nat, zone : Zones]
    /\ to_zone \in [Zones -> Seq(Messages)] /\ to_world \in [Zones -> Seq(Messages)]
    /\ clock \in 0 .. MaxPlay[prompt] /\ made \in 0 .. MaxBodies /\ crashes \in 0 .. MaxCrashes[prompt]
    /\ prompt \in BOOLEAN

Alive == {n \in Bodies : body[n].zone # NoZone}

OneZone(S) == \A n, k \in S : body[n].zone = body[k].zone

\* A character is in one zone at a time, which data_bucket.cpp:846 relies on; a client
\* that only has to be deleted does not count.
OneZoneAtATime == OneZone({n \in Alive : body[n].state # "leaving"})

\* If what the world has sent arrives before the player does, EnterWorld's DropClient and
\* the kicks of ZoneIncClient keep every client of the character in one zone.
OneZoneIfPrompt == prompt => OneZone(Alive)

\* A client that goes, or that an order to drop it is on its way to.
Orders(link) == \E i \in DOMAIN link : link[i].type \in {"DropClient", "IncClient"}
Doomed(n) == body[n].state = "leaving" \/ Orders(to_zone[body[n].zone])

\* Whatever the links do, only the newest client of a character stays: every other one
\* is on its way out, or the order to drop it is on its way to it.
GhostDoomed == \A n, k \in Alive : n < k => Doomed(n)

\* numplayers and every zone_player_count are what the entries say, although seven
\* methods and the death of a zone change them one by one.
Counted(l) ==
    /\ l.numplayers = Cardinality({i \in Ids : l.entry[i].online >= Online})
    /\ \A z \in Zones : l.players[z] = Cardinality({i \in Ids : l.entry[i].server = z})

PlayersCounted == Counted(list)

\* When nothing is in flight the world has every connected character in its zone.
WorldKnows ==
    prompt /\ Quiet => \A n \in Bodies : body[n].state = "playing" =>
        /\ body[n].id \in Ids
        /\ list.entry[body[n].id].server = body[n].zone
        /\ list.entry[body[n].id].online = InZone

\* What was saved is never overwritten by something older.
NoRollback == [][prompt => db'.data >= db.data]_vars

-----------------------------------------------------------------------------
(***************************************************************************)
(* The invariant that every step keeps, and that these follow from.        *)
(***************************************************************************)

\* Entries are made in their order, and what refers to one refers to one that was made.
Fresh(l) == \A i \in Ids : i >= l.next => l.entry[i] = NoEntry

WellFormed ==
    /\ player # Out => player.id \in Ids /\ player.id < list.next
    /\ \A n \in Bodies : IF body[n].zone = NoZone THEN body[n] = NoBody
                         ELSE /\ body[n].state # "none" /\ body[n].dest \in Zones /\ body[n].id \in Ids
                              /\ n <= made
    /\ player.body <= made

\* A zone has one client that stays.  One that stays beside one that goes is the newest,
\* and its player is not on the way to another zone yet.
OneStays == \A n, k \in Alive :
    body[n].zone = body[k].zone /\ n # k =>
        \/ body[n].state = "leaving"
        \/ body[k].state = "leaving" /\ (\A m \in Alive : m <= n) /\ player.at \notin {"asking", "cleared"}

\* Whoever is on the way to a zone comes after the orders to drop the clients there are.
AllDoomed == player.at \in {"asking", "cleared"} => \A n \in Alive : Doomed(n)

\* With prompt links they have been carried out when the player arrives, and the only
\* client of the character has its newest data.
Alone == prompt =>
    /\ \A n, k \in Alive : n = k
    /\ clock >= db.data /\ \A n \in Alive : body[n].data >= db.data /\ clock >= body[n].data

\* Ids that are used were given out.
Issued ==
    /\ \A z \in Zones : auth[z] < list.next
    /\ \A n \in Bodies : body[n].id < list.next
    /\ \A z \in Zones : \A i \in DOMAIN to_zone[z] :
          to_zone[z][i].type \in {"IncClient", "ChangeWID"} => to_zone[z][i].id < list.next

\* What a link carries of client lists, and whether it carries nothing but some messages.
Spoken(link) == {link[i] : i \in {j \in DOMAIN link : link[j].type = "ClientList"}}
Only(link, types) == \A i \in DOMAIN link : link[i].type \in types

\* Nobody asks to zone, is listed or gets another id.
Silent == \A z \in Zones :
    /\ Only(to_world[z], {"AcceptWorldEntrance"})
    /\ Only(to_zone[z], {"IncClient", "DropClient", "AcceptWorldEntrance"})

\* The id of a client once it has heard what is on its way to it.
Named(link, id, e) ==
    \/ e = id /\ \A i \in DOMAIN link : link[i].type # "ChangeWID"
    \/ \E i \in DOMAIN link : /\ link[i].type = "ChangeWID" /\ link[i].id = e
                              /\ \A j \in DOMAIN link : j > i => link[j].type # "ChangeWID"

\* The entry e is in the zone, or a client of the zone has said so.
Known(e, z) ==
    \/ list.entry[e].server = z /\ list.entry[e].online = InZone
    \/ \E m \in Spoken(to_world[z]) : m.id = e

\* A new login, and one between two zones, has an entry of its own.
Apart(e) == player.at \in {"out", "inzone"} \/ player.id # e

\* With prompt links only the zone of the character's client speaks of it, and as long as
\* it plays what is said keeps its entry there.
Heard(n, z) ==
    /\ \A y \in Zones \ {z} : Spoken(to_world[y]) = {}
    /\ body[n].state = "connecting" => Silent
    /\ body[n].state = "playing" =>
          /\ \A m \in Spoken(to_world[z]) : m.remove = 0
          /\ \A e \in Ids : Named(to_zone[z], body[n].id, e) => Known(e, z) /\ Apart(e)

ListFollows ==
    /\ player.body # 0 => player.at = "inzone"
    /\ prompt => \A n \in Alive : Heard(n, body[n].zone)

Inductive ==
    /\ TypeOK /\ Fresh(list) /\ Counted(list) /\ WellFormed
    /\ OneStays /\ AllDoomed /\ GhostDoomed /\ Alone
    /\ Issued /\ ListFollows
=============================================================================
