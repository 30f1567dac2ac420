----------------------------- MODULE ZoneServers -----------------------------
(***************************************************************************)
(* Which zone process hosts which zone: the world's list of zone servers   *)
(* (world/zonelist.cpp, zoneserver.cpp), the players that wait for a zone  *)
(* to be booted (world/client.cpp, clientlist.cpp), and the zone processes *)
(* (zone/worldserver.cpp, zone/zone.cpp).  A process is asleep or hosts one *)
(* zone; the world believes what the process said last, or what it told it *)
(* to do.  Instances and static zones are left out.                        *)
(***************************************************************************)
EXTENDS Naturals, FiniteSets, Sequences, Functions

Lists == INSTANCE SequencesExt

CONSTANTS
    Processes, Zones, Players,
    Asleep,       \* zone id 0
    MayFail,      \* {TRUE}, {FALSE} or both: see faulty
    MayDie,       \* one process may die, or lose its link
    Backlog       \* bound: by faulty, players enter a zone with fewer messages in flight

\* What the theorems ask of the constants; assumed where the module is instantiated.
ZoneServersAssumption ==
    /\ Asleep \notin Zones /\ IsFiniteSet(Processes) /\ IsFiniteSet(Players)
    /\ MayFail \subseteq BOOLEAN /\ MayDie \in BOOLEAN /\ Backlog \in [BOOLEAN -> Nat]

VARIABLES
    zone_server_list,  \* the processes the world knows, in the order they connected
    srv,               \* what the world has of each: zone_server_zone_id, is_booting_up
    client,            \* the world's connection of each player
    proc,              \* the processes: hosted zone, authorised and present players
    to_proc, to_world, \* the links
    dead,              \* a process has died
    faulty,            \* zones may fail to load, links break, and empty zones go to sleep
                       \* without ending their process (KillProcessOnDynamicShutdown off)
    overtaken          \* the world has ordered a boot of a process whose first word it had
                       \* not read

vars == <<zone_server_list, srv, client, proc, to_proc, to_world, dead, faulty, overtaken>>

Waits == {"idle", "waiting", "asking", "cleared", "playing"}
Idle == [at |-> "idle", zone |-> Asleep, process |-> {}, timer |-> FALSE]
Unknown == [zone |-> Asleep, booting |-> FALSE]
NotRunning == [up |-> FALSE, linked |-> FALSE, zone |-> Asleep, auth |-> {}, in |-> {}]

Init ==
    /\ zone_server_list = <<>>
    /\ srv = [p \in Processes |-> Unknown]
    /\ client = [c \in Players |-> Idle]
    /\ proc = [p \in Processes |-> NotRunning]
    /\ to_proc = [p \in Processes |-> <<>>] /\ to_world = [p \in Processes |-> <<>>]
    /\ dead = FALSE /\ faulty \in MayFail /\ overtaken = FALSE

-----------------------------------------------------------------------------
(* The world. *)

Known == {zone_server_list[i] : i \in DOMAIN zone_server_list}
Index(p) == CHOOSE i \in DOMAIN zone_server_list : zone_server_list[i] = p

\* The first in the list of those that satisfy a condition; none or one.
First(S) == {p \in S \cap Known : \A q \in S \cap Known : Index(p) <= Index(q)}

\* Mutant: a process that is still booting is not found.
HostingBooted(z, books) == First({p \in Processes : books[p].zone = z /\ ~books[p].booting})

\* FindByZoneID, and the process TriggerBootup takes.
Hosting(z, books) == First({p \in Processes : books[p].zone = z})
Free(books) == First({p \in Processes : books[p].zone = Asleep /\ ~books[p].booting})

Coming(c, z) == <<[type |-> "IncClient", client |-> c, zone |-> z], [type |-> "Accept", client |-> c]>>
Boot(z) == [type |-> "ZoneBootup", zone |-> z]
SetZoneOf(z) == [type |-> "SetZone", zone |-> z]

\* On its way from the process: that it hosts nothing.
Greeting(p) == proc[p].linked /\ \E i \in DOMAIN to_world[p] : to_world[p][i] = SetZoneOf(Asleep)

\* TriggerBootup: the process is booting, and has its zone as far as the world is concerned.
TriggerBootup(z, p) ==
    /\ srv' = [srv EXCEPT ![p] = [zone |-> z, booting |-> TRUE]]
    /\ to_proc' = [to_proc EXCEPT ![p] = Append(@, Boot(z))]
    /\ overtaken' = (overtaken \/ Greeting(p))

InFlight == FoldFunction(+, 0, [p \in Processes |-> Len(to_proc[p]) + Len(to_world[p])])
Room == InFlight < Backlog[faulty]

\* Mutant: the timer is not started.
EnterWorldUntimed(c, z) ==
    /\ client[c].at = "idle" /\ Hosting(z, srv) = {} /\ Room
    /\ \E p \in Free(srv) :
          /\ TriggerBootup(z, p)
          /\ client' = [client EXCEPT ![c] = [at |-> "waiting", zone |-> z, process |-> {p}, timer |-> FALSE]]
    /\ UNCHANGED <<zone_server_list, proc, to_world, dead, faulty>>

\* HandleEnterWorldPacket, EnterWorld(true): to the process that has the zone, or the player
\* waits, with a timer, for one that is told to boot it, or there is none.
EnterWorld(c, z) ==
    /\ client[c].at = "idle" /\ Room
    /\ \/ \E p \in Hosting(z, srv) :
             /\ client' = [client EXCEPT ![c] = [Idle EXCEPT !.at = "asking", !.zone = z]]
             /\ to_proc' = [to_proc EXCEPT ![p] = @ \o Coming(c, z)]
             /\ srv' = [srv EXCEPT ![p].booting = TRUE] /\ UNCHANGED overtaken
       \/ /\ Hosting(z, srv) = {}
          /\ \E p \in Free(srv) :
                /\ TriggerBootup(z, p)
                /\ client' = [client EXCEPT ![c] = [at |-> "waiting", zone |-> z, process |-> {p}, timer |-> TRUE]]
    /\ UNCHANGED <<zone_server_list, proc, to_world, dead, faulty>>

\* A player in another zone asks for z (ServerOP_ZoneToZoneRequest).
ZoneToZoneRequest(z) ==
    /\ Hosting(z, srv) = {} /\ Room
    /\ \E p \in Free(srv) : TriggerBootup(z, p)
    /\ UNCHANGED <<zone_server_list, client, proc, to_world, dead, faulty>>

\* TellClientZoneUnavailable, of the boot timer; a player who is let in has left the world.
Autobootup(c) ==
    /\ client[c].timer /\ client[c].at \in {"waiting", "asking"}
    /\ client' = [client EXCEPT ![c] = Idle]
    /\ UNCHANGED <<zone_server_list, srv, proc, to_proc, to_world, dead, faulty, overtaken>>

Quit(c) ==
    /\ client[c].at # "idle" /\ client[c].at # "playing"
    /\ client' = [client EXCEPT ![c] = Idle]
    /\ UNCHANGED <<zone_server_list, srv, proc, to_proc, to_world, dead, faulty, overtaken>>

Said(p, type) == to_world[p] # <<>> /\ Head(to_world[p]).type = type
Took(p) == to_world' = [to_world EXCEPT ![p] = Tail(@)]

\* What some players send to the process, in the order of ClientList's list: any order.
Orders(S) == {o \in [1 .. Cardinality(S) -> S] : \A c \in S : \E i \in DOMAIN o : o[i] = c}
AllComing(order, z) == [i \in 1 .. 2 * Len(order) |-> Coming(order[(i + 1) \div 2], z)[2 - (i % 2)]]

\* ServerOP_SetZone and ClientList::ZoneBootup: who waits for this zone goes there; who waits
\* for this process and another zone is told that there is none.
SetZone(p) ==
    /\ Said(p, "SetZone")
    /\ Took(p)
    /\ LET z == Head(to_world[p]).zone
           books == [srv EXCEPT ![p] = [zone |-> z, booting |-> FALSE]]
           goes == {c \in Players : client[c].at = "waiting" /\ client[c].zone = z}
           fails == {c \in Players : client[c].at = "waiting" /\ client[c].zone # z /\ client[c].process = {p}}
           to == Hosting(z, books)
       IN /\ client' = [c \in Players |-> IF c \in goes THEN [client[c] EXCEPT !.at = "asking", !.process = {}]
                                          ELSE IF c \in fails THEN Idle ELSE client[c]]
          /\ srv' = [q \in Processes |-> IF goes # {} /\ q \in to THEN [books[q] EXCEPT !.booting = TRUE] ELSE books[q]]
          /\ \E order \in Orders(goes) :
                to_proc' = [q \in Processes |-> IF q \in to THEN to_proc[q] \o AllComing(order, z) ELSE to_proc[q]]
    /\ UNCHANGED <<zone_server_list, proc, dead, faulty, overtaken>>

\* ServerOP_AcceptWorldEntrance and Client::Clearance.
Clearance(p) ==
    /\ Said(p, "Accept")
    /\ Took(p)
    /\ LET m == Head(to_world[p]) IN
       client' = IF client[m.client].at # "asking" THEN client
                 ELSE IF m.granted /\ Hosting(client[m.client].zone, srv) # {}
                      THEN [client EXCEPT ![m.client].at = "cleared"]
                      ELSE [client EXCEPT ![m.client] = Idle]
    /\ UNCHANGED <<zone_server_list, srv, proc, to_proc, dead, faulty, overtaken>>

\* The end of a link: the zone server is removed from the list; nobody who waits is told.
Remove(p) ==
    /\ Said(p, "Closed")
    /\ Took(p)
    /\ zone_server_list' = Lists!RemoveAt(zone_server_list, Index(p))
    /\ srv' = [srv EXCEPT ![p] = Unknown]
    /\ UNCHANGED <<client, proc, to_proc, dead, faulty, overtaken>>

-----------------------------------------------------------------------------
(* The processes. *)

\* A process is launched, or has lost its link, and connects: the world may use it at once,
\* and what the process says of itself then is a message like any other.
OnConnected(p) ==
    /\ ~proc[p].linked /\ to_world[p] = <<>> /\ p \notin Known
    /\ proc' = [proc EXCEPT ![p].up = TRUE, ![p].linked = TRUE]
    /\ zone_server_list' = Append(zone_server_list, p)
    /\ srv' = [srv EXCEPT ![p] = Unknown]
    /\ to_world' = [to_world EXCEPT ![p] = <<SetZoneOf(proc[p].zone)>>]
    /\ to_proc' = [to_proc EXCEPT ![p] = <<>>]
    /\ UNCHANGED <<client, dead, faulty, overtaken>>

Told(p, type) == proc[p].linked /\ to_proc[p] # <<>> /\ Head(to_proc[p]).type = type
Got(p) == to_proc' = [to_proc EXCEPT ![p] = Tail(@)]
Says(p, m) == to_world' = [to_world EXCEPT ![p] = Append(@, m)]

\* Zone::Bootup of a process that is asleep; what it hosts afterwards.
Bootup(z) == IF faulty THEN {z, Asleep} ELSE {z}

\* Mutant: a boot that fails is not reported.
ZoneBootupSilent(p) ==
    /\ Told(p, "ZoneBootup")
    /\ Got(p)
    /\ \E z \in IF proc[p].zone # Asleep THEN {proc[p].zone} ELSE Bootup(Head(to_proc[p]).zone) :
          /\ proc' = [proc EXCEPT ![p].zone = z]
          /\ IF z = Asleep THEN UNCHANGED to_world ELSE Says(p, SetZoneOf(z))
    /\ UNCHANGED <<zone_server_list, srv, client, dead, faulty, overtaken>>

ZoneBootup(p) ==
    /\ Told(p, "ZoneBootup")
    /\ Got(p)
    /\ \E z \in IF proc[p].zone # Asleep THEN {proc[p].zone} ELSE Bootup(Head(to_proc[p]).zone) :
          proc' = [proc EXCEPT ![p].zone = z] /\ Says(p, SetZoneOf(z))
    /\ UNCHANGED <<zone_server_list, srv, client, dead, faulty, overtaken>>

\* ServerOP_ZoneIncClient: a process that is asleep boots the zone.
ZoneIncClient(p) ==
    /\ Told(p, "IncClient")
    /\ Got(p)
    /\ LET m == Head(to_proc[p]) IN
       \E z \in IF proc[p].zone # Asleep THEN {proc[p].zone} ELSE Bootup(m.zone) :
          /\ proc' = [proc EXCEPT ![p].zone = z,
                        ![p].auth = IF z = m.zone THEN @ \cup {m.client} ELSE @,
                        ![p].in = IF z = m.zone THEN @ \ {m.client} ELSE @]
          /\ Says(p, SetZoneOf(z))
    /\ UNCHANGED <<zone_server_list, srv, client, dead, faulty, overtaken>>

AcceptWorldEntrance(p) ==
    /\ Told(p, "Accept")
    /\ Got(p)
    /\ IF proc[p].zone = Asleep THEN UNCHANGED to_world
       ELSE \E granted \in BOOLEAN :
               Says(p, [type |-> "Accept", client |-> Head(to_proc[p]).client, granted |-> granted])
    /\ UNCHANGED <<zone_server_list, srv, client, proc, dead, faulty, overtaken>>

\* The link ends: what the process has said arrives, what it was told does not.
Closed(p, ps) ==
    /\ to_world' = [to_world EXCEPT ![p] = ps]
    /\ to_proc' = [to_proc EXCEPT ![p] = <<>>]

\* An empty zone goes to sleep (autoshutdown_timer), and its process ends unless faulty.
Shutdown(p) ==
    /\ proc[p].up /\ proc[p].zone # Asleep /\ proc[p].in = {}
    /\ LET said == IF proc[p].linked THEN Append(to_world[p], SetZoneOf(Asleep)) ELSE to_world[p] IN
       IF faulty
       THEN /\ proc' = [proc EXCEPT ![p].zone = Asleep, ![p].auth = {}]
            /\ to_world' = [to_world EXCEPT ![p] = said] /\ UNCHANGED to_proc
       ELSE /\ proc' = [proc EXCEPT ![p] = NotRunning]
            /\ Closed(p, Append(said, [type |-> "Closed"]))
    /\ UNCHANGED <<zone_server_list, srv, client, dead, faulty, overtaken>>

Gone(p) == [c \in Players |-> IF c \in proc[p].in THEN Idle ELSE client[c]]

Die(p) ==
    /\ MayDie /\ ~dead /\ proc[p].linked
    /\ dead' = TRUE
    /\ proc' = [proc EXCEPT ![p] = NotRunning]
    /\ client' = Gone(p)
    /\ Closed(p, Append(to_world[p], [type |-> "Closed"]))
    /\ UNCHANGED <<zone_server_list, srv, faulty, overtaken>>

LoseLink(p) ==
    /\ faulty /\ MayDie /\ ~dead /\ proc[p].linked
    /\ dead' = TRUE
    /\ proc' = [proc EXCEPT ![p].linked = FALSE]
    /\ Closed(p, Append(to_world[p], [type |-> "Closed"]))
    /\ UNCHANGED <<zone_server_list, srv, client, faulty, overtaken>>

\* A player arrives, or is turned away; and leaves.
ZoneEntry(c, p) ==
    /\ client[c].at = "cleared" /\ proc[p].zone = client[c].zone
    /\ IF c \in proc[p].auth
       THEN /\ client' = [client EXCEPT ![c].at = "playing"]
            /\ proc' = [proc EXCEPT ![p].in = @ \cup {c}]
       ELSE client' = [client EXCEPT ![c] = Idle] /\ UNCHANGED proc
    /\ UNCHANGED <<zone_server_list, srv, to_proc, to_world, dead, faulty, overtaken>>

Leave(c, p) ==
    /\ c \in proc[p].in
    /\ client' = [client EXCEPT ![c] = Idle]
    /\ proc' = [proc EXCEPT ![p].in = @ \ {c}]
    /\ UNCHANGED <<zone_server_list, srv, to_proc, to_world, dead, faulty, overtaken>>

Next ==
    \/ \E c \in Players : \/ \E z \in Zones : EnterWorld(c, z)
                          \/ Autobootup(c) \/ Quit(c)
                          \/ \E p \in Processes : ZoneEntry(c, p) \/ Leave(c, p)
    \/ \E z \in Zones : ZoneToZoneRequest(z)
    \/ \E p \in Processes : \/ SetZone(p) \/ Clearance(p) \/ Remove(p)
                            \/ OnConnected(p) \/ ZoneBootup(p) \/ ZoneIncClient(p) \/ AcceptWorldEntrance(p)
                            \/ Shutdown(p) \/ Die(p) \/ LoseLink(p)

Spec == Init /\ [][Next]_vars

\* The boot timer of a waiting player ends.
Fairness == \A c \in Players : WF_vars(Autobootup(c))

-----------------------------------------------------------------------------
\* Types; who waits, waits for a process, and with a timer.
TypeOK ==
    /\ zone_server_list \in Seq(Processes)
    /\ srv \in [Processes -> [zone : Zones \cup {Asleep}, booting : BOOLEAN]]
    /\ client \in [Players -> [at : Waits, zone : Zones \cup {Asleep}, process : SUBSET Processes, timer : BOOLEAN]]
    /\ proc \in [Processes -> [up : BOOLEAN, linked : BOOLEAN, zone : Zones \cup {Asleep},
                               auth : SUBSET Players, in : SUBSET Players]]
    /\ \A c \in Players : client[c].at = "waiting" => client[c].timer /\ client[c].process # {}
    /\ overtaken \in BOOLEAN

\* When nothing is in flight the world knows of every process what it hosts and whether
\* it can be told to boot: every handler of the process answers with SetZone.
BooksAgree ==
    \A p \in Known : to_proc[p] = <<>> /\ to_world[p] = <<>> =>
        srv[p] = [zone |-> proc[p].zone, booting |-> FALSE]

\* A zone is hosted by one process: TriggerBootup looks for one that has it first.  So it
\* is while boots do not fail, links hold, an empty zone takes its process with it, and the
\* world has read that a process hosts nothing before it orders a boot of it.
HostedOnce ==
    ~faulty /\ ~overtaken => \A p, q \in Processes : proc[p].zone = proc[q].zone /\ proc[p].zone # Asleep => p = q

\* The strengthening of BooksAgree and HostedOnce that every step keeps.  A link that has
\* ended says so last, and while it holds the world knows the process.
ToProcess == [type : {"ZoneBootup"}, zone : Zones]
                 \cup [type : {"IncClient"}, client : Players, zone : Zones]
                 \cup [type : {"Accept"}, client : Players]
ToWorld == [type : {"SetZone"}, zone : Zones \cup {Asleep}]
               \cup [type : {"Accept"}, client : Players, granted : BOOLEAN]
               \cup [type : {"Closed"}]

Link(p) ==
    /\ proc[p].linked => p \in Known
    /\ p \notin Known => to_world[p] = <<>>
    /\ p \in Known /\ ~proc[p].linked =>
          to_world[p] # <<>> /\ to_world[p][Len(to_world[p])].type = "Closed"
    /\ \A i \in DOMAIN to_world[p] :
          to_world[p][i].type = "Closed" => i = Len(to_world[p]) /\ ~proc[p].linked
    /\ ~faulty /\ ~proc[p].linked => proc[p].zone = Asleep

Links ==
    /\ to_proc \in [Processes -> Seq(ToProcess)] /\ to_world \in [Processes -> Seq(ToWorld)]
    /\ faulty \in BOOLEAN
    /\ \A i, j \in DOMAIN zone_server_list : zone_server_list[i] = zone_server_list[j] => i = j
    /\ \A c \in Players : client[c].at = "waiting" => client[c].zone \in Zones
    /\ \A p \in Processes : Link(p)

\* The books are right, or the last SetZone on its way will put them right, or an order is
\* on its way that the process will answer with one.
Ordered(p) == \E i \in DOMAIN to_proc[p] : to_proc[p][i].type # "Accept"
Silent(p, i) == \A j \in DOMAIN to_world[p] : j > i => to_world[p][j].type # "SetZone"
Tells(p) == \E i \in DOMAIN to_world[p] : to_world[p][i] = SetZoneOf(proc[p].zone) /\ Silent(p, i)
Follow(p) == proc[p].linked =>
                \/ Ordered(p) \/ Tells(p)
                \/ Silent(p, 0) /\ srv[p] = [zone |-> proc[p].zone, booting |-> FALSE]

\* All that is under way about a process is about the one zone that it has in the books,
\* until it says that it sleeps, or before the world has read that it does, and no other has
\* that zone there.
InBook(p) ==
    /\ proc[p].linked => proc[p].zone \in {Asleep, srv[p].zone}
    /\ proc[p].linked => \A i \in DOMAIN to_proc[p] :
          to_proc[p][i].type # "Accept" => to_proc[p][i].zone = srv[p].zone
    /\ \A i \in DOMAIN to_world[p] : to_world[p][i].type = "SetZone" =>
          /\ to_world[p][i].zone \in {srv[p].zone, Asleep}
          /\ to_world[p][i].zone = Asleep => Silent(p, i) /\ (proc[p].linked => srv[p].zone = Asleep)
OneBook ==
    ~faulty /\ ~overtaken =>
               /\ \A p \in Processes : InBook(p)
               /\ \A p, q \in Known : srv[p].zone = srv[q].zone /\ srv[p].zone # Asleep => p = q

Inductive == TypeOK /\ Links /\ (\A p \in Processes : Follow(p)) /\ OneBook

\* A player who waits for a boot is let through or told that there is none, although the
\* process that was booting may die without a word.
Answered == \A c \in Players : client[c].at = "waiting" ~> client[c].at # "waiting"
=============================================================================
