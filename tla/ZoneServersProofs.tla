-------------------------- MODULE ZoneServersProofs --------------------------
(***************************************************************************)
(* The world's books about its zone processes follow them, and while boots *)
(* do not fail and none overtakes what a process says of itself first, no  *)
(* zone is hosted twice, for any processes, zones, players and messages in *)
(* flight.                                                                 *)
(***************************************************************************)
EXTENDS ZoneServers, TLAPS, FiniteSetTheorems, SequenceTheorems,
        WellFoundedInduction

-------------------------------------------------------------------------------
(* Lists and links. *)

\* A process the world knows is at one place in its list.
LEMMA IndexOf ==
    ASSUME NEW p \in Known
    PROVE  Index(p) \in DOMAIN zone_server_list /\ zone_server_list[Index(p)] = p
BY DEF Known, Index

\* FindByZoneID finds a known process that has what it looks for.
LEMMA FirstKnown ==
    ASSUME NEW S
    PROVE  First(S) \subseteq S \cap Known
BY DEF First

\* It finds one whenever there is one.
LEMMA FirstExists ==
    ASSUME TypeOK, NEW S, First(S) = {}
    PROVE  S \cap Known = {}
<1> SUFFICES ASSUME S \cap Known # {} PROVE FALSE
  OBVIOUS
<1> DEFINE T == {Index(p) : p \in S \cap Known}
<1>1. T \subseteq Nat /\ T # {}
  BY IndexOf DEF TypeOK
<1>2. PICK x \in T : \A y \in T : ~ (<<y, x>> \in OpToRel(<, Nat))
  BY <1>1, NatLessThanWellFounded, WFMin
<1>3. \A y \in T : x <= y
  <2>1. OpToRel(<, Nat) = {ss \in Nat \X Nat : ss[1] < ss[2]}
    BY DEF OpToRel
  <2> HIDE DEF T
  <2>2. ASSUME NEW y \in T, y < x PROVE FALSE
    <3>1. <<y, x>> \in {ss \in Nat \X Nat : ss[1] < ss[2]}
      BY <1>1, <2>2
    <3> QED
      BY <1>2, <2>1, <3>1
  <2> QED
    BY <1>1, <2>2
<1>4. PICK p \in S \cap Known : x = Index(p)
  BY <1>2
<1>5. p \in First(S)
  BY <1>3, <1>4 DEF First
<1> QED
  BY <1>5

\* And only one.
LEMMA FirstUnique ==
    ASSUME TypeOK, NEW S, NEW p \in First(S), NEW q \in First(S)
    PROVE  p = q
<1>1. p \in S \cap Known /\ q \in S \cap Known
  BY FirstKnown
<1>2. Index(p) <= Index(q) /\ Index(q) <= Index(p)
  BY <1>1 DEF First
<1>3. Index(p) \in Nat /\ Index(q) \in Nat
  BY <1>1, IndexOf DEF TypeOK
<1> QED
  BY <1>1, <1>2, <1>3, IndexOf

\* The invariant says of a process only what these expressions depend on.
LEMMA Untouched ==
    ASSUME NEW p \in Processes, p \in Known <=> p \in Known',
           proc'[p].linked = proc[p].linked, proc'[p].zone = proc[p].zone,
           srv'[p] = srv[p], to_proc'[p] = to_proc[p],
           to_world'[p] = to_world[p], faulty' = faulty
    PROVE  /\ Link(p) => Link(p)'
           /\ Follow(p) => Follow(p)'
           /\ InBook(p) => InBook(p)'
BY DEF Link, Follow, InBook, Ordered, Silent, Tells, SetZoneOf

\* In the beginning no process is connected.
LEMMA InitInductive == ASSUME ZoneServersAssumption PROVE Init => Inductive
<1> SUFFICES ASSUME Init PROVE Inductive
  OBVIOUS
<1> USE DEF Init
<1>1. TypeOK
  <2>1. overtaken \in BOOLEAN
    OBVIOUS
  <2>2. /\ zone_server_list \in Seq(Processes) /\ Unknown \in [zone : Zones \cup {Asleep}, booting : BOOLEAN]
        /\ NotRunning \in [up : BOOLEAN, linked : BOOLEAN, zone : Zones \cup {Asleep},
                           auth : SUBSET Players, in : SUBSET Players]
    BY DEF Unknown, NotRunning
  <2>3. Idle \in [at : Waits, zone : Zones \cup {Asleep}, process : SUBSET Processes, timer : BOOLEAN]
        /\ Idle.at # "waiting"
    BY DEF Idle, Waits
  <2> QED
    BY <2>1, <2>2, <2>3 DEF TypeOK
<1>2. Known = {}
  BY DEF Known
<1>3. Links
  BY <1>2 DEF ZoneServersAssumption, Links, Link, NotRunning, Idle
<1>4. \A p \in Processes : Follow(p) /\ InBook(p)
  BY DEF Follow, InBook, NotRunning
<1> QED
  BY <1>1, <1>2, <1>3, <1>4 DEF Inductive, OneBook

-------------------------------------------------------------------------------
(* Steps that change no link and no book. *)

\* Players who give up, arrive or leave, and stuttering.
LEMMA PlayersInductive ==
    ASSUME Inductive, UNCHANGED <<zone_server_list, srv, to_proc, to_world, faulty, overtaken>>,
           client' \in [Players -> [at : Waits, zone : Zones \cup {Asleep},
                                    process : SUBSET Processes, timer : BOOLEAN]],
           \A c \in Players : client'[c].at = "waiting" => client'[c] = client[c],
           proc' \in [Processes -> [up : BOOLEAN, linked : BOOLEAN, zone : Zones \cup {Asleep},
                                    auth : SUBSET Players, in : SUBSET Players]],
           \A p \in Processes : proc'[p].linked = proc[p].linked /\ proc'[p].zone = proc[p].zone
    PROVE  Inductive'
<1> USE DEF Inductive
<1>1. TypeOK'
  BY DEF TypeOK
<1>2. \A p \in Processes : Link(p)' /\ Follow(p)' /\ (InBook(p) => InBook(p)')
  BY Untouched DEF Links, Known
<1>3. Links'
  BY <1>2 DEF Links
<1>4. OneBook'
  BY <1>2 DEF OneBook, Known
<1> QED
  BY <1>1, <1>2, <1>3, <1>4

-------------------------------------------------------------------------------
(* The world tells a process to host a zone. *)

\* An order to a process that has the zone in the books, or to a free one when no other
\* has it there.
LEMMA OrderInductive ==
    ASSUME ZoneServersAssumption, Inductive, NEW p \in Known, NEW z \in Zones, NEW msgs \in Seq(ToProcess),
           \E i \in DOMAIN msgs : msgs[i].type # "Accept",
           \A i \in DOMAIN msgs : msgs[i].type # "Accept" => msgs[i].zone = z,
           srv[p].zone = z \/ (srv[p].zone = Asleep /\ \A q \in Known : srv[q].zone # z),
           srv' \in [Processes -> [zone : Zones \cup {Asleep}, booting : BOOLEAN]],
           srv'[p].zone = z, \A q \in Processes \ {p} : srv'[q] = srv[q],
           to_proc' = [to_proc EXCEPT ![p] = @ \o msgs],
           client' \in [Players -> [at : Waits, zone : Zones \cup {Asleep},
                                    process : SUBSET Processes, timer : BOOLEAN]],
           \A c \in Players : client'[c].at = "waiting" =>
               client'[c].timer /\ client'[c].process # {} /\ client'[c].zone \in Zones,
           UNCHANGED <<zone_server_list, proc, to_world, faulty>>, overtaken' \in BOOLEAN,
           overtaken \/ (srv[p].zone # z /\ Greeting(p)) => overtaken'
    PROVE  Inductive'
<1> USE DEF Inductive
<1>1. p \in Processes /\ z # Asleep
  BY DEF ZoneServersAssumption, TypeOK, Known
<1>2. /\ to_proc[p] \in Seq(ToProcess) /\ srv'[p].zone = z
      /\ to_proc'[p] = to_proc[p] \o msgs
      /\ \A q \in Processes \ {p} : srv'[q] = srv[q] /\ to_proc'[q] = to_proc[q]
  BY <1>1 DEF TypeOK, Links
<1>3. TypeOK'
  BY <1>1 DEF TypeOK
<1>4. \A q \in Processes : Link(q)'
  BY DEF Links, Link, Known
<1>5. Links'
  <2>1. to_proc' \in [Processes -> Seq(ToProcess)]
    BY <1>1, <1>2 DEF Links
  <2> QED
    BY <1>4, <2>1 DEF Links
<1>6. \A i \in DOMAIN to_proc'[p] :
        \/ i \in DOMAIN to_proc[p] /\ to_proc'[p][i] = to_proc[p][i]
        \/ \E j \in DOMAIN msgs : to_proc'[p][i] = msgs[j]
  <2> SUFFICES ASSUME NEW i \in DOMAIN to_proc'[p], i \notin DOMAIN to_proc[p]
               PROVE  \E j \in DOMAIN msgs : to_proc'[p][i] = msgs[j]
    BY <1>2
  <2>1. i - Len(to_proc[p]) \in DOMAIN msgs
        /\ to_proc'[p][i] = msgs[i - Len(to_proc[p])]
    BY <1>2
  <2> QED
    BY <2>1
<1>7. Ordered(p)'
  <2>1. PICK i \in DOMAIN msgs : msgs[i].type # "Accept"
    OBVIOUS
  <2>2. Len(to_proc[p]) + i \in DOMAIN to_proc'[p]
        /\ to_proc'[p][Len(to_proc[p]) + i] = msgs[i]
    BY <1>2
  <2> QED
    BY <2>1, <2>2 DEF Ordered
<1>8. \A q \in Processes : Follow(q)'
  <2>1. Follow(p)'
    BY <1>7 DEF Follow
  <2>2. \A q \in Processes \ {p} : Follow(q)'
    BY <1>2, Untouched DEF Known
  <2> QED
    BY <2>1, <2>2
<1>9. OneBook'
  <2> SUFFICES ASSUME ~faulty, ~overtaken'
               PROVE  /\ \A q \in Processes : InBook(q)'
                      /\ \A q, r \in Known : srv'[q].zone = srv'[r].zone /\ srv'[q].zone # Asleep => q = r
    BY DEF OneBook, Known
  <2>1. InBook(p)'
    <3>1. InBook(p)
      BY <1>1 DEF OneBook
    <3>2. CASE srv[p].zone = z
      BY <1>2, <1>6, <3>1, <3>2 DEF InBook, Silent
    <3>3. CASE srv[p].zone = Asleep
      <4>1. \A i \in DOMAIN to_proc[p] : to_proc[p][i].type # "Accept" => to_proc[p][i].zone \in Zones
        BY <1>2 DEF ToProcess
      <4>2. proc[p].linked => \A i \in DOMAIN to_proc[p] : to_proc[p][i].type = "Accept"
        BY <3>1, <3>3, <4>1 DEF ZoneServersAssumption, InBook
      <4>3. proc[p].linked => \A i \in DOMAIN to_world[p] : to_world[p][i].type # "SetZone"
        <5> SUFFICES ASSUME proc[p].linked, NEW i \in DOMAIN to_world[p], to_world[p][i].type = "SetZone" PROVE FALSE
          OBVIOUS
        <5>1. to_world[p][i] \in ToWorld /\ to_world[p][i].zone = Asleep
          BY <1>1, <3>1, <3>3 DEF InBook, Links
        <5>2. to_world[p][i] = SetZoneOf(Asleep)
          BY <5>1 DEF ToWorld, SetZoneOf
        <5> QED
          BY <1>1, <3>3, <5>2 DEF Greeting
      <4> QED
        BY <1>1, <1>2, <1>6, <3>1, <3>3, <4>2, <4>3 DEF InBook, Silent
    <3> QED
      BY <3>2, <3>3
  <2>2. \A q \in Processes : InBook(q)'
    BY <1>2, <2>1, Untouched DEF Known, OneBook
  <2>3. \A q, r \in Known : srv'[q].zone = srv'[r].zone /\ srv'[q].zone # Asleep => q = r
    <3>1. Known \subseteq Processes
      BY DEF TypeOK, Known
    <3> QED
      BY <1>1, <1>2, <3>1 DEF OneBook
  <2> QED
    BY <2>2, <2>3
<1> QED
  BY <1>3, <1>5, <1>8, <1>9

-------------------------------------------------------------------------------
(* What a process does with an order, and what it says. *)

\* A process takes an order, hosts what it may host afterwards, and says so.
LEMMA AnswerInductive ==
    ASSUME ZoneServersAssumption, Inductive, NEW p \in Processes, proc[p].linked, to_proc[p] # <<>>,
           Head(to_proc[p]).type # "Accept",
           NEW z \in IF proc[p].zone # Asleep THEN {proc[p].zone}
                     ELSE Bootup(Head(to_proc[p]).zone),
           proc' \in [Processes -> [up : BOOLEAN, linked : BOOLEAN, zone : Zones \cup {Asleep},
                                    auth : SUBSET Players, in : SUBSET Players]],
           proc'[p].linked, proc'[p].zone = z,
           \A q \in Processes \ {p} : proc'[q] = proc[q],
           Got(p), Says(p, SetZoneOf(z)),
           UNCHANGED <<zone_server_list, srv, client, faulty, overtaken>>
    PROVE  Inductive'
<1> USE DEF Inductive
<1> DEFINE m == Head(to_proc[p])
           n == Len(to_world[p])
<1>1. /\ to_proc[p] \in Seq(ToProcess) /\ to_world[p] \in Seq(ToWorld)
      /\ m \in ToProcess /\ m = to_proc[p][1] /\ 1 \in DOMAIN to_proc[p]
      /\ m.zone \in Zones /\ n \in Nat
  BY DEF Links, ToProcess
<1>2. /\ z \in Zones \cup {Asleep}
      /\ ~faulty => z # Asleep
  BY <1>1 DEF ZoneServersAssumption, TypeOK, Bootup
<1>3. /\ to_proc'[p] = Tail(to_proc[p]) /\ to_world'[p] = Append(to_world[p], SetZoneOf(z))
      /\ \A q \in Processes \ {p} : to_proc'[q] = to_proc[q] /\ to_world'[q] = to_world[q]
  BY DEF Got, Says, Links
<1>4. SetZoneOf(z) \in ToWorld /\ SetZoneOf(z).type = "SetZone" /\ SetZoneOf(z).zone = z
  BY <1>2 DEF SetZoneOf, ToWorld
<1>5. /\ DOMAIN to_world'[p] = 1 .. n + 1 /\ Len(to_world'[p]) = n + 1
      /\ to_world'[p][n + 1] = SetZoneOf(z)
      /\ \A i \in 1 .. n : to_world'[p][i] = to_world[p][i]
      /\ to_world'[p] \in Seq(ToWorld) /\ to_proc'[p] \in Seq(ToProcess)
      /\ \A i \in DOMAIN to_proc'[p] : i + 1 \in DOMAIN to_proc[p]
                                     /\ to_proc'[p][i] = to_proc[p][i + 1]
  BY <1>1, <1>3, <1>4
<1>6. TypeOK'
  BY DEF TypeOK
<1>7. Link(p)'
  <2>1. p \in Known /\ \A i \in 1 .. n : to_world[p][i].type # "Closed"
    BY <1>1 DEF Links, Link
  <2>2. \A i \in 1 .. n + 1 : to_world'[p][i].type # "Closed"
    BY <1>1, <1>4, <1>5, <2>1
  <2> QED
    BY <1>5, <2>1, <2>2 DEF Link, Known
<1>8. \A q \in Processes : Link(q)'
  BY <1>3, <1>7, Untouched DEF Links, Known
<1>9. Links'
  <2>1. to_proc' \in [Processes -> Seq(ToProcess)] /\ to_world' \in [Processes -> Seq(ToWorld)]
    BY <1>5 DEF Links, Got, Says
  <2> QED
    BY <1>8, <2>1 DEF Links
<1>10. \A q \in Processes : Follow(q)'
  <2>1. Follow(p)'
    <3>1. n + 1 \in DOMAIN to_world'[p] /\ \A i \in DOMAIN to_world'[p] : ~(i > n + 1)
      BY <1>1, <1>5
    <3>2. to_world'[p][n + 1] = SetZoneOf(proc[p].zone)'
      BY <1>5 DEF SetZoneOf
    <3>3. Tells(p)'
      BY <3>1, <3>2 DEF Tells, Silent
    <3> QED
      BY <3>3 DEF Follow
  <2> QED
    BY <1>3, <2>1, Untouched DEF Known
<1>11. OneBook'
  <2> SUFFICES ASSUME ~faulty, ~overtaken'
               PROVE  \A q \in Processes : InBook(q)'
    BY DEF OneBook, Known
  <2>1. InBook(p) /\ proc[p].zone \in {Asleep, srv[p].zone} /\ m.zone = srv[p].zone
    BY <1>1 DEF OneBook, InBook
  <2>2. z = srv[p].zone /\ z # Asleep
    BY <1>2, <2>1 DEF Bootup
  <2>3. \A i \in DOMAIN to_world'[p] : to_world'[p][i].type = "SetZone" => to_world'[p][i].zone = z
    BY <1>1, <1>4, <1>5, <2>1, <2>2 DEF InBook
  <2>4. InBook(p)'
    BY <1>1, <1>5, <2>1, <2>2, <2>3 DEF InBook
  <2> QED
    BY <1>3, <2>4, Untouched DEF Known, OneBook
<1> QED
  BY <1>6, <1>9, <1>10, <1>11

\* A process lets a player in, or has nothing to say to one that it does not host.
LEMMA AcceptInductive ==
    ASSUME Inductive, NEW p \in Processes, AcceptWorldEntrance(p)
    PROVE  Inductive'
<1> USE DEF Inductive
<1> DEFINE n == Len(to_world[p])
<1>1. /\ to_proc[p] \in Seq(ToProcess) /\ to_world[p] \in Seq(ToWorld) /\ n \in Nat
      /\ to_proc[p] # <<>> /\ Head(to_proc[p]) = to_proc[p][1] /\ 1 \in DOMAIN to_proc[p]
      /\ to_proc[p][1].type = "Accept" /\ to_proc[p][1].client \in Players
  BY DEF Links, AcceptWorldEntrance, Told, ToProcess
<1>2. /\ proc[p].linked /\ UNCHANGED <<zone_server_list, srv, client, proc, faulty, overtaken>>
      /\ to_proc'[p] = Tail(to_proc[p])
      /\ \A q \in Processes \ {p} : to_proc'[q] = to_proc[q] /\ to_world'[q] = to_world[q]
  BY DEF AcceptWorldEntrance, Told, Got, Says, Links
<1>3. \/ to_world' = to_world
      \/ \E m \in ToWorld : m.type = "Accept" /\ to_world' = [to_world EXCEPT ![p] = Append(@, m)]
  <2>1. \A granted \in BOOLEAN :
           [type |-> "Accept", client |-> Head(to_proc[p]).client, granted |-> granted] \in ToWorld
    BY <1>1 DEF ToWorld
  <2> QED
    BY <2>1 DEF AcceptWorldEntrance, Says
<1>4. /\ to_world'[p] \in Seq(ToWorld) /\ to_proc'[p] \in Seq(ToProcess)
      /\ to_world' \in [Processes -> Seq(ToWorld)] /\ to_proc' \in [Processes -> Seq(ToProcess)]
  <2>1. Tail(to_proc[p]) \in Seq(ToProcess)
    BY <1>1
  <2>2. to_proc' \in [Processes -> Seq(ToProcess)]
    BY <2>1 DEF Links, AcceptWorldEntrance, Got
  <2>3. CASE to_world' = to_world
    BY <1>2, <2>1, <2>2, <2>3 DEF Links
  <2>4. ASSUME NEW m \in ToWorld, to_world' = [to_world EXCEPT ![p] = Append(@, m)]
        PROVE  to_world' \in [Processes -> Seq(ToWorld)] /\ to_world'[p] \in Seq(ToWorld)
    <3>1. Append(to_world[p], m) \in Seq(ToWorld)
      BY <1>1
    <3> QED
      BY <2>4, <3>1 DEF Links
  <2> QED
    BY <1>2, <1>3, <2>1, <2>2, <2>3, <2>4
<1>5. /\ DOMAIN to_world[p] \subseteq DOMAIN to_world'[p]
      /\ \A i \in DOMAIN to_world'[p] :
            \/ i \in DOMAIN to_world[p] /\ to_world'[p][i] = to_world[p][i]
            \/ to_world'[p][i].type = "Accept"
      /\ \A i \in DOMAIN to_world[p] : to_world'[p][i] = to_world[p][i]
  <2>1. CASE to_world' = to_world
    BY <2>1
  <2>2. ASSUME NEW m \in ToWorld, m.type = "Accept",
               to_world' = [to_world EXCEPT ![p] = Append(@, m)]
        PROVE  /\ DOMAIN to_world[p] \subseteq DOMAIN to_world'[p]
               /\ \A i \in DOMAIN to_world'[p] :
                     \/ i \in DOMAIN to_world[p] /\ to_world'[p][i] = to_world[p][i]
                     \/ to_world'[p][i].type = "Accept"
               /\ \A i \in DOMAIN to_world[p] : to_world'[p][i] = to_world[p][i]
    <3>1. to_world'[p] = Append(to_world[p], m)
      BY <2>2 DEF Links
    <3> QED
      BY <1>1, <2>2, <3>1
  <2> QED
    BY <1>3, <2>1, <2>2
<1>6. /\ \A i \in DOMAIN to_proc'[p] : i + 1 \in DOMAIN to_proc[p]
                                     /\ to_proc'[p][i] = to_proc[p][i + 1]
      /\ \A i \in DOMAIN to_proc[p] : i # 1 => i - 1 \in DOMAIN to_proc'[p]
                                     /\ to_proc'[p][i - 1] = to_proc[p][i]
  BY <1>1, <1>2, <1>4
<1>7. TypeOK'
  BY <1>2 DEF TypeOK
<1>8. Link(p)'
  <2>1. p \in Known /\ \A i \in 1 .. n : to_world[p][i].type # "Closed"
    BY <1>1, <1>2 DEF Links, Link
  <2>2. \A i \in DOMAIN to_world'[p] : to_world'[p][i].type # "Closed"
    BY <1>1, <1>5, <2>1
  <2> QED
    BY <1>2, <2>1, <2>2 DEF Link, Known
<1>9. \A q \in Processes : Link(q)'
  BY <1>2, <1>8, Untouched DEF Links, Known
<1>10. Links'
  BY <1>2, <1>4, <1>9 DEF Links
<1>11. Follow(p)'
  <2>1. Ordered(p) => Ordered(p)'
    BY <1>1, <1>6 DEF Ordered
  <2>2. \A i \in Nat : Silent(p, i) => Silent(p, i)'
    BY <1>5 DEF Silent
  <2>3. Tells(p) => Tells(p)'
    BY <1>1, <1>2, <1>5, <2>2 DEF Tells, SetZoneOf
  <2> QED
    BY <1>2, <2>1, <2>2, <2>3 DEF Follow
<1>12. \A q \in Processes : Follow(q)'
  BY <1>2, <1>11, Untouched DEF Known
<1>13. OneBook'
  <2> SUFFICES ASSUME ~faulty, ~overtaken' PROVE \A q \in Processes : InBook(q)'
    BY <1>2 DEF OneBook, Known
  <2>1. InBook(p)'
    BY <1>2, <1>5, <1>6 DEF OneBook, InBook, Silent
  <2> QED
    BY <1>2, <2>1, Untouched DEF Known, OneBook
<1> QED
  BY <1>7, <1>10, <1>12, <1>13

-------------------------------------------------------------------------------
(* A link ends, and a process connects. *)

\* A process that dies, goes to sleep for good or loses its link has said its last word.
LEMMA ClosedInductive ==
    ASSUME Inductive, NEW p \in Processes, proc[p].linked, NEW said,
           said = to_world[p]
             \/ (proc[p].zone # Asleep /\ said = Append(to_world[p], SetZoneOf(Asleep))),
           Closed(p, Append(said, [type |-> "Closed"])),
           proc' \in [Processes -> [up : BOOLEAN, linked : BOOLEAN, zone : Zones \cup {Asleep},
                                    auth : SUBSET Players, in : SUBSET Players]],
           ~proc'[p].linked, ~faulty => proc'[p].zone = Asleep,
           \A q \in Processes \ {p} : proc'[q] = proc[q],
           client' \in [Players -> [at : Waits, zone : Zones \cup {Asleep},
                                    process : SUBSET Processes, timer : BOOLEAN]],
           \A c \in Players : client'[c].at = "waiting" => client'[c] = client[c],
           UNCHANGED <<zone_server_list, srv, faulty, overtaken>>
    PROVE  Inductive'
<1> USE DEF Inductive
<1> DEFINE n == Len(to_world[p])
           k == Len(said)
           end == [type |-> "Closed"]
<1>1. to_world[p] \in Seq(ToWorld) /\ n \in Nat
  BY DEF Links
<1>2. SetZoneOf(Asleep) \in ToWorld /\ end \in ToWorld
      /\ SetZoneOf(Asleep).type = "SetZone" /\ SetZoneOf(Asleep).zone = Asleep
  BY DEF SetZoneOf, ToWorld
<1>3. /\ said \in Seq(ToWorld) /\ k \in Nat /\ k >= n
      /\ \A i \in 1 .. n : said[i] = to_world[p][i]
      /\ \A i \in 1 .. k : i > n => i = k /\ said[i] = SetZoneOf(Asleep) /\ proc[p].zone # Asleep
  <2>1. CASE said = to_world[p]
    BY <1>1, <2>1
  <2>2. CASE proc[p].zone # Asleep /\ said = Append(to_world[p], SetZoneOf(Asleep))
    BY <1>1, <1>2, <2>2
  <2> QED
    BY <2>1, <2>2
<1>4. /\ to_world'[p] = Append(said, end) /\ to_proc'[p] = <<>>
      /\ \A q \in Processes \ {p} : to_proc'[q] = to_proc[q] /\ to_world'[q] = to_world[q]
  BY DEF Closed, Links
<1>5. /\ to_world'[p] \in Seq(ToWorld) /\ Len(to_world'[p]) = k + 1
      /\ DOMAIN to_world'[p] = 1 .. k + 1 /\ to_world'[p][k + 1] = end
      /\ \A i \in 1 .. k : to_world'[p][i] = said[i]
      /\ to_world'[p] # <<>>
  BY <1>2, <1>3, <1>4
<1>6. TypeOK'
  BY DEF TypeOK
<1>7. p \in Known /\ \A i \in 1 .. n : to_world[p][i].type # "Closed"
  BY <1>1 DEF Links, Link
<1>8. Link(p)'
  <2>1. \A i \in 1 .. k : to_world'[p][i].type # "Closed"
    BY <1>1, <1>2, <1>3, <1>5, <1>7
  <2> QED
    BY <1>3, <1>5, <1>7, <2>1 DEF Link, Known
<1>9. \A q \in Processes : Link(q)'
  <2>1. Known' = Known
    BY DEF Known
  <2>2. ASSUME NEW q \in Processes \ {p} PROVE Link(q)'
    <3>1. Link(q)
      BY DEF Links
    <3> QED
      BY <1>4, <2>1, <3>1, Untouched
  <2> QED
    BY <1>8, <2>2
<1>10. Links'
  <2>1. to_proc' \in [Processes -> Seq(ToProcess)] /\ to_world' \in [Processes -> Seq(ToWorld)]
    BY <1>4, <1>5 DEF Links, Closed
  <2> QED
    BY <1>9, <2>1 DEF Links
<1>11. \A q \in Processes : Follow(q)'
  <2>1. Follow(p)'
    BY DEF Follow
  <2> QED
    BY <1>4, <2>1, Untouched DEF Known
<1>12. OneBook'
  <2> SUFFICES ASSUME ~faulty, ~overtaken' PROVE \A q \in Processes : InBook(q)'
    BY DEF OneBook, Known
  <2>1. InBook(p)
    BY DEF OneBook
  <2>2. ASSUME NEW i \in DOMAIN to_world'[p], to_world'[p][i].type = "SetZone"
        PROVE  /\ to_world'[p][i].zone \in {srv[p].zone, Asleep}
               /\ to_world'[p][i].zone = Asleep => Silent(p, i)'
    <3>1. CASE i \in 1 .. n
      <4>1. /\ i \in DOMAIN to_world[p] /\ to_world'[p][i] = to_world[p][i]
            /\ to_world[p][i].zone \in {srv[p].zone, Asleep}
            /\ to_world[p][i].zone = Asleep => Silent(p, i) /\ srv[p].zone = Asleep
        BY <1>1, <1>3, <1>5, <2>1, <2>2, <3>1 DEF InBook
      <4>2. ASSUME srv[p].zone = Asleep, Silent(p, i) PROVE Silent(p, i)'
        <5>1. proc[p].zone = Asleep
          BY <1>1, <2>1, <4>2 DEF InBook
        <5> QED
          BY <1>1, <1>2, <1>3, <1>5, <3>1, <4>2, <5>1 DEF Silent
      <4> QED
        BY <4>1, <4>2
    <3>2. CASE i \notin 1 .. n
      <4>1. i \in 1 .. k /\ i > n
        BY <1>1, <1>2, <1>3, <1>5, <2>2, <3>2
      <4>2. i = k /\ to_world'[p][i] = SetZoneOf(Asleep) /\ proc[p].zone # Asleep
        BY <1>3, <1>5, <4>1
      <4>3. Silent(p, i)'
        BY <1>3, <1>5, <4>2 DEF Silent
      <4> QED
        BY <1>2, <2>1, <4>2, <4>3 DEF InBook
    <3> QED
      BY <3>1, <3>2
  <2>3. InBook(p)'
    BY <2>2 DEF InBook
  <2> QED
    BY <1>4, <2>3, Untouched DEF Known, OneBook
<1> QED
  BY <1>6, <1>10, <1>11, <1>12

\* A process goes to sleep and stays, as a faulty configuration lets it.
LEMMA SleepInductive ==
    ASSUME Inductive, NEW p \in Processes, Shutdown(p), faulty
    PROVE  Inductive'
<1> USE DEF Inductive
<1> DEFINE n == Len(to_world[p])
           m == SetZoneOf(Asleep)
<1>1. /\ to_world[p] \in Seq(ToWorld) /\ n \in Nat
      /\ m \in ToWorld /\ m.type = "SetZone"
  BY DEF Links, SetZoneOf, ToWorld
<1>2. /\ proc' = [proc EXCEPT ![p].zone = Asleep, ![p].auth = {}]
      /\ to_world' = [to_world EXCEPT ![p] = IF proc[p].linked THEN Append(to_world[p], m)
                                             ELSE to_world[p]]
      /\ UNCHANGED <<zone_server_list, srv, client, faulty, overtaken, to_proc>>
  BY DEF Shutdown
<1>3. /\ proc'[p].zone = Asleep /\ proc'[p].linked = proc[p].linked
      /\ \A q \in Processes \ {p} : proc'[q] = proc[q] /\ to_world'[q] = to_world[q]
      /\ to_world'[p] = IF proc[p].linked THEN Append(to_world[p], m) ELSE to_world[p]
  BY <1>2 DEF TypeOK, Links
<1>4. TypeOK'
  BY <1>2 DEF TypeOK
<1>5. Link(p)' /\ Follow(p)'
  <2>1. CASE proc[p].linked
    <3>1. /\ DOMAIN to_world'[p] = 1 .. n + 1 /\ Len(to_world'[p]) = n + 1
          /\ to_world'[p][n + 1] = m
          /\ \A i \in 1 .. n : to_world'[p][i] = to_world[p][i]
      BY <1>1, <1>3, <2>1
    <3>2. p \in Known /\ \A i \in 1 .. n : to_world[p][i].type # "Closed"
      BY <1>1, <2>1 DEF Links, Link
    <3>3. \A i \in 1 .. n + 1 : to_world'[p][i].type # "Closed"
      BY <1>1, <3>1, <3>2
    <3>4. Link(p)'
      <4>1. proc'[p].linked /\ p \in Known' /\ DOMAIN to_world'[p] = 1 .. n + 1
        <5>1. p \in Known'
          BY <1>2, <3>2 DEF Known
        <5> QED
          BY <1>3, <2>1, <3>1, <5>1
      <4> QED
        BY <3>3, <4>1 DEF Link
    <3>5. n + 1 \in DOMAIN to_world'[p] /\ \A i \in DOMAIN to_world'[p] : ~(i > n + 1)
      BY <1>1, <3>1
    <3>6. to_world'[p][n + 1] = SetZoneOf(proc[p].zone)'
      BY <1>3, <3>1 DEF SetZoneOf
    <3>7. Tells(p)'
      BY <3>5, <3>6 DEF Tells, Silent
    <3> QED
      BY <3>4, <3>7 DEF Follow
  <2>2. CASE ~proc[p].linked
    <3>1. Link(p) /\ to_world'[p] = to_world[p] /\ (p \in Known <=> p \in Known')
      BY <1>2, <1>3, <2>2 DEF Links, Known
    <3>2. ~proc'[p].linked /\ faulty'
      BY <1>2, <1>3, <2>2
    <3> QED
      BY <2>2, <3>1, <3>2 DEF Link, Follow
  <2> QED
    BY <2>1, <2>2
<1>6. \A q \in Processes : Link(q)' /\ Follow(q)'
  <2>1. Known' = Known /\ faulty' = faulty
    BY <1>2 DEF Known
  <2>2. ASSUME NEW q \in Processes \ {p} PROVE Link(q)' /\ Follow(q)'
    <3>1. Link(q) /\ Follow(q) /\ srv'[q] = srv[q] /\ to_proc'[q] = to_proc[q]
      BY <1>2 DEF Links
    <3> QED
      BY <1>3, <2>1, <3>1, Untouched
  <2> QED
    BY <1>5, <2>2
<1>7. Links'
  <2>1. to_world' \in [Processes -> Seq(ToWorld)]
    BY <1>1, <1>2 DEF Links
  <2> QED
    BY <1>2, <1>6, <2>1 DEF Links
<1> QED
  BY <1>2, <1>4, <1>6, <1>7 DEF OneBook

\* A process connects and is at the end of the list.
LEMMA ConnectInductive ==
    ASSUME Inductive, NEW p \in Processes, OnConnected(p)
    PROVE  Inductive'
<1> USE DEF Inductive
<1>1. /\ ~proc[p].linked /\ to_world[p] = <<>> /\ p \notin Known
      /\ proc' = [proc EXCEPT ![p].up = TRUE, ![p].linked = TRUE]
      /\ zone_server_list' = Append(zone_server_list, p)
      /\ srv' = [srv EXCEPT ![p] = Unknown]
      /\ to_world' = [to_world EXCEPT ![p] = <<SetZoneOf(proc[p].zone)>>]
      /\ to_proc' = [to_proc EXCEPT ![p] = <<>>]
      /\ UNCHANGED <<client, dead, faulty, overtaken>>
  BY DEF OnConnected
<1>2. /\ zone_server_list \in Seq(Processes) /\ zone_server_list' \in Seq(Processes)
      /\ Known' = Known \cup {p}
      /\ \A i, j \in DOMAIN zone_server_list' : zone_server_list'[i] = zone_server_list'[j] => i = j
  <2>1. zone_server_list \in Seq(Processes)
    BY DEF TypeOK
  <2> DEFINE n == Len(zone_server_list)
  <2>2. /\ n \in Nat /\ zone_server_list' \in Seq(Processes)
        /\ DOMAIN zone_server_list' = 1 .. n + 1 /\ DOMAIN zone_server_list = 1 .. n
        /\ zone_server_list'[n + 1] = p
        /\ \A i \in 1 .. n : zone_server_list'[i] = zone_server_list[i]
    BY <1>1, <2>1
  <2>3. Known' = Known \cup {p}
    BY <2>2 DEF Known
  <2>4. \A i \in 1 .. n : zone_server_list[i] # p
    BY <1>1, <2>2 DEF Known
  <2>5. \A i, j \in 1 .. n : zone_server_list'[i] = zone_server_list'[j] => i = j
    BY <2>2 DEF Links
  <2>6. \A i \in 1 .. n + 1 : i # n + 1 => i \in 1 .. n /\ zone_server_list'[i] # p
    BY <2>2, <2>4
  <2>7. \A i, j \in 1 .. n + 1 : zone_server_list'[i] = zone_server_list'[j] => i = j
    BY <2>2, <2>5, <2>6
  <2> QED
    BY <2>1, <2>2, <2>3, <2>7
<1>3. /\ proc'[p].linked /\ proc'[p].zone = proc[p].zone /\ proc[p].zone \in Zones \cup {Asleep}
      /\ srv'[p] = Unknown /\ to_proc'[p] = <<>>
      /\ to_world'[p] = <<SetZoneOf(proc[p].zone)>>
      /\ \A q \in Processes \ {p} : /\ proc'[q] = proc[q] /\ to_world'[q] = to_world[q]
                                   /\ srv'[q] = srv[q] /\ to_proc'[q] = to_proc[q]
      /\ ~faulty => proc[p].zone = Asleep
  BY <1>1, <1>2 DEF TypeOK, Links, Link
<1>4. TypeOK'
  <2>1. srv' \in [Processes -> [zone : Zones \cup {Asleep}, booting : BOOLEAN]]
    BY <1>1 DEF TypeOK, Unknown
  <2>2. proc' \in [Processes -> [up : BOOLEAN, linked : BOOLEAN, zone : Zones \cup {Asleep},
                                 auth : SUBSET Players, in : SUBSET Players]]
    BY <1>1 DEF TypeOK
  <2> QED
    BY <1>1, <1>2, <2>1, <2>2 DEF TypeOK
<1>5. SetZoneOf(proc[p].zone) \in ToWorld /\ SetZoneOf(proc[p].zone).type = "SetZone"
      /\ SetZoneOf(proc[p].zone) = SetZoneOf(proc[p].zone)'
  BY <1>3 DEF SetZoneOf, ToWorld
<1>6. Link(p)' /\ Follow(p)'
  <2>1. Tells(p)'
    BY <1>3, <1>5 DEF Tells, Silent
  <2>2. Link(p)'
    BY <1>1, <1>2, <1>3, <1>5 DEF Link
  <2> QED
    BY <2>1, <2>2 DEF Follow
<1>7. \A q \in Processes : Link(q)' /\ Follow(q)'
  <2>1. ASSUME NEW q \in Processes \ {p} PROVE Link(q)' /\ Follow(q)'
    <3>1. Link(q) /\ Follow(q) /\ faulty' = faulty
      BY <1>1 DEF Links
    <3>2. /\ proc'[q].linked = proc[q].linked /\ proc'[q].zone = proc[q].zone
          /\ to_world'[q] = to_world[q] /\ srv'[q] = srv[q] /\ to_proc'[q] = to_proc[q]
          /\ (q \in Known <=> q \in Known')
      BY <1>2, <1>3
    <3> QED
      BY <3>1, <3>2, Untouched
  <2> QED
    BY <1>6, <2>1
<1>8. Links'
  <2>1. to_proc' \in [Processes -> Seq(ToProcess)] /\ to_world' \in [Processes -> Seq(ToWorld)]
    BY <1>1, <1>5 DEF Links
  <2> QED
    BY <1>1, <1>2, <1>7, <2>1 DEF Links
<1>9. OneBook'
  <2> SUFFICES ASSUME ~faulty, ~overtaken'
               PROVE  /\ \A q \in Processes : InBook(q)'
                      /\ \A q, r \in Known' : srv'[q].zone = srv'[r].zone /\ srv'[q].zone # Asleep => q = r
    BY <1>1 DEF OneBook
  <2>1. InBook(p)'
    <3>1. SetZoneOf(proc[p].zone).zone = Asleep /\ srv'[p].zone = Asleep /\ proc'[p].zone = Asleep
      BY <1>1, <1>3 DEF SetZoneOf, Unknown
    <3>2. DOMAIN to_world'[p] = {1} /\ to_world'[p][1].zone = Asleep /\ Silent(p, 1)'
      BY <1>3, <3>1 DEF Silent
    <3> QED
      BY <1>3, <3>1, <3>2 DEF InBook
  <2>2. \A q \in Processes : InBook(q)'
    <3>1. ASSUME NEW q \in Processes \ {p} PROVE InBook(q)'
      <4>1. InBook(q) /\ faulty' = faulty
        BY <1>1 DEF OneBook
      <4>2. /\ proc'[q].linked = proc[q].linked /\ proc'[q].zone = proc[q].zone
            /\ to_world'[q] = to_world[q] /\ srv'[q] = srv[q] /\ to_proc'[q] = to_proc[q]
            /\ (q \in Known <=> q \in Known')
        BY <1>2, <1>3
      <4> QED
        BY <4>1, <4>2, Untouched
    <3> QED
      BY <2>1, <3>1
  <2>3. Known \subseteq Processes
    BY DEF TypeOK, Known
  <2> QED
    BY <1>1, <1>2, <1>3, <2>2, <2>3 DEF OneBook, Unknown
<1> QED
  BY <1>4, <1>7, <1>8, <1>9

\* The end of a link is the last that is read of it; the world forgets the process.
LEMMA RemoveInductive ==
    ASSUME Inductive, NEW p \in Processes, Remove(p)
    PROVE  Inductive'
<1> USE DEF Inductive
<1> DEFINE l == zone_server_list
           n == Len(l)
           k == Index(p)
<1>1. /\ to_world[p] \in Seq(ToWorld) /\ to_world[p] # <<>> /\ to_world[p][1].type = "Closed"
      /\ to_world' = [to_world EXCEPT ![p] = Tail(@)]
      /\ l' = Lists!RemoveAt(l, k) /\ srv' = [srv EXCEPT ![p] = Unknown]
      /\ UNCHANGED <<client, proc, to_proc, dead, faulty, overtaken>>
  BY DEF Remove, Said, Took, Links
<1>2. Len(to_world[p]) = 1 /\ ~proc[p].linked /\ p \in Known
  <2>1. 1 \in DOMAIN to_world[p]
    BY <1>1
  <2> QED
    BY <1>1, <2>1 DEF Links, Link
<1>3. /\ to_world'[p] = <<>> /\ srv'[p] = Unknown
      /\ \A q \in Processes \ {p} : to_world'[q] = to_world[q] /\ srv'[q] = srv[q]
  <2>1. Tail(to_world[p]) = <<>>
    <3>1. Tail(to_world[p]) \in Seq(ToWorld) /\ Len(Tail(to_world[p])) = 0
      BY <1>1, <1>2
    <3> QED
      BY <3>1, EmptySeq
  <2> QED
    BY <1>1, <2>1 DEF Links, TypeOK
<1>4. l \in Seq(Processes) /\ n \in Nat /\ k \in 1 .. n /\ l[k] = p
  BY <1>2, IndexOf DEF TypeOK
<1>5. /\ l' \in Seq(Processes) /\ DOMAIN l' = 1 .. n - 1
      /\ \A i \in 1 .. n - 1 : l'[i] = IF i < k THEN l[i] ELSE l[i + 1]
  <2>1. l' = SubSeq(l, 1, k - 1) \o SubSeq(l, k + 1, n)
    BY <1>1 DEF Lists!RemoveAt
  <2>2. /\ SubSeq(l, 1, k - 1) \in Seq(Processes) /\ Len(SubSeq(l, 1, k - 1)) = k - 1
        /\ \A i \in 1 .. k - 1 : SubSeq(l, 1, k - 1)[i] = l[i]
    BY <1>4
  <2>3. /\ SubSeq(l, k + 1, n) \in Seq(Processes) /\ Len(SubSeq(l, k + 1, n)) = n - k
        /\ \A i \in 1 .. n - k : SubSeq(l, k + 1, n)[i] = l[k + i]
    BY <1>4
  <2> HIDE DEF n, k, l
  <2>4. l' \in Seq(Processes) /\ Len(l') = n - 1
    BY <1>4, <2>1, <2>2, <2>3
  <2>5. ASSUME NEW i \in 1 .. n - 1 PROVE l'[i] = IF i < k THEN l[i] ELSE l[i + 1]
    <3>1. CASE i < k
      BY <1>4, <2>1, <2>2, <2>3, <3>1
    <3>2. CASE ~(i < k)
      <4>1. i - (k - 1) \in 1 .. n - k /\ k + (i - (k - 1)) = i + 1
        BY <1>4, <3>2
      <4>2. l'[i] = SubSeq(l, k + 1, n)[i - (k - 1)]
        <5> DEFINE before == SubSeq(l, 1, k - 1)
                   after == SubSeq(l, k + 1, n)
        <5>1. /\ before \in Seq(Processes) /\ after \in Seq(Processes) /\ l' = before \o after
              /\ Len(before) = k - 1 /\ Len(after) = n - k
          BY <2>1, <2>2, <2>3
        <5> HIDE DEF before, after
        <5>2. l'[i] = after[i - (k - 1)]
          BY <1>4, <3>2, <4>1, <5>1
        <5> QED
          BY <5>2 DEF after
      <4> QED
        BY <2>3, <3>2, <4>1, <4>2
    <3> QED
      BY <3>1, <3>2
  <2> QED
    BY <2>4, <2>5
<1>6. /\ Known' = Known \ {p}
      /\ \A i, j \in DOMAIN l' : l'[i] = l'[j] => i = j
  <2>1. \A i, j \in 1 .. n : l[i] = l[j] => i = j
    BY <1>4 DEF Links
  <2>2. \A i \in 1 .. n - 1 : (i < k => i \in 1 .. n) /\ (~(i < k) => i + 1 \in 1 .. n)
    BY <1>4
  <2>3. \A i \in 1 .. n : i # k => \E j \in 1 .. n - 1 : l'[j] = l[i]
    <3> SUFFICES ASSUME NEW i \in 1 .. n, i # k PROVE \E j \in 1 .. n - 1 : l'[j] = l[i]
      OBVIOUS
    <3>1. CASE i < k
      BY <1>4, <1>5, <3>1
    <3>2. CASE ~(i < k)
      <4>1. i - 1 \in 1 .. n - 1 /\ ~(i - 1 < k) /\ (i - 1) + 1 = i
        BY <1>4, <3>2
      <4> QED
        BY <1>5, <4>1
    <3> QED
      BY <3>1, <3>2
  <2>4. \A i \in 1 .. n - 1 : \E j \in 1 .. n : j # k /\ l'[i] = l[j] /\ (i < k => j = i) /\ (~(i < k) => j = i + 1)
    BY <1>4, <1>5
  <2>5. DOMAIN l = 1 .. n
    BY <1>4
  <2>6. Known' = {l'[i] : i \in 1 .. n - 1} /\ Known = {l[i] : i \in 1 .. n}
    BY <1>5, <2>5 DEF Known
  <2> HIDE DEF n, k, l
  <2>7. \A i, j \in 1 .. n - 1 : l'[i] = l'[j] => i = j
    BY <1>4, <2>1, <2>4
  <2>8. \A q \in Known' : q \in Known /\ q # p
    BY <1>4, <2>1, <2>4, <2>6
  <2>9. \A q \in Known : q # p => q \in Known'
    BY <1>4, <2>3, <2>6
  <2> QED
    BY <1>5, <2>7, <2>8, <2>9
<1>7. TypeOK'
  <2>1. srv' \in [Processes -> [zone : Zones \cup {Asleep}, booting : BOOLEAN]]
    BY <1>1 DEF TypeOK, Unknown
  <2> QED
    BY <1>1, <1>5, <2>1 DEF TypeOK
<1>8. Link(p)' /\ Follow(p)' /\ InBook(p)'
  <2>1. p \notin Known' /\ DOMAIN to_world'[p] = {} /\ ~proc'[p].linked /\ proc'[p].zone = proc[p].zone
        /\ faulty' = faulty
    BY <1>1, <1>2, <1>3, <1>6
  <2>2. Link(p)
    BY DEF Links
  <2> QED
    <3>1. Link(p)'
      BY <1>2, <1>3, <2>1, <2>2 DEF Link
    <3>2. Follow(p)'
      BY <2>1 DEF Follow
    <3>3. InBook(p)'
      BY <2>1 DEF InBook
    <3> QED
      BY <3>1, <3>2, <3>3
<1>9. \A q \in Processes \ {p} : Link(q)' /\ Follow(q)' /\ (InBook(q) => InBook(q)')
  <2> SUFFICES ASSUME NEW q \in Processes \ {p}
               PROVE  Link(q)' /\ Follow(q)' /\ (InBook(q) => InBook(q)')
    OBVIOUS
  <2>1. /\ proc'[q].linked = proc[q].linked /\ proc'[q].zone = proc[q].zone
        /\ to_world'[q] = to_world[q] /\ srv'[q] = srv[q] /\ to_proc'[q] = to_proc[q]
        /\ (q \in Known <=> q \in Known') /\ faulty' = faulty
    BY <1>1, <1>3, <1>6
  <2>2. Link(q) /\ Follow(q)
    BY DEF Links
  <2> QED
    BY <2>1, <2>2, Untouched
<1>10. Links'
  <2>1. Tail(to_world[p]) \in Seq(ToWorld)
    BY <1>1
  <2>2. to_world' \in [Processes -> Seq(ToWorld)]
    BY <1>1, <2>1 DEF Links
  <2>3. \A q \in Processes : Link(q)'
    BY <1>8, <1>9
  <2> QED
    BY <1>1, <1>6, <2>2, <2>3 DEF Links
<1>11. OneBook'
  <2>1. Known \subseteq Processes
    BY DEF TypeOK, Known
  <2>2. faulty' = faulty /\ overtaken' = overtaken
    BY <1>1
  <2> QED
    BY <1>3, <1>6, <1>8, <1>9, <2>1, <2>2 DEF OneBook
<1> QED
  BY <1>7, <1>8, <1>9, <1>10, <1>11

-------------------------------------------------------------------------------
(* The world reads what a process says. *)

\* What is left to be read, when something else than the end of the link was read.
LEMMA Reading ==
    ASSUME Inductive, NEW p \in Processes, to_world[p] # <<>>, Head(to_world[p]).type # "Closed",
           Took(p), UNCHANGED <<zone_server_list, proc, faulty, overtaken>>
    PROVE  /\ to_world' \in [Processes -> Seq(ToWorld)]
           /\ \A q \in Processes \ {p} : to_world'[q] = to_world[q]
           /\ 1 \in DOMAIN to_world[p] /\ Head(to_world[p]) = to_world[p][1]
           /\ Head(to_world[p]) \in ToWorld
           /\ \A i \in DOMAIN to_world'[p] :
                 i \in Nat /\ i + 1 \in DOMAIN to_world[p] /\ to_world'[p][i] = to_world[p][i + 1]
           /\ \A i \in DOMAIN to_world[p] :
                 i # 1 => i - 1 \in DOMAIN to_world'[p] /\ to_world'[p][i - 1] = to_world[p][i]
           /\ \A i \in Nat : Silent(p, i + 1) => Silent(p, i)'
           /\ p \in Known /\ Link(p)'
<1> USE DEF Inductive
<1> DEFINE n == Len(to_world[p])
<1>1. /\ to_world[p] \in Seq(ToWorld) /\ n \in Nat /\ n >= 1
      /\ 1 \in DOMAIN to_world[p] /\ Head(to_world[p]) = to_world[p][1]
      /\ Head(to_world[p]) \in ToWorld /\ DOMAIN to_world[p] = 1 .. n
  BY DEF Links
<1>2. to_world'[p] = Tail(to_world[p]) /\ \A q \in Processes \ {p} : to_world'[q] = to_world[q]
  BY DEF Took, Links
<1>3. to_world'[p] \in Seq(ToWorld) /\ DOMAIN to_world'[p] = 1 .. n - 1 /\ Len(to_world'[p]) = n - 1
      /\ \A i \in 1 .. n - 1 : to_world'[p][i] = to_world[p][i + 1]
  BY <1>1, <1>2
<1>4. to_world' \in [Processes -> Seq(ToWorld)]
  BY <1>1, <1>2, <1>3 DEF Took, Links
<1>5. \A i \in DOMAIN to_world'[p] :
         i \in Nat /\ i + 1 \in DOMAIN to_world[p] /\ to_world'[p][i] = to_world[p][i + 1]
  BY <1>1, <1>3
<1>6. \A i \in DOMAIN to_world[p] :
         i # 1 => i - 1 \in DOMAIN to_world'[p] /\ to_world'[p][i - 1] = to_world[p][i]
  <2> SUFFICES ASSUME NEW i \in 1 .. n, i # 1
               PROVE  i - 1 \in 1 .. n - 1 /\ to_world'[p][i - 1] = to_world[p][i]
    BY <1>1, <1>3
  <2>1. i - 1 \in 1 .. n - 1 /\ (i - 1) + 1 = i
    BY <1>1
  <2> QED
    BY <1>3, <2>1
<1>7. \A i \in Nat : Silent(p, i + 1) => Silent(p, i)'
  <2> SUFFICES ASSUME NEW i \in Nat, Silent(p, i + 1), NEW j \in DOMAIN to_world'[p], j > i
               PROVE  to_world'[p][j].type # "SetZone"
    BY DEF Silent
  <2> QED
    BY <1>1, <1>5 DEF Silent
<1>8. p \in Known /\ Link(p)'
  <2>1. Link(p) /\ p \in Known /\ Known' = Known
    BY <1>1 DEF Links, Link, Known
  <2>2. ~proc[p].linked => n # 1 /\ to_world'[p][n - 1].type = "Closed" /\ n - 1 \in DOMAIN to_world'[p]
    <3>1. ~proc[p].linked => n # 1 /\ to_world[p][n].type = "Closed"
      BY <1>1, <2>1 DEF Link
    <3> QED
      BY <1>1, <1>6, <3>1
  <2>3. \A i \in DOMAIN to_world'[p] : to_world'[p][i].type = "Closed" => i = n - 1 /\ ~proc[p].linked
    BY <1>1, <1>5, <2>1 DEF Link
  <2>4. ~proc[p].linked => to_world'[p] # <<>>
    BY <2>2
  <2> QED
    BY <1>3, <2>1, <2>2, <2>3, <2>4 DEF Link
<1> QED
  BY <1>1, <1>2, <1>4, <1>5, <1>6, <1>7, <1>8

\* The world reads that a player is let in, or not.
LEMMA ClearanceInductive ==
    ASSUME Inductive, NEW p \in Processes, Clearance(p)
    PROVE  Inductive'
<1> USE DEF Inductive
<1> DEFINE m == Head(to_world[p])
<1>1. /\ to_world[p] # <<>> /\ m.type = "Accept" /\ Took(p)
      /\ UNCHANGED <<zone_server_list, srv, proc, to_proc, dead, faulty, overtaken>>
  BY DEF Clearance, Said
<1>2. /\ to_world' \in [Processes -> Seq(ToWorld)]
      /\ \A q \in Processes \ {p} : to_world'[q] = to_world[q]
      /\ 1 \in DOMAIN to_world[p] /\ m = to_world[p][1] /\ m \in ToWorld
      /\ \A i \in DOMAIN to_world'[p] :
            i \in Nat /\ i + 1 \in DOMAIN to_world[p] /\ to_world'[p][i] = to_world[p][i + 1]
      /\ \A i \in DOMAIN to_world[p] :
            i # 1 => i - 1 \in DOMAIN to_world'[p] /\ to_world'[p][i - 1] = to_world[p][i]
      /\ \A i \in Nat : Silent(p, i + 1) => Silent(p, i)'
      /\ p \in Known /\ Link(p)'
  BY <1>1, Reading
<1>3. m.client \in Players
  BY <1>1, <1>2 DEF ToWorld
<1>4. /\ client' \in [Players -> [at : Waits, zone : Zones \cup {Asleep},
                                  process : SUBSET Processes, timer : BOOLEAN]]
      /\ \A c \in Players : client'[c].at = "waiting" => client'[c] = client[c]
  <2>1. \/ client' = client
        \/ client' = [client EXCEPT ![m.client].at = "cleared"]
        \/ client' = [client EXCEPT ![m.client] = Idle]
    BY DEF Clearance
  <2> QED
    <3>1. Idle \in [at : Waits, zone : Zones \cup {Asleep}, process : SUBSET Processes, timer : BOOLEAN]
          /\ Idle.at # "waiting"
      BY DEF Idle, Waits
    <3>2. CASE client' = client
      BY <3>2 DEF TypeOK
    <3>3. CASE client' = [client EXCEPT ![m.client].at = "cleared"]
      <4>1. "cleared" \in Waits
        BY DEF Waits
      <4> DEFINE r == [client[m.client] EXCEPT !.at = "cleared"]
      <4>2. r \in [at : Waits, zone : Zones \cup {Asleep}, process : SUBSET Processes, timer : BOOLEAN]
            /\ r.at # "waiting"
        BY <1>3, <4>1 DEF TypeOK
      <4>3. client' = [client EXCEPT ![m.client] = r]
        BY <3>3
      <4> HIDE DEF r
      <4> QED
        BY <1>3, <4>2, <4>3 DEF TypeOK
    <3>4. CASE client' = [client EXCEPT ![m.client] = Idle]
      BY <1>3, <3>1, <3>4 DEF TypeOK
    <3> QED
      BY <2>1, <3>2, <3>3, <3>4
<1>5. TypeOK'
  BY <1>1, <1>4 DEF TypeOK
<1>6. Follow(p)'
  <2>1. Ordered(p) => Ordered(p)'
    BY <1>1 DEF Ordered
  <2>2. Silent(p, 0) => Silent(p, 0)'
    <3>1. Silent(p, 0) => Silent(p, 0 + 1)
      BY <1>2 DEF Silent
    <3> QED
      BY <1>2, <3>1
  <2>3. Tells(p) => Tells(p)'
    <3> SUFFICES ASSUME Tells(p) PROVE Tells(p)'
      OBVIOUS
    <3>1. PICK i \in DOMAIN to_world[p] : to_world[p][i] = SetZoneOf(proc[p].zone) /\ Silent(p, i)
      BY DEF Tells
    <3>2. i \in Nat /\ i # 1
      BY <1>1, <1>2, <3>1 DEF Links, SetZoneOf
    <3>3. i - 1 \in DOMAIN to_world'[p] /\ to_world'[p][i - 1] = to_world[p][i]
          /\ i - 1 \in Nat /\ (i - 1) + 1 = i
      BY <1>2, <3>2
    <3>4. Silent(p, i - 1)'
      BY <1>2, <3>1, <3>3
    <3>5. to_world'[p][i - 1] = SetZoneOf(proc'[p].zone)
      BY <1>1, <3>1, <3>3
    <3> QED
      BY <3>3, <3>4, <3>5 DEF Tells
  <2> QED
    BY <1>1, <2>1, <2>2, <2>3 DEF Follow
<1>7. InBook(p) => InBook(p)'
  <2> SUFFICES ASSUME InBook(p) PROVE InBook(p)'
    OBVIOUS
  <2>1. ASSUME NEW i \in DOMAIN to_world'[p], to_world'[p][i].type = "SetZone"
        PROVE  /\ to_world'[p][i].zone \in {srv[p].zone, Asleep}
               /\ to_world'[p][i].zone = Asleep => Silent(p, i)' /\ (proc[p].linked => srv[p].zone = Asleep)
    BY <1>2, <2>1 DEF InBook
  <2> QED
    BY <1>1, <2>1 DEF InBook
<1>8. \A q \in Processes \ {p} : Link(q)' /\ Follow(q)' /\ (InBook(q) => InBook(q)')
  BY <1>1, <1>2, Untouched DEF Links, Known
<1>9. Links'
  <2>1. \A q \in Processes : Link(q)'
    BY <1>2, <1>8
  <2> QED
    BY <1>1, <1>2, <1>4, <2>1 DEF Links
<1>10. OneBook'
  BY <1>1, <1>7, <1>8 DEF OneBook, Known
<1> QED
  BY <1>5, <1>6, <1>8, <1>9, <1>10

\* The players who waited for a zone, one after the other.
LEMMA Enters ==
    ASSUME ZoneServersAssumption, NEW S \in SUBSET Players, NEW order \in Orders(S), NEW z
    PROVE  /\ z \in Zones => AllComing(order, z) \in Seq(ToProcess)
           /\ \A i \in DOMAIN AllComing(order, z) :
                 AllComing(order, z)[i].type # "Accept" => AllComing(order, z)[i].zone = z
           /\ S # {} => 1 \in DOMAIN AllComing(order, z) /\ AllComing(order, z)[1].type # "Accept"
           /\ S = {} => AllComing(order, z) = <<>>
<1> DEFINE n == Cardinality(S)
           a == AllComing(order, z)
<1>1. n \in Nat /\ (S = {} <=> n = 0)
  <2>1. IsFiniteSet(S)
    BY FS_Subset DEF ZoneServersAssumption
  <2> QED
    BY <2>1, FS_CardinalityType, FS_EmptySet
<1>2. order \in [1 .. n -> S] /\ Len(order) = n
  BY <1>1 DEF Orders
<1> HIDE DEF n
<1>3. a = [i \in 1 .. 2 * n |-> Coming(order[(i + 1) \div 2], z)[2 - (i % 2)]]
  BY <1>2 DEF AllComing
<1> HIDE DEF a
<1>4. ASSUME NEW c \in S
      PROVE  /\ Coming(c, z)[1].type = "IncClient" /\ Coming(c, z)[1].zone = z
             /\ Coming(c, z)[2].type = "Accept"
             /\ z \in Zones => Coming(c, z)[1] \in ToProcess /\ Coming(c, z)[2] \in ToProcess
  BY DEF Coming, ToProcess
<1>5. ASSUME NEW i \in 1 .. 2 * n
      PROVE  /\ a[i].type # "Accept" => a[i].zone = z
             /\ z \in Zones => a[i] \in ToProcess
  <2>1. (i + 1) \div 2 \in 1 .. n /\ 2 - (i % 2) \in {1, 2}
    BY <1>1
  <2>2. order[(i + 1) \div 2] \in S
    BY <1>2, <2>1
  <2>3. a[i] = Coming(order[(i + 1) \div 2], z)[2 - (i % 2)]
    BY <1>3
  <2> QED
    BY <1>4, <2>1, <2>2, <2>3
<1>6. DOMAIN a = 1 .. 2 * n
  BY <1>3
<1>7. z \in Zones => a \in Seq(ToProcess)
  BY <1>1, <1>3, <1>5
<1>8. S # {} => 1 \in DOMAIN a /\ a[1].type # "Accept"
  <2> SUFFICES ASSUME S # {} PROVE 1 \in DOMAIN a /\ a[1].type # "Accept"
    OBVIOUS
  <2>1. 1 \in 1 .. 2 * n /\ (1 + 1) \div 2 = 1 /\ 2 - (1 % 2) = 1 /\ 1 \in 1 .. n
    BY <1>1
  <2>2. a[1] = Coming(order[1], z)[1] /\ order[1] \in S
    BY <1>2, <1>3, <2>1
  <2> QED
    BY <1>4, <1>6, <2>1, <2>2
<1>9. S = {} => a = <<>>
  BY <1>1, <1>3
<1> QED
  BY <1>5, <1>6, <1>7, <1>8, <1>9 DEF a

\* The world reads what a process hosts, and sends the players who wait for that zone to
\* the one that it finds.
LEMMA SetZoneInductive ==
    ASSUME ZoneServersAssumption, Inductive, NEW p \in Processes, SetZone(p)
    PROVE  Inductive'
<1> USE DEF Inductive
<1> DEFINE z == Head(to_world[p]).zone
           books == [srv EXCEPT ![p] = [zone |-> z, booting |-> FALSE]]
           goes == {c \in Players : client[c].at = "waiting" /\ client[c].zone = z}
           fails == {c \in Players : client[c].at = "waiting" /\ client[c].zone # z /\ client[c].process = {p}}
           to == Hosting(z, books)
<1>1. /\ to_world[p] # <<>> /\ Head(to_world[p]).type = "SetZone" /\ Took(p)
      /\ client' = [c \in Players |-> IF c \in goes THEN [client[c] EXCEPT !.at = "asking", !.process = {}]
                                      ELSE IF c \in fails THEN Idle ELSE client[c]]
      /\ srv' = [q \in Processes |-> IF goes # {} /\ q \in to THEN [books[q] EXCEPT !.booting = TRUE] ELSE books[q]]
      /\ UNCHANGED <<zone_server_list, proc, dead, faulty, overtaken>>
  BY DEF SetZone, Said
<1>2. PICK order \in Orders(goes) :
         to_proc' = [q \in Processes |-> IF q \in to THEN to_proc[q] \o AllComing(order, z) ELSE to_proc[q]]
  BY DEF SetZone
<1>3. /\ to_world' \in [Processes -> Seq(ToWorld)]
      /\ \A q \in Processes \ {p} : to_world'[q] = to_world[q]
      /\ 1 \in DOMAIN to_world[p] /\ Head(to_world[p]) = to_world[p][1] /\ Head(to_world[p]) \in ToWorld
      /\ \A i \in DOMAIN to_world'[p] :
            i \in Nat /\ i + 1 \in DOMAIN to_world[p] /\ to_world'[p][i] = to_world[p][i + 1]
      /\ \A i \in DOMAIN to_world[p] :
            i # 1 => i - 1 \in DOMAIN to_world'[p] /\ to_world'[p][i - 1] = to_world[p][i]
      /\ \A i \in Nat : Silent(p, i + 1) => Silent(p, i)'
      /\ p \in Known /\ Link(p)'
  BY <1>1, Reading
<1>4. z \in Zones \cup {Asleep} /\ to_world[p][1] = SetZoneOf(z)
  BY <1>1, <1>3 DEF ToWorld, SetZoneOf
<1>5. goes \subseteq Players /\ (goes # {} => z \in Zones)
  BY DEF Links
<1> DEFINE sent == AllComing(order, z)
<1>6. /\ z \in Zones => sent \in Seq(ToProcess)
      /\ \A i \in DOMAIN sent : sent[i].type # "Accept" => sent[i].zone = z
      /\ goes # {} => 1 \in DOMAIN sent /\ sent[1].type # "Accept"
      /\ goes = {} => sent = <<>>
  BY <1>5, Enters
<1>7. to_world[p][1].type = "SetZone" /\ to_world[p][1].zone = z /\ Known' = Known
  BY <1>1, <1>3 DEF Known
<1>8. /\ \A q \in Processes : books[q] \in [zone : Zones \cup {Asleep}, booting : BOOLEAN]
      /\ books[p] = [zone |-> z, booting |-> FALSE]
      /\ \A q \in Processes \ {p} : books[q] = srv[q]
  BY <1>4 DEF TypeOK
<1>9. \A q \in to : q \in Processes /\ q \in Known /\ books[q].zone = z
  BY FirstKnown DEF Hosting
<1> HIDE DEF books, to, sent, z, goes
<1>10. \A q \in Processes : srv'[q].zone = books[q].zone /\ (goes = {} => srv'[q] = books[q])
  BY <1>1, <1>8
<1>11. sent \in Seq(ToProcess)
  BY <1>5, <1>6, EmptySeq
<1>12. /\ client' \in [Players -> [at : Waits, zone : Zones \cup {Asleep},
                                   process : SUBSET Processes, timer : BOOLEAN]]
       /\ \A c \in Players : client'[c].at = "waiting" => client'[c] = client[c]
  <2>1. Idle \in [at : Waits, zone : Zones \cup {Asleep}, process : SUBSET Processes, timer : BOOLEAN]
        /\ Idle.at # "waiting" /\ "asking" \in Waits
    BY DEF Idle, Waits
  <2> QED
    BY <1>1, <2>1 DEF TypeOK
<1>13. srv' \in [Processes -> [zone : Zones \cup {Asleep}, booting : BOOLEAN]]
  BY <1>1, <1>8
<1>14. TypeOK'
  BY <1>1, <1>13, <1>12 DEF TypeOK
<1>15. \A q \in Processes : to_proc'[q] = IF q \in to THEN to_proc[q] \o sent ELSE to_proc[q]
  BY <1>2 DEF sent
<1>16. to_proc' \in [Processes -> Seq(ToProcess)]
  <2>1. \A q \in Processes : to_proc[q] \in Seq(ToProcess)
    BY DEF Links
  <2>2. \A q \in Processes : to_proc[q] \o sent \in Seq(ToProcess)
    BY <1>11, <2>1
  <2> QED
    BY <1>2, <2>1, <2>2 DEF sent
<1>17. \A q \in Processes : q \notin to \/ goes = {} => to_proc'[q] = to_proc[q] /\ srv'[q] = books[q]
  <2> SUFFICES ASSUME NEW q \in Processes, q \notin to \/ goes = {}
               PROVE  to_proc'[q] = to_proc[q] /\ srv'[q] = books[q]
    OBVIOUS
  <2>1. to_proc[q] \o <<>> = to_proc[q]
    BY DEF Links
  <2>2. to_proc'[q] = to_proc[q]
    BY <1>6, <1>15, <2>1
  <2>3. srv'[q] = books[q]
    BY <1>1
  <2> QED
    BY <2>2, <2>3
<1>18. ASSUME NEW q \in to, goes # {} PROVE Ordered(q)'
  <2>1. to_proc[q] \in Seq(ToProcess) /\ to_proc'[q] = to_proc[q] \o sent
    BY <1>9, <1>15, <1>18 DEF Links
  <2>2. Len(to_proc[q]) + 1 \in DOMAIN to_proc'[q] /\ to_proc'[q][Len(to_proc[q]) + 1] = sent[1]
    BY <1>6, <1>11, <1>18, <2>1
  <2> QED
    BY <1>6, <1>18, <2>2 DEF Ordered
<1>19. ASSUME NEW q \in Processes, NEW i \in DOMAIN to_proc'[q], to_proc'[q][i].type # "Accept"
       PROVE  \/ i \in DOMAIN to_proc[q] /\ to_proc'[q][i] = to_proc[q][i]
              \/ q \in to /\ to_proc'[q][i].zone = z
  <2>1. CASE q \in to
    <3>1. to_proc[q] \in Seq(ToProcess) /\ to_proc'[q] = to_proc[q] \o sent
      BY <1>15, <2>1 DEF Links
    <3>2. CASE i \in DOMAIN to_proc[q]
      BY <1>11, <3>1, <3>2
    <3>3. CASE i \notin DOMAIN to_proc[q]
      <4>1. i - Len(to_proc[q]) \in DOMAIN sent /\ to_proc'[q][i] = sent[i - Len(to_proc[q])]
        BY <1>11, <1>19, <3>1, <3>3
      <4> QED
        BY <1>6, <1>19, <2>1, <4>1
    <3> QED
      BY <3>2, <3>3
  <2>2. CASE q \notin to
    BY <1>15, <2>2
  <2> QED
    BY <2>1, <2>2
<1>20. Links'
  <2>1. ASSUME NEW q \in Processes \ {p} PROVE Link(q)'
    <3>1. Link(q) /\ Known' = Known
      BY <1>1 DEF Links, Known
    <3> QED
      BY <1>1, <1>3, <3>1 DEF Link
  <2>2. \A q \in Processes : Link(q)'
    BY <1>3, <2>1
  <2>3. \A c \in Players : client'[c].at = "waiting" => client'[c].zone \in Zones
    BY <1>12 DEF Links
  <2> QED
    BY <1>1, <1>3, <1>16, <2>2, <2>3 DEF Links
<1>21. ASSUME NEW q \in Processes PROVE Follow(q)'
  <2>1. CASE q \in to /\ goes # {}
    BY <1>18, <2>1 DEF Follow
  <2>2. CASE (q \notin to \/ goes = {}) /\ q # p
    <3>1. Follow(q) /\ Known' = Known
      BY <1>1 DEF Known
    <3>2. srv'[q] = srv[q] /\ to_proc'[q] = to_proc[q] /\ to_world'[q] = to_world[q]
      BY <1>3, <1>8, <1>17, <2>2
    <3> QED
      BY <1>1, <3>1, <3>2, Untouched
  <2>3. CASE (q \notin to \/ goes = {}) /\ q = p
    <3>1. srv'[p] = [zone |-> z, booting |-> FALSE] /\ to_proc'[p] = to_proc[p]
      BY <1>8, <1>17, <2>3
    <3> SUFFICES ASSUME proc[p].linked PROVE Ordered(p)' \/ Tells(p)' \/ (Silent(p, 0) /\ srv[p] = [zone |-> proc[p].zone, booting |-> FALSE])'
      BY <1>1, <2>3 DEF Follow
    <3>2. CASE Ordered(p)
      BY <3>1, <3>2 DEF Ordered
    <3>3. CASE Tells(p)
      <4>1. PICK i \in DOMAIN to_world[p] : to_world[p][i] = SetZoneOf(proc[p].zone) /\ Silent(p, i)
        BY <3>3 DEF Tells
      <4>2. CASE i = 1
        <5>1. proc[p].zone = z
          BY <1>4, <4>1, <4>2 DEF SetZoneOf
        <5>2. Silent(p, 0)'
          <6>1. Silent(p, 0 + 1)
            BY <4>1, <4>2
          <6> QED
            BY <1>3, <6>1
        <5> QED
          BY <1>1, <3>1, <5>1, <5>2
      <4>3. CASE i # 1
        <5>1. i - 1 \in DOMAIN to_world'[p] /\ to_world'[p][i - 1] = to_world[p][i]
          BY <1>3, <4>3
        <5>2. i - 1 \in Nat /\ (i - 1) + 1 = i
          BY <1>3, <5>1 DEF Links
        <5>3. Silent(p, i - 1)'
          BY <1>3, <4>1, <5>2
        <5>4. to_world'[p][i - 1] = SetZoneOf(proc'[p].zone)
          BY <1>1, <4>1, <5>1
        <5> QED
          BY <5>1, <5>3, <5>4 DEF Tells
      <4> QED
        BY <4>2, <4>3
    <3>4. ~Silent(p, 0)
      <4>1. 1 \in DOMAIN to_world[p] /\ 1 > 0 /\ to_world[p][1].type = "SetZone"
        BY <1>3, <1>7
      <4> QED
        BY <4>1 DEF Silent
    <3> QED
      BY <3>2, <3>3, <3>4 DEF Follow
  <2> QED
    BY <2>1, <2>2, <2>3
<1>22. OneBook'
  <2> SUFFICES ASSUME ~faulty, ~overtaken'
               PROVE  /\ \A q \in Processes : InBook(q)'
                      /\ \A q, r \in Known : srv'[q].zone = srv'[r].zone /\ srv'[q].zone # Asleep => q = r
    BY <1>1, <1>7 DEF OneBook
  <2>1. \A q \in Processes : InBook(q)
    BY <1>1 DEF OneBook
  <2>2. /\ z \in {srv[p].zone, Asleep}
        /\ z = Asleep => Silent(p, 1) /\ (proc[p].linked => srv[p].zone = Asleep)
    BY <1>3, <1>7, <2>1 DEF InBook
  <2>3. \A q \in Processes : srv'[q].zone = srv[q].zone \/ (q = p /\ z = Asleep /\ srv'[q].zone = Asleep)
    BY <1>8, <1>10, <2>2
  <2>4. ASSUME NEW q \in Processes PROVE InBook(q)'
    <3>1. proc'[q].linked => proc'[q].zone \in {Asleep, srv'[q].zone}
      BY <1>1, <2>1, <2>2, <2>3 DEF InBook
    <3>2. ASSUME proc'[q].linked, NEW i \in DOMAIN to_proc'[q], to_proc'[q][i].type # "Accept"
          PROVE  to_proc'[q][i].zone = srv'[q].zone
      <4>1. proc[q].linked /\ srv'[q].zone = srv[q].zone
        BY <1>1, <2>2, <2>3, <3>2
      <4>2. q \in to => srv'[q].zone = z
        BY <1>9, <1>10
      <4>3. i \in DOMAIN to_proc[q] /\ to_proc'[q][i] = to_proc[q][i] => to_proc'[q][i].zone = srv[q].zone
        BY <2>1, <3>2, <4>1 DEF InBook
      <4> QED
        BY <1>19, <3>2, <4>1, <4>2, <4>3
    <3>3. ASSUME NEW i \in DOMAIN to_world'[q], to_world'[q][i].type = "SetZone"
          PROVE  /\ to_world'[q][i].zone \in {srv'[q].zone, Asleep}
                 /\ to_world'[q][i].zone = Asleep => Silent(q, i)' /\ (proc'[q].linked => srv'[q].zone = Asleep)
      <4>1. CASE q = p
        <5>1. i \in Nat /\ i + 1 \in DOMAIN to_world[p] /\ to_world'[p][i] = to_world[p][i + 1]
          BY <1>3, <4>1
        <5>2. to_world[p][i + 1].type = "SetZone"
          BY <3>3, <4>1, <5>1
        <5>3. ~Silent(p, 1)
          <6>1. i >= 1
            BY <1>3, <4>1, <5>1 DEF Links
          <6>2. i + 1 > 1
            BY <5>1, <6>1
          <6> QED
            BY <5>1, <5>2, <6>2 DEF Silent
        <5>4. z # Asleep /\ srv'[p].zone = srv[p].zone
          BY <2>2, <2>3, <5>3
        <5>5. /\ to_world[p][i + 1].zone \in {srv[p].zone, Asleep}
              /\ to_world[p][i + 1].zone = Asleep => Silent(p, i + 1) /\ (proc[p].linked => srv[p].zone = Asleep)
          BY <2>1, <5>1, <5>2 DEF InBook
        <5>6. proc'[p].linked = proc[p].linked /\ (Silent(p, i + 1) => Silent(p, i)')
          BY <1>1, <1>3, <5>1
        <5> QED
          BY <4>1, <5>1, <5>4, <5>5, <5>6
      <4>2. CASE q # p
        <5>1. to_world'[q] = to_world[q] /\ srv'[q].zone = srv[q].zone
          BY <1>3, <2>3, <4>2
        <5>2. /\ i \in DOMAIN to_world[q] /\ to_world[q][i].type = "SetZone"
              /\ to_world[q][i].zone \in {srv[q].zone, Asleep}
              /\ to_world[q][i].zone = Asleep => Silent(q, i) /\ (proc[q].linked => srv[q].zone = Asleep)
          BY <2>1, <3>3, <5>1 DEF InBook
        <5>3. Silent(q, i)' <=> Silent(q, i)
          BY <5>1 DEF Silent
        <5>4. proc' = proc
          BY <1>1
        <5> QED
          BY <5>1, <5>2, <5>3, <5>4
      <4> QED
        BY <4>1, <4>2
    <3> QED
      BY <3>1, <3>2, <3>3 DEF InBook
  <2>5. Known \subseteq Processes
    BY DEF TypeOK, Known
  <2> QED
    BY <1>1, <2>3, <2>4, <2>5 DEF OneBook
<1> QED
  BY <1>14, <1>20, <1>21, <1>22

-------------------------------------------------------------------------------
(* Every step. *)

\* A player enters the world, or one in another zone asks for a zone.
LEMMA AskInductive ==
    ASSUME ZoneServersAssumption, Inductive, NEW z \in Zones,
           ZoneToZoneRequest(z) \/ \E c \in Players : EnterWorld(c, z)
    PROVE  Inductive'
<1> USE DEF Inductive
<1>1. Known \subseteq Processes /\ z # Asleep
  BY DEF ZoneServersAssumption, TypeOK, Known
<1>2. Boot(z) \in ToProcess /\ Boot(z).type # "Accept" /\ Boot(z).zone = z
  BY DEF Boot, ToProcess
<1>3. ASSUME Hosting(z, srv) = {}, NEW p \in Free(srv)
      PROVE  p \in Known /\ srv[p].zone = Asleep /\ \A q \in Known : srv[q].zone # z
  <2>1. p \in Known /\ srv[p].zone = Asleep
    BY <1>3, FirstKnown DEF Free
  <2>2. {q \in Processes : srv[q].zone = z} \cap Known = {}
    BY <1>3, FirstExists DEF Hosting
  <2> QED
    BY <1>1, <2>1, <2>2
<1>4. ASSUME NEW p \in Known, TriggerBootup(z, p)
      PROVE  /\ srv' \in [Processes -> [zone : Zones \cup {Asleep}, booting : BOOLEAN]]
             /\ srv'[p].zone = z /\ \A q \in Processes \ {p} : srv'[q] = srv[q]
             /\ \E msgs \in Seq(ToProcess) :
                    /\ \E i \in DOMAIN msgs : msgs[i].type # "Accept"
                    /\ \A i \in DOMAIN msgs : msgs[i].type # "Accept" => msgs[i].zone = z
                    /\ to_proc' = [to_proc EXCEPT ![p] = @ \o msgs]
  <2>1. to_proc[p] \in Seq(ToProcess)
    BY <1>1 DEF Links
  <2>2. Append(to_proc[p], Boot(z)) = to_proc[p] \o <<Boot(z)>>
    BY <1>2, <2>1
  <2> DEFINE msgs == <<Boot(z)>>
  <2>3. DOMAIN msgs = {1} /\ msgs[1] = Boot(z) /\ msgs \in Seq(ToProcess)
    BY <1>2
  <2>4. /\ srv' \in [Processes -> [zone : Zones \cup {Asleep}, booting : BOOLEAN]]
        /\ srv'[p].zone = z /\ \A q \in Processes \ {p} : srv'[q] = srv[q]
        /\ to_proc' = [to_proc EXCEPT ![p] = @ \o msgs]
    BY <1>1, <1>4, <2>2 DEF TriggerBootup, TypeOK
  <2> HIDE DEF msgs
  <2> QED
    BY <1>2, <2>3, <2>4
<1>5. CASE ZoneToZoneRequest(z)
  <2>1. PICK p \in Free(srv) : TriggerBootup(z, p)
    BY <1>5 DEF ZoneToZoneRequest
  <2>2. Hosting(z, srv) = {} /\ UNCHANGED <<zone_server_list, client, proc, to_world, faulty>>
    BY <1>5 DEF ZoneToZoneRequest
  <2>0. overtaken' \in BOOLEAN /\ (overtaken \/ (srv[p].zone # z /\ Greeting(p)) => overtaken')
    BY <2>1 DEF TriggerBootup, TypeOK, Greeting
  <2>3. p \in Known /\ srv[p].zone = Asleep /\ \A q \in Known : srv[q].zone # z
    BY <1>3, <2>2
  <2>4. /\ client' \in [Players -> [at : Waits, zone : Zones \cup {Asleep},
                                    process : SUBSET Processes, timer : BOOLEAN]]
        /\ \A c \in Players : client'[c].at = "waiting" =>
               client'[c].timer /\ client'[c].process # {} /\ client'[c].zone \in Zones
    BY <2>2 DEF TypeOK, Links
  <2>5. /\ srv' \in [Processes -> [zone : Zones \cup {Asleep}, booting : BOOLEAN]]
        /\ srv'[p].zone = z /\ \A q \in Processes \ {p} : srv'[q] = srv[q]
    BY <1>4, <2>1, <2>3
  <2>6. PICK msgs \in Seq(ToProcess) :
           /\ \E i \in DOMAIN msgs : msgs[i].type # "Accept"
           /\ \A i \in DOMAIN msgs : msgs[i].type # "Accept" => msgs[i].zone = z
           /\ to_proc' = [to_proc EXCEPT ![p] = @ \o msgs]
    BY <1>4, <2>1, <2>3
  <2> QED
    BY <2>0, <2>2, <2>3, <2>4, <2>5, <2>6, OrderInductive
<1>6. ASSUME NEW c \in Players, EnterWorld(c, z) PROVE Inductive'
  <2>1. UNCHANGED <<zone_server_list, proc, to_world, faulty>>
    BY <1>6 DEF EnterWorld
  <2>2. ASSUME NEW r \in [at : Waits, zone : Zones \cup {Asleep},
                          process : SUBSET Processes, timer : BOOLEAN],
               r.at = "waiting" => r.timer /\ r.process # {} /\ r.zone \in Zones,
               client' = [client EXCEPT ![c] = r]
        PROVE  /\ client' \in [Players -> [at : Waits, zone : Zones \cup {Asleep},
                                           process : SUBSET Processes, timer : BOOLEAN]]
               /\ \A d \in Players : client'[d].at = "waiting" =>
                      client'[d].timer /\ client'[d].process # {} /\ client'[d].zone \in Zones
    BY <2>2 DEF TypeOK, Links
  <2>3. ASSUME NEW p \in Hosting(z, srv),
               client' = [client EXCEPT ![c] = [Idle EXCEPT !.at = "asking", !.zone = z]],
               to_proc' = [to_proc EXCEPT ![p] = @ \o Coming(c, z)],
               srv' = [srv EXCEPT ![p].booting = TRUE], UNCHANGED overtaken
        PROVE  Inductive'
    <3>0. overtaken' \in BOOLEAN /\ overtaken' = overtaken
      BY <2>3 DEF TypeOK
    <3>1. p \in Known /\ srv[p].zone = z
      BY FirstKnown DEF Hosting
    <3>2. /\ srv' \in [Processes -> [zone : Zones \cup {Asleep}, booting : BOOLEAN]]
          /\ srv'[p].zone = z /\ \A q \in Processes \ {p} : srv'[q] = srv[q]
      BY <1>1, <2>3, <3>1 DEF TypeOK
    <3> DEFINE first == [type |-> "IncClient", client |-> c, zone |-> z]
               second == [type |-> "Accept", client |-> c]
    <3>3. Coming(c, z) = <<first, second>> /\ first \in ToProcess /\ second \in ToProcess
          /\ first.type # "Accept" /\ first.zone = z /\ second.type = "Accept"
      BY DEF Coming, ToProcess
    <3> HIDE DEF first, second
    <3>4. /\ Coming(c, z) \in Seq(ToProcess) /\ DOMAIN Coming(c, z) = {1, 2}
          /\ Coming(c, z)[1] = first /\ Coming(c, z)[2] = second
      BY <3>3
    <3>5. /\ \E i \in DOMAIN Coming(c, z) : Coming(c, z)[i].type # "Accept"
          /\ \A i \in DOMAIN Coming(c, z) : Coming(c, z)[i].type # "Accept" => Coming(c, z)[i].zone = z
      BY <3>3, <3>4
    <3>6. LET r == [Idle EXCEPT !.at = "asking", !.zone = z]
          IN  /\ r \in [at : Waits, zone : Zones \cup {Asleep}, process : SUBSET Processes, timer : BOOLEAN]
              /\ r.at # "waiting"
      BY DEF Idle, Waits
    <3>7. /\ client' \in [Players -> [at : Waits, zone : Zones \cup {Asleep},
                                      process : SUBSET Processes, timer : BOOLEAN]]
          /\ \A d \in Players : client'[d].at = "waiting" =>
                 client'[d].timer /\ client'[d].process # {} /\ client'[d].zone \in Zones
      BY <2>2, <2>3, <3>6
    <3>8. PICK msgs \in Seq(ToProcess) :
              /\ \E i \in DOMAIN msgs : msgs[i].type # "Accept"
              /\ \A i \in DOMAIN msgs : msgs[i].type # "Accept" => msgs[i].zone = z
              /\ to_proc' = [to_proc EXCEPT ![p] = @ \o msgs]
      BY <2>3, <3>4, <3>5
    <3>9. overtaken' \in BOOLEAN /\ (overtaken \/ (srv[p].zone # z /\ Greeting(p)) => overtaken')
      BY <3>0, <3>1
    <3> QED
      BY <2>1, <3>1, <3>2, <3>7, <3>8, <3>9, OrderInductive
  <2>4. ASSUME Hosting(z, srv) = {}, NEW p \in Free(srv), TriggerBootup(z, p),
               client' = [client EXCEPT ![c] = [at |-> "waiting", zone |-> z, process |-> {p}, timer |-> TRUE]]
        PROVE  Inductive'
    <3>0. overtaken' \in BOOLEAN /\ (overtaken \/ (srv[p].zone # z /\ Greeting(p)) => overtaken')
      BY <2>4 DEF TriggerBootup, TypeOK, Greeting
    <3>1. p \in Known /\ srv[p].zone = Asleep /\ \A q \in Known : srv[q].zone # z
      BY <1>3, <2>4
    <3>2. LET r == [at |-> "waiting", zone |-> z, process |-> {p}, timer |-> TRUE]
          IN  /\ r \in [at : Waits, zone : Zones \cup {Asleep}, process : SUBSET Processes, timer : BOOLEAN]
              /\ r.timer /\ r.process # {} /\ r.zone \in Zones
      BY <1>1, <3>1 DEF Waits
    <3>3. /\ client' \in [Players -> [at : Waits, zone : Zones \cup {Asleep},
                                      process : SUBSET Processes, timer : BOOLEAN]]
          /\ \A d \in Players : client'[d].at = "waiting" =>
                 client'[d].timer /\ client'[d].process # {} /\ client'[d].zone \in Zones
      BY <2>2, <2>4, <3>2
    <3>4. /\ srv' \in [Processes -> [zone : Zones \cup {Asleep}, booting : BOOLEAN]]
          /\ srv'[p].zone = z /\ \A q \in Processes \ {p} : srv'[q] = srv[q]
      BY <1>4, <2>4, <3>1
    <3>5. PICK msgs \in Seq(ToProcess) :
              /\ \E i \in DOMAIN msgs : msgs[i].type # "Accept"
              /\ \A i \in DOMAIN msgs : msgs[i].type # "Accept" => msgs[i].zone = z
              /\ to_proc' = [to_proc EXCEPT ![p] = @ \o msgs]
      BY <1>4, <2>4, <3>1
    <3> QED
      BY <2>1, <3>0, <3>1, <3>3, <3>4, <3>5, OrderInductive
  <2> QED
    BY <1>6, <2>3, <2>4 DEF EnterWorld
<1> QED
  BY <1>5, <1>6

\* No step of the world or of a process breaks the invariant.
LEMMA NextInductive == ASSUME ZoneServersAssumption PROVE Inductive /\ [Next]_vars => Inductive'
<1> SUFFICES ASSUME Inductive, [Next]_vars PROVE Inductive'
  OBVIOUS
<1> DEFINE ClientType == [Players -> [at : Waits, zone : Zones \cup {Asleep},
                                      process : SUBSET Processes, timer : BOOLEAN]]
           ProcType == [Processes -> [up : BOOLEAN, linked : BOOLEAN, zone : Zones \cup {Asleep},
                                      auth : SUBSET Players, in : SUBSET Players]]
<1>1. client \in ClientType /\ proc \in ProcType
  BY DEF Inductive, TypeOK
<1>2. /\ Idle \in [at : Waits, zone : Zones \cup {Asleep}, process : SUBSET Processes, timer : BOOLEAN]
      /\ Idle.at # "waiting"
      /\ "playing" \in Waits
  BY DEF Idle, Waits
<1>3. NotRunning \in [up : BOOLEAN, linked : BOOLEAN, zone : Zones \cup {Asleep},
                      auth : SUBSET Players, in : SUBSET Players]
      /\ ~NotRunning.linked /\ NotRunning.zone = Asleep
  BY DEF NotRunning
<1>4. ASSUME NEW c \in Players, client' = [client EXCEPT ![c] = Idle]
      PROVE  client' \in ClientType /\ \A d \in Players : client'[d].at = "waiting" => client'[d] = client[d]
  BY <1>1, <1>2, <1>4
<1>5. ASSUME UNCHANGED vars PROVE Inductive'
  BY <1>1, <1>5, PlayersInductive DEF vars
<1>6. ASSUME NEW c \in Players, Autobootup(c) \/ Quit(c) PROVE Inductive'
  <2>1. /\ client' = [client EXCEPT ![c] = Idle]
        /\ UNCHANGED <<zone_server_list, srv, proc, to_proc, to_world, faulty, overtaken>>
    BY <1>6 DEF Autobootup, Quit
  <2> QED
    BY <1>1, <1>4, <2>1, PlayersInductive
<1>7. ASSUME NEW c \in Players, NEW p \in Processes, ZoneEntry(c, p) PROVE Inductive'
  <2>1. UNCHANGED <<zone_server_list, srv, to_proc, to_world, faulty, overtaken>>
    BY <1>7 DEF ZoneEntry
  <2>2. \/ client' = [client EXCEPT ![c].at = "playing"] /\ proc' = [proc EXCEPT ![p].in = @ \cup {c}]
        \/ client' = [client EXCEPT ![c] = Idle] /\ proc' = proc
    BY <1>7 DEF ZoneEntry
  <2>3. client' \in ClientType /\ \A d \in Players : client'[d].at = "waiting" => client'[d] = client[d]
    <3>1. CASE client' = [client EXCEPT ![c].at = "playing"]
      <4> DEFINE r == [client[c] EXCEPT !.at = "playing"]
      <4>1. r \in [at : Waits, zone : Zones \cup {Asleep}, process : SUBSET Processes, timer : BOOLEAN]
            /\ r.at # "waiting"
        BY <1>1, <1>2
      <4>2. client' = [client EXCEPT ![c] = r]
        BY <3>1
      <4> HIDE DEF r
      <4> QED
        BY <1>1, <4>1, <4>2
    <3> QED
      BY <1>4, <2>2, <3>1
  <2>4. proc' \in ProcType /\ \A q \in Processes : proc'[q].linked = proc[q].linked /\ proc'[q].zone = proc[q].zone
    <3>1. CASE proc' = [proc EXCEPT ![p].in = @ \cup {c}]
      BY <1>1, <3>1
    <3> QED
      BY <1>1, <2>2, <3>1
  <2> QED
    BY <2>1, <2>3, <2>4, PlayersInductive
<1>8. ASSUME NEW c \in Players, NEW p \in Processes, Leave(c, p) PROVE Inductive'
  <2>1. /\ client' = [client EXCEPT ![c] = Idle]
        /\ proc' = [proc EXCEPT ![p].in = @ \ {c}]
        /\ UNCHANGED <<zone_server_list, srv, to_proc, to_world, faulty, overtaken>>
    BY <1>8 DEF Leave
  <2>2. proc' \in ProcType /\ \A q \in Processes : proc'[q].linked = proc[q].linked /\ proc'[q].zone = proc[q].zone
    BY <1>1, <2>1
  <2> QED
    BY <1>4, <2>1, <2>2, PlayersInductive
<1>9. ASSUME NEW z \in Zones, ZoneToZoneRequest(z) \/ \E c \in Players : EnterWorld(c, z) PROVE Inductive'
  BY <1>9, AskInductive
<1>10. ASSUME NEW p \in Processes, ZoneBootup(p) \/ ZoneIncClient(p) PROVE Inductive'
  <2> DEFINE m == Head(to_proc[p])
  <2>1. /\ proc[p].linked /\ to_proc[p] # <<>> /\ m.type # "Accept" /\ Got(p)
        /\ UNCHANGED <<zone_server_list, srv, client, faulty, overtaken>>
    BY <1>10 DEF ZoneBootup, ZoneIncClient, Told
  <2>2. PICK z \in IF proc[p].zone # Asleep THEN {proc[p].zone} ELSE Bootup(m.zone) :
           /\ Says(p, SetZoneOf(z))
           /\ \/ proc' = [proc EXCEPT ![p].zone = z]
              \/ /\ m \in ToProcess /\ m.type = "IncClient"
                 /\ proc' = [proc EXCEPT ![p].zone = z,
                               ![p].auth = IF z = m.zone THEN @ \cup {m.client} ELSE @,
                               ![p].in = IF z = m.zone THEN @ \ {m.client} ELSE @]
    <3>1. m \in ToProcess
      BY <2>1 DEF Inductive, Links
    <3> QED
      BY <1>10, <3>1 DEF ZoneBootup, ZoneIncClient, Told
  <2>3. z \in Zones \cup {Asleep}
    <3>1. m \in ToProcess
      BY <2>1 DEF Inductive, Links
    <3>2. m.zone \in Zones
      BY <2>1, <3>1 DEF ToProcess
    <3> QED
      BY <1>1, <3>2 DEF Bootup
  <2>4. /\ proc' \in ProcType /\ proc'[p].linked /\ proc'[p].zone = z
        /\ \A q \in Processes \ {p} : proc'[q] = proc[q]
    <3>1. CASE proc' = [proc EXCEPT ![p].zone = z]
      BY <1>1, <2>1, <2>3, <3>1
    <3>2. CASE /\ m \in ToProcess /\ m.type = "IncClient"
               /\ proc' = [proc EXCEPT ![p].zone = z,
                             ![p].auth = IF z = m.zone THEN @ \cup {m.client} ELSE @,
                             ![p].in = IF z = m.zone THEN @ \ {m.client} ELSE @]
      <4>1. m.client \in Players
        BY <3>2 DEF ToProcess
      <4> DEFINE auth == IF z = m.zone THEN proc[p].auth \cup {m.client} ELSE proc[p].auth
                 in == IF z = m.zone THEN proc[p].in \ {m.client} ELSE proc[p].in
      <4>2. auth \in SUBSET Players /\ in \in SUBSET Players
        BY <1>1, <4>1
      <4>3. proc' = [proc EXCEPT ![p].zone = z, ![p].auth = auth, ![p].in = in]
        BY <1>1, <3>2
      <4> HIDE DEF m, auth, in
      <4> QED
        BY <1>1, <2>1, <2>3, <4>2, <4>3
    <3> QED
      BY <2>2, <3>1, <3>2
  <2> QED
    BY <2>1, <2>2, <2>4, AnswerInductive
<1>11. ASSUME NEW p \in Processes, Die(p) \/ LoseLink(p) PROVE Inductive'
  <2>1. /\ proc[p].linked /\ Closed(p, Append(to_world[p], [type |-> "Closed"]))
        /\ UNCHANGED <<zone_server_list, srv, faulty, overtaken>>
    BY <1>11 DEF Die, LoseLink
  <2>2. \/ proc' = [proc EXCEPT ![p] = NotRunning]
        \/ faulty /\ proc' = [proc EXCEPT ![p].linked = FALSE]
    BY <1>11 DEF Die, LoseLink
  <2>3. /\ proc' \in ProcType /\ ~proc'[p].linked /\ (~faulty => proc'[p].zone = Asleep)
        /\ \A q \in Processes \ {p} : proc'[q] = proc[q]
    <3>1. CASE proc' = [proc EXCEPT ![p] = NotRunning]
      BY <1>1, <1>3, <3>1
    <3>2. CASE faulty /\ proc' = [proc EXCEPT ![p].linked = FALSE]
      BY <1>1, <3>2
    <3> QED
      BY <2>2, <3>1, <3>2
  <2>4. client' \in ClientType /\ \A d \in Players : client'[d].at = "waiting" => client'[d] = client[d]
    <3>1. client' = client \/ client' = [c \in Players |-> IF c \in proc[p].in THEN Idle ELSE client[c]]
      BY <1>11 DEF Die, LoseLink, Gone
    <3> QED
      BY <1>1, <1>2, <3>1
  <2> QED
    BY <2>1, <2>3, <2>4, ClosedInductive
<1>12. ASSUME NEW p \in Processes, Shutdown(p) PROVE Inductive'
  <2>1. CASE faulty
    BY <1>12, <2>1, SleepInductive
  <2>2. CASE ~faulty
    <3> DEFINE said == IF proc[p].linked THEN Append(to_world[p], SetZoneOf(Asleep)) ELSE to_world[p]
    <3>1. /\ proc[p].zone # Asleep /\ proc' = [proc EXCEPT ![p] = NotRunning]
          /\ Closed(p, Append(said, [type |-> "Closed"]))
          /\ UNCHANGED <<zone_server_list, srv, client, faulty, overtaken>>
      BY <1>12, <2>2 DEF Shutdown
    <3>2. proc[p].linked
      BY <2>2, <3>1 DEF Inductive, Links, Link
    <3>3. said = Append(to_world[p], SetZoneOf(Asleep))
      BY <3>2
    <3>4. /\ proc' \in ProcType /\ ~proc'[p].linked /\ proc'[p].zone = Asleep
          /\ \A q \in Processes \ {p} : proc'[q] = proc[q]
      BY <1>1, <1>3, <3>1
    <3> HIDE DEF said
    <3> QED
      BY <1>1, <3>1, <3>2, <3>3, <3>4, ClosedInductive
  <2> QED
    BY <2>1, <2>2
<1>13. ASSUME NEW p \in Processes,
              SetZone(p) \/ Clearance(p) \/ Remove(p) \/ OnConnected(p) \/ AcceptWorldEntrance(p)
       PROVE  Inductive'
  BY <1>13, SetZoneInductive, ClearanceInductive, RemoveInductive, ConnectInductive, AcceptInductive
<1> QED
  BY <1>5, <1>6, <1>7, <1>8, <1>9, <1>10, <1>11, <1>12, <1>13 DEF Next

-------------------------------------------------------------------------------
(* The theorems. *)

\* The types, the links, the books and the one process of each zone, in every run.
THEOREM SpecInductive == ASSUME ZoneServersAssumption PROVE Spec => []Inductive
<1>1. Init => Inductive
  BY InitInductive
<1>2. Inductive /\ [Next]_vars => Inductive'
  BY NextInductive
<1> QED
  BY <1>1, <1>2, PTL DEF Spec

\* The types, and a player who waits for a boot waits for a process and with a timer.
THEOREM TypeCorrect == ASSUME ZoneServersAssumption PROVE Spec => []TypeOK
<1>1. Inductive => TypeOK
  BY DEF Inductive
<1> QED
  BY <1>1, SpecInductive, PTL

\* With nothing in flight between a process and the world, the world's books say what the
\* process hosts and that it may be told to boot, whatever failed before.
THEOREM BooksFollow == ASSUME ZoneServersAssumption PROVE Spec => []BooksAgree
<1>1. Inductive => BooksAgree
  <2> SUFFICES ASSUME Inductive, NEW p \in Known, to_proc[p] = <<>>, to_world[p] = <<>>
               PROVE  srv[p] = [zone |-> proc[p].zone, booting |-> FALSE]
    BY DEF BooksAgree
  <2>1. p \in Processes
    BY DEF Inductive, TypeOK, Known
  <2>2. proc[p].linked /\ ~Ordered(p) /\ ~Tells(p)
    BY <2>1 DEF Inductive, Links, Link, Ordered, Tells
  <2> QED
    BY <2>1, <2>2 DEF Inductive, Follow
<1> QED
  BY <1>1, SpecInductive, PTL

\* While boots do not fail, links hold, empty zones take their process with them and no boot
\* overtakes the word of a process that it hosts nothing, no zone is hosted by two processes.
THEOREM OneHost == ASSUME ZoneServersAssumption PROVE Spec => []HostedOnce
<1>1. Inductive => HostedOnce
  <2> SUFFICES ASSUME Inductive, ~faulty, ~overtaken, NEW p \in Processes, NEW q \in Processes,
                      proc[p].zone = proc[q].zone, proc[p].zone # Asleep
               PROVE  p = q
    BY DEF HostedOnce
  <2>1. \A r \in {p, q} : proc[r].linked /\ r \in Known
    BY DEF Inductive, Links, Link
  <2>2. \A r \in {p, q} : proc[r].zone = srv[r].zone
    BY <2>1 DEF Inductive, OneBook, InBook
  <2> QED
    BY <2>1, <2>2 DEF Inductive, OneBook
<1> QED
  BY <1>1, SpecInductive, PTL
===============================================================================
