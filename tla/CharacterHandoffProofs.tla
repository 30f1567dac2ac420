----------------------- MODULE CharacterHandoffProofs -----------------------
(***************************************************************************)
(* The client list counts what it lists, a character's older clients are   *)
(* doomed, and on prompt links it is in one zone with its newest data, for *)
(* any zones, logins, clients, crashes and messages in flight.             *)
(***************************************************************************)
EXTENDS CharacterHandoff, TLAPS, FiniteSetTheorems

-------------------------------------------------------------------------------
(* The client list. *)

OnlineIn(l) == {i \in Ids : l.entry[i].online >= Online}
ListedIn(l, z) == {i \in Ids : l.entry[i].server = z}

\* An entry that was made, and what it may say of the client.
Has(l, i) == i \in Ids /\ i < l.next
Levels == Never .. InZone

\* What SetOnline makes of a status.
Raised(old, s) == IF s # Online \/ old < Online THEN s ELSE old

\* What every method of the list keeps.
Sound(l) == l \in Lists /\ Fresh(l) /\ Counted(l)

\* The entries are finitely many.
LEMMA IdsFinite == MaxLogins \in Nat /\ MaxBodies \in Nat /\ IsFiniteSet(Ids)
<1>1. MaxLogins \in Nat /\ MaxBodies \in Nat
  BY HandoffAssumption
<1>2. IsFiniteSet(1 .. MaxLogins)
  BY <1>1, FS_Interval
<1> QED
  BY <1>1, <1>2 DEF Ids

\* An entry more, an entry less.
LEMMA OneMore ==
    ASSUME NEW S \in SUBSET Ids, NEW i \in Ids
    PROVE  /\ Cardinality(S) \in Nat
           /\ i \notin S => Cardinality(S \cup {i}) = Cardinality(S) + 1
           /\ i \in S => Cardinality(S \ {i}) = Cardinality(S) - 1
<1>1. IsFiniteSet(S)
  BY IdsFinite, FS_Subset
<1>2. Cardinality(S) \in Nat
  BY <1>1, FS_CardinalityType
<1>3. ASSUME i \notin S PROVE Cardinality(S \cup {i}) = Cardinality(S) + 1
  BY <1>1, <1>3, FS_AddElement
<1>4. ASSUME i \in S PROVE Cardinality(S \ {i}) = Cardinality(S) - 1
  BY <1>1, <1>4, FS_RemoveElement
<1> QED
  BY <1>2, <1>3, <1>4

\* Lists that differ in one entry, and in the counters as this entry does.
OneChange(l, r, i) ==
    /\ \A j \in Ids \ {i} : r.entry[j] = l.entry[j]
    /\ r.numplayers = l.numplayers + (IF r.entry[i].online >= Online THEN 1 ELSE 0)
                                   - (IF l.entry[i].online >= Online THEN 1 ELSE 0)
    /\ \A z \in Zones : r.players[z] = l.players[z] + (IF r.entry[i].server = z THEN 1 ELSE 0)
                                                    - (IF l.entry[i].server = z THEN 1 ELSE 0)

\* The counters of a list that differs from another in one entry, when they change with it.
LEMMA Recount ==
    ASSUME NEW l, Sound(l), NEW r, r \in Lists, NEW i \in Ids, OneChange(l, r, i)
    PROVE  Counted(r)
<1> USE DEF OneChange
<1>1. /\ l.numplayers \in Int /\ \A z \in Zones : l.players[z] \in Int
      /\ l.numplayers = Cardinality(OnlineIn(l))
      /\ \A z \in Zones : l.players[z] = Cardinality(ListedIn(l, z))
  BY DEF Sound, Lists, Counted, OnlineIn, ListedIn
<1>2. r.numplayers = Cardinality(OnlineIn(r))
  <2> DEFINE S == OnlineIn(l)
             T == OnlineIn(r)
             was == l.entry[i].online >= Online
             is == r.entry[i].online >= Online
  <2>1. S \in SUBSET Ids /\ T \in SUBSET Ids /\ (i \in S <=> was) /\ (i \in T <=> is)
        /\ \A j \in Ids \ {i} : j \in S <=> j \in T
    BY DEF OnlineIn
  <2>2. r.numplayers = l.numplayers + (IF is THEN 1 ELSE 0) - (IF was THEN 1 ELSE 0)
    OBVIOUS
  <2> HIDE DEF S, T, was, is
  <2>3. Cardinality(S) \in Nat /\ l.numplayers = Cardinality(S)
    BY <1>1, <2>1, OneMore DEF S
  <2>4. CASE was <=> is
    <3>1. S = T
      <4>1. \A j \in Ids : j \in S <=> j \in T
        BY <2>1, <2>4
      <4> QED
        BY <2>1, <4>1
    <3> QED
      BY <2>2, <2>3, <2>4, <3>1 DEF T
  <2>5. CASE was /\ ~is
    <3>1. T = S \ {i}
      BY <2>1, <2>5
    <3>2. Cardinality(T) = Cardinality(S) - 1
      BY <2>1, <2>5, <3>1, OneMore
    <3> QED
      BY <2>2, <2>3, <2>5, <3>2 DEF T
  <2>6. CASE ~was /\ is
    <3>1. T = S \cup {i}
      BY <2>1, <2>6
    <3>2. Cardinality(T) = Cardinality(S) + 1
      BY <2>1, <2>6, <3>1, OneMore
    <3> QED
      BY <2>2, <2>3, <2>6, <3>2 DEF T
  <2> QED
    BY <2>4, <2>5, <2>6
<1>3. ASSUME NEW z \in Zones PROVE r.players[z] = Cardinality(ListedIn(r, z))
  <2> DEFINE S == ListedIn(l, z)
             T == ListedIn(r, z)
             was == l.entry[i].server = z
             is == r.entry[i].server = z
  <2>1. S \in SUBSET Ids /\ T \in SUBSET Ids /\ (i \in S <=> was) /\ (i \in T <=> is)
        /\ \A j \in Ids \ {i} : j \in S <=> j \in T
    BY DEF ListedIn
  <2>2. r.players[z] = l.players[z] + (IF is THEN 1 ELSE 0) - (IF was THEN 1 ELSE 0)
    OBVIOUS
  <2> HIDE DEF S, T, was, is
  <2>3. Cardinality(S) \in Nat /\ l.players[z] = Cardinality(S)
    BY <1>1, <2>1, OneMore DEF S
  <2>4. CASE was <=> is
    <3>1. S = T
      <4>1. \A j \in Ids : j \in S <=> j \in T
        BY <2>1, <2>4
      <4> QED
        BY <2>1, <4>1
    <3> QED
      BY <2>2, <2>3, <2>4, <3>1 DEF T
  <2>5. CASE was /\ ~is
    <3>1. T = S \ {i}
      BY <2>1, <2>5
    <3>2. Cardinality(T) = Cardinality(S) - 1
      BY <2>1, <2>5, <3>1, OneMore
    <3> QED
      BY <2>2, <2>3, <2>5, <3>2 DEF T
  <2>6. CASE ~was /\ is
    <3>1. T = S \cup {i}
      BY <2>1, <2>6
    <3>2. Cardinality(T) = Cardinality(S) + 1
      BY <2>1, <2>6, <3>1, OneMore
    <3> QED
      BY <2>2, <2>3, <2>6, <3>2 DEF T
  <2> QED
    BY <2>4, <2>5, <2>6
<1> QED
  BY <1>2, <1>3 DEF Counted, OnlineIn, ListedIn

\* An entry that says anything was made.
LEMMA MadeBefore ==
    ASSUME NEW l, Sound(l), NEW i \in Ids, l.entry[i] # NoEntry
    PROVE  Has(l, i)
BY HandoffAssumption DEF Sound, Fresh, Lists, Ids, Has

\* Camp: the entry leaves its zone.
LEMMA CampSound ==
    ASSUME NEW l, Sound(l), NEW i \in Ids
    PROVE  /\ Sound(Camp(l, i)) /\ Camp(l, i).next = l.next
           /\ Camp(l, i).entry = [l.entry EXCEPT ![i].server = NoZone]
<1> DEFINE z == l.entry[i].server
           r == Camp(l, i)
<1>1. CASE z = NoZone
  <2>1. r = l
    BY <1>1 DEF Camp
  <2>2. l.entry[i] \in Entries /\ l.entry \in [Ids -> Entries]
    BY DEF Sound, Lists
  <2>3. [l.entry EXCEPT ![i].server = NoZone] = l.entry
    BY <1>1, <2>2 DEF Entries
  <2> QED
    BY <2>1, <2>3
<1>2. CASE z # NoZone
  <2>1. r = [l EXCEPT !.players[z] = @ - 1, !.entry[i].server = NoZone]
    BY <1>2 DEF Camp
  <2>2. l \in Lists /\ l.entry[i] \in Entries /\ z \in Zones
    BY <1>2 DEF Sound, Lists, Entries
  <2>3. /\ r.next = l.next /\ r.numplayers = l.numplayers
        /\ r.players = [l.players EXCEPT ![z] = @ - 1]
        /\ r.entry = [l.entry EXCEPT ![i].server = NoZone]
    BY <2>1, <2>2 DEF Lists
  <2>4. r \in Lists
    <3> DEFINE entry == [l.entry EXCEPT ![i].server = NoZone]
               players == [l.players EXCEPT ![z] = @ - 1]
    <3>1. entry \in [Ids -> Entries] /\ players \in [Zones -> Int]
      BY <2>2 DEF Lists, Entries
    <3>2. r = [l EXCEPT !.players = players, !.entry = entry]
      BY <2>1
    <3> HIDE DEF r, entry, players
    <3> QED
      BY <2>2, <3>1, <3>2 DEF Lists
  <2> HIDE DEF r
  <2>5. /\ r.entry[i].online = l.entry[i].online /\ r.entry[i].server = NoZone
        /\ \A j \in Ids \ {i} : r.entry[j] = l.entry[j]
        /\ l.players \in [Zones -> Int] /\ l.numplayers \in Int
        /\ l.entry[i].online \in Int
    BY <2>2, <2>3 DEF Lists, Entries, Never, InZone
  <2>6. Fresh(r)
    <3>1. \A j \in Ids : j >= l.next => l.entry[j] = NoEntry
      BY DEF Sound, Fresh
    <3>2. ~(i >= l.next)
      BY <1>2, <3>1 DEF NoEntry
    <3> QED
      BY <2>3, <2>5, <3>1, <3>2 DEF Fresh
  <2>7. \A y \in Zones : r.players[y] = l.players[y] + (IF r.entry[i].server = y THEN 1 ELSE 0)
                                                     - (IF l.entry[i].server = y THEN 1 ELSE 0)
    BY <2>2, <2>3, <2>5, HandoffAssumption
  <2>8. r.numplayers = l.numplayers + (IF r.entry[i].online >= Online THEN 1 ELSE 0)
                                    - (IF l.entry[i].online >= Online THEN 1 ELSE 0)
    BY <2>3, <2>5
  <2>9. Counted(r)
    BY <2>4, <2>5, <2>7, <2>8, Recount DEF OneChange
  <2> QED
    BY <2>3, <2>4, <2>6, <2>9 DEF Sound, r
<1> QED
  BY <1>1, <1>2

\* SetOnline: the number of players follows the status, and below Zoning the entry camps.
LEMMA SetOnlineSound ==
    ASSUME NEW l, Sound(l), NEW i \in Ids, Has(l, i), NEW s \in Levels
    PROVE  /\ Sound(SetOnline(l, i, s)) /\ SetOnline(l, i, s).next = l.next
           /\ \A j \in Ids \ {i} : SetOnline(l, i, s).entry[j] = l.entry[j]
           /\ SetOnline(l, i, s).entry[i].listed = l.entry[i].listed
           /\ SetOnline(l, i, s).entry[i].online = Raised(l.entry[i].online, s)
           /\ SetOnline(l, i, s).entry[i].server = IF s < Zoning THEN NoZone ELSE l.entry[i].server
<1> DEFINE old == l.entry[i].online
           new == Raised(old, s)
           n == IF s >= Online /\ old < Online THEN l.numplayers + 1
                ELSE IF s < Online /\ old >= Online THEN l.numplayers - 1 ELSE l.numplayers
           entry == [l.entry EXCEPT ![i].online = new]
           set == [l EXCEPT !.numplayers = n, !.entry = entry]
<1>1. /\ l \in Lists /\ l.entry \in [Ids -> Entries] /\ l.entry[i] \in Entries /\ old \in Never .. InZone
      /\ l.numplayers \in Int /\ l.next \in Int /\ i \in Int
  <2>1. l \in Lists /\ Ids \subseteq Int /\ MaxLogins \in Int
    BY HandoffAssumption DEF Sound, Ids
  <2>2. l.entry \in [Ids -> Entries] /\ l.numplayers \in Int /\ l.next \in Int
    BY <2>1 DEF Lists
  <2> QED
    BY <2>1, <2>2 DEF Entries
<1>2. SetOnline(l, i, s) = IF s < Zoning THEN Camp(set, i) ELSE set
  BY DEF SetOnline, Raised
<1>3. new \in Never .. InZone /\ n \in Int /\ entry \in [Ids -> Entries]
      /\ entry[i] = [l.entry[i] EXCEPT !.online = new] /\ \A j \in Ids \ {i} : entry[j] = l.entry[j]
  BY <1>1 DEF Entries, Raised, Levels
<1>4. n = l.numplayers + (IF new >= Online THEN 1 ELSE 0) - (IF old >= Online THEN 1 ELSE 0)
  BY <1>1 DEF Online, Never, InZone, Raised, Levels
<1> HIDE DEF n, entry, new
<1>5. /\ set \in Lists /\ set.next = l.next /\ set.numplayers = n /\ set.players = l.players
      /\ set.entry = entry
  BY <1>1, <1>3 DEF Lists
<1> HIDE DEF set
<1>6. Sound(set)
  <2>1. Fresh(set)
    BY <1>1, <1>3, <1>5 DEF Sound, Fresh, Has
  <2>2. set.entry[i].online = new /\ set.entry[i].server = l.entry[i].server
        /\ \A j \in Ids \ {i} : set.entry[j] = l.entry[j]
    BY <1>1, <1>3, <1>5 DEF Entries
  <2>3. \A z \in Zones : l.players[z] \in Int
    BY <1>1 DEF Lists
  <2>4. \A z \in Zones : set.players[z] = l.players[z] + (IF set.entry[i].server = z THEN 1 ELSE 0)
                                                      - (IF l.entry[i].server = z THEN 1 ELSE 0)
    BY <1>5, <2>2, <2>3
  <2>5. Counted(set)
    BY <1>4, <1>5, <2>2, <2>4, Recount DEF OneChange
  <2> QED
    BY <1>5, <2>1, <2>5 DEF Sound
<1>7. CASE s < Zoning
  <2>1. /\ Sound(Camp(set, i)) /\ Camp(set, i).next = l.next
        /\ Camp(set, i).entry = [entry EXCEPT ![i].server = NoZone]
    BY <1>5, <1>6, CampSound
  <2> QED
    <3>1. Camp(set, i).entry[i] = [entry[i] EXCEPT !.server = NoZone]
          /\ \A j \in Ids \ {i} : Camp(set, i).entry[j] = entry[j]
      BY <1>3, <2>1
    <3>2. entry[i] \in Entries /\ entry[i].online = new /\ entry[i].listed = l.entry[i].listed
      BY <1>1, <1>3 DEF Entries
    <3>3. /\ Camp(set, i).entry[i].listed = l.entry[i].listed
          /\ Camp(set, i).entry[i].online = new
          /\ Camp(set, i).entry[i].server = NoZone
      BY <3>1, <3>2 DEF Entries
    <3> QED
      BY <1>2, <1>3, <1>7, <2>1, <3>1, <3>3 DEF new
<1>8. CASE ~(s < Zoning)
  BY <1>1, <1>2, <1>3, <1>5, <1>6, <1>8 DEF new, Entries
<1> QED
  BY <1>7, <1>8

\* A new entry is neither online nor in a zone.
LEMMA NewEntrySound ==
    ASSUME NEW l, Sound(l), l.next <= MaxLogins, NEW key \in BOOLEAN
    PROVE  /\ Sound(NewEntry(l, key)) /\ NewEntry(l, key).next = l.next + 1
           /\ NewEntry(l, key).entry[l.next] = [NoEntry EXCEPT !.listed = TRUE, !.key = key]
           /\ \A j \in Ids \ {l.next} : NewEntry(l, key).entry[j] = l.entry[j]
<1> DEFINE i == l.next
           e == [NoEntry EXCEPT !.listed = TRUE, !.key = key]
           entry == [l.entry EXCEPT ![i] = e]
           r == [l EXCEPT !.next = i + 1, !.entry = entry]
<1>1. l \in Lists /\ l.entry \in [Ids -> Entries] /\ i \in Ids /\ i + 1 \in 1 .. MaxLogins + 1
      /\ i \in Int /\ MaxLogins \in Int
  BY HandoffAssumption DEF Sound, Lists, Ids
<1>2. e \in Entries /\ e.online = Never /\ e.server = NoZone
  <2>1. NoZone \in Zones \cup {NoZone} /\ Never \in Never .. InZone
    BY DEF Never, InZone
  <2>2. CASE key = TRUE
    BY <2>1, <2>2 DEF Entries, NoEntry
  <2>3. CASE key = FALSE
    BY <2>1, <2>3 DEF Entries, NoEntry
  <2> QED
    BY <2>2, <2>3
<1>3. NewEntry(l, key) = r
  BY DEF NewEntry
<1>4. entry \in [Ids -> Entries] /\ entry[i] = e /\ \A j \in Ids \ {i} : entry[j] = l.entry[j]
  BY <1>1, <1>2
<1> HIDE DEF e, entry
<1>5. /\ r \in Lists /\ r.next = i + 1 /\ r.numplayers = l.numplayers /\ r.players = l.players
      /\ r.entry = entry
  BY <1>1, <1>4 DEF Lists
<1> HIDE DEF r
<1>6. \A j \in Ids : j >= i => l.entry[j] = NoEntry
  BY DEF Sound, Fresh
<1>7. Fresh(r)
  <2> SUFFICES ASSUME NEW j \in Ids, j >= r.next PROVE r.entry[j] = NoEntry
    BY DEF Fresh
  <2>1. j \in Int
    BY DEF Ids
  <2>2. j >= i /\ j # i
    BY <1>1, <1>5, <2>1
  <2> QED
    BY <1>4, <1>5, <1>6, <2>2
<1>8. Counted(r)
  <2>1. l.entry[i].online = Never /\ l.entry[i].server = NoZone
    BY <1>1, <1>6 DEF NoEntry
  <2>2. l.numplayers \in Int /\ \A z \in Zones : l.players[z] \in Int
    BY <1>1 DEF Lists
  <2>3. \A z \in Zones : r.players[z] = l.players[z] + (IF r.entry[i].server = z THEN 1 ELSE 0)
                                                    - (IF l.entry[i].server = z THEN 1 ELSE 0)
    BY <1>2, <1>4, <1>5, <2>1, <2>2
  <2>4. r.numplayers = l.numplayers + (IF r.entry[i].online >= Online THEN 1 ELSE 0)
                                    - (IF l.entry[i].online >= Online THEN 1 ELSE 0)
    BY <1>2, <1>4, <1>5, <2>1, <2>2
  <2> QED
    BY <1>1, <1>4, <1>5, <2>3, <2>4, Recount DEF OneChange
<1> QED
  BY <1>3, <1>4, <1>5, <1>7, <1>8 DEF Sound, e

\* Update: the zone left counts one less, the zone entered one more.
LEMMA UpdateSound ==
    ASSUME NEW l, Sound(l), NEW i \in Ids, Has(l, i), NEW z \in Zones, NEW s \in Levels
    PROVE  /\ Sound(Update(l, i, z, s)) /\ Update(l, i, z, s).next = l.next
           /\ \A j \in Ids \ {i} : Update(l, i, z, s).entry[j] = l.entry[j]
           /\ Update(l, i, z, s).entry[i].listed = l.entry[i].listed
           /\ Update(l, i, z, s).entry[i].online = Raised(l.entry[i].online, s)
           /\ Update(l, i, z, s).entry[i].server = IF s < Zoning THEN NoZone ELSE z
<1> DEFINE left == Camp(l, i)
           moved == [left EXCEPT !.players[z] = @ + 1, !.entry[i].server = z]
<1>1. l \in Lists /\ l.entry \in [Ids -> Entries] /\ l.entry[i] \in Entries /\ i \in Int /\ l.next \in Int
  <2>1. l \in Lists /\ Ids \subseteq Int /\ MaxLogins \in Int
    BY HandoffAssumption DEF Sound, Ids
  <2> QED
    BY <2>1 DEF Lists
<1>2. Update(l, i, z, s) = SetOnline(IF l.entry[i].server = z THEN l ELSE moved, i, s)
  BY DEF Update
<1>3. CASE l.entry[i].server = z
  <2>1. Update(l, i, z, s) = SetOnline(l, i, s)
    BY <1>2, <1>3
  <2> QED
    BY <1>3, <2>1, SetOnlineSound
<1>4. CASE l.entry[i].server # z
  <2>1. Sound(left) /\ left.next = l.next /\ left.entry = [l.entry EXCEPT ![i].server = NoZone]
    BY CampSound
  <2> DEFINE entry == [left.entry EXCEPT ![i].server = z]
             players == [left.players EXCEPT ![z] = @ + 1]
  <2>2. left \in Lists /\ left.entry \in [Ids -> Entries] /\ left.players \in [Zones -> Int]
        /\ left.entry[i] \in Entries /\ left.numplayers \in Int
    BY <2>1 DEF Sound, Lists
  <2>3. /\ entry \in [Ids -> Entries] /\ players \in [Zones -> Int]
        /\ entry[i] = [left.entry[i] EXCEPT !.server = z]
        /\ \A j \in Ids \ {i} : entry[j] = left.entry[j]
        /\ players[z] = left.players[z] + 1 /\ \A y \in Zones \ {z} : players[y] = left.players[y]
    BY <2>2 DEF Entries
  <2>4. moved = [left EXCEPT !.players = players, !.entry = entry]
    OBVIOUS
  <2> HIDE DEF left, entry, players, moved
  <2>5. /\ moved \in Lists /\ moved.next = l.next /\ moved.numplayers = left.numplayers
        /\ moved.players = players /\ moved.entry = entry
    BY <2>1, <2>2, <2>3, <2>4 DEF Lists
  <2>6. left.entry[i] = [l.entry[i] EXCEPT !.server = NoZone]
        /\ \A j \in Ids \ {i} : left.entry[j] = l.entry[j]
    BY <1>1, <2>1
  <2>7. /\ moved.entry[i].online = left.entry[i].online /\ moved.entry[i].server = z
        /\ left.entry[i].server = NoZone /\ \A j \in Ids \ {i} : moved.entry[j] = left.entry[j]
    BY <1>1, <2>2, <2>3, <2>5, <2>6 DEF Entries
  <2>8. Fresh(moved)
    <3> SUFFICES ASSUME NEW j \in Ids, j >= moved.next PROVE moved.entry[j] = NoEntry
      BY DEF Fresh
    <3>1. j # i
      BY <1>1, <2>5 DEF Ids, Has
    <3> QED
      BY <2>1, <2>5, <2>7, <3>1 DEF Sound, Fresh
  <2>9. Counted(moved)
    <3>1. \A y \in Zones : moved.players[y] = left.players[y] + (IF moved.entry[i].server = y THEN 1 ELSE 0)
                                                             - (IF left.entry[i].server = y THEN 1 ELSE 0)
      <4> SUFFICES ASSUME NEW y \in Zones
                   PROVE  moved.players[y] = left.players[y] + (IF moved.entry[i].server = y THEN 1 ELSE 0)
                                                             - (IF left.entry[i].server = y THEN 1 ELSE 0)
        OBVIOUS
      <4>1. left.players[y] \in Int /\ NoZone # y
        BY <2>2, HandoffAssumption
      <4>2. moved.players[y] = IF y = z THEN left.players[y] + 1 ELSE left.players[y]
        <5>1. CASE y = z
          <6>1. players[y] = left.players[y] + 1
            BY <2>3, <5>1
          <6> QED
            BY <2>5, <5>1, <6>1
        <5>2. CASE y # z
          <6>1. players[y] = left.players[y]
            BY <2>3, <5>2
          <6> QED
            BY <2>5, <5>2, <6>1
        <5> QED
          BY <5>1, <5>2
      <4> QED
        BY <2>7, <4>1, <4>2
    <3>2. moved.numplayers = left.numplayers + (IF moved.entry[i].online >= Online THEN 1 ELSE 0)
                                             - (IF left.entry[i].online >= Online THEN 1 ELSE 0)
      BY <2>2, <2>5, <2>7
    <3> QED
      <4>1. OneChange(left, moved, i)
        BY <2>7, <3>1, <3>2 DEF OneChange
      <4> QED
        BY <2>1, <2>5, <4>1, Recount
  <2>10. Sound(moved)
    BY <2>5, <2>8, <2>9 DEF Sound
  <2>11. Update(l, i, z, s) = SetOnline(moved, i, s)
    BY <1>2, <1>4
  <2>12. moved.entry[i].listed = l.entry[i].listed /\ moved.entry[i].online = l.entry[i].online
    BY <1>1, <2>3, <2>5, <2>6 DEF Entries
  <2>13. Has(moved, i)
    BY <2>5 DEF Has
  <2> QED
    BY <2>5, <2>6, <2>7, <2>10, <2>11, <2>12, <2>13, SetOnlineSound
<1> QED
  BY <1>3, <1>4

\* LeavingZone, for the zone that the entry is in.
LEMMA LeavingZoneSound ==
    ASSUME NEW l, Sound(l), NEW i \in Ids, Has(l, i), NEW z, NEW s \in Levels
    PROVE  /\ Sound(LeavingZone(l, i, z, s)) /\ LeavingZone(l, i, z, s).next = l.next
           /\ \A j \in Ids \ {i} : LeavingZone(l, i, z, s).entry[j] = l.entry[j]
<1>1. CASE z # l.entry[i].server
  BY <1>1 DEF LeavingZone
<1>2. CASE z = l.entry[i].server
  <2> DEFINE set == SetOnline(l, i, s)
  <2>1. Sound(set) /\ set.next = l.next /\ \A j \in Ids \ {i} : set.entry[j] = l.entry[j]
    BY SetOnlineSound
  <2>2. LeavingZone(l, i, z, s) = Camp(set, i)
    BY <1>2 DEF LeavingZone
  <2> HIDE DEF set
  <2>3. set.entry \in [Ids -> Entries]
    BY <2>1 DEF Sound, Lists
  <2> QED
    <3>1. Sound(Camp(set, i)) /\ Camp(set, i).next = set.next
          /\ Camp(set, i).entry = [set.entry EXCEPT ![i].server = NoZone]
      BY <2>1, CampSound
    <3>2. \A j \in Ids \ {i} : Camp(set, i).entry[j] = set.entry[j]
      BY <2>3, <3>1
    <3> QED
      BY <2>1, <2>2, <3>1, <3>2
<1> QED
  BY <1>1, <1>2

\* The new entry of a client that the list has forgotten.
LEMMA RecreateSound ==
    ASSUME NEW l, Sound(l), l.next <= MaxLogins, NEW z \in Zones, NEW remove \in 0 .. 2
    PROVE  Sound(Recreate(l, z, remove)) /\ Recreate(l, z, remove).next = l.next + 1
<1> DEFINE s == NewStatuses[remove + 1]
           made1 == NewEntry(l, FALSE)
           i == l.next
<1>1. Sound(made1) /\ made1.next = i + 1
  BY NewEntrySound
<1>2. i \in Ids /\ i \in Int
  BY HandoffAssumption DEF Sound, Lists, Ids
<1>3. Has(made1, i)
  <2>1. i < i + 1
    BY <1>2
  <2> QED
    BY <1>1, <1>2, <2>1 DEF Has
<1>4. s \in Levels
  BY DEF NewStatuses, Levels, InZone, Zoning, Online, Never
<1>5. Recreate(l, z, remove) = IF s >= Zoning THEN Update(made1, i, z, s) ELSE SetOnline(made1, i, s)
  BY DEF Recreate
<1> HIDE DEF made1, s
<1>6. Sound(Update(made1, i, z, s)) /\ Update(made1, i, z, s).next = i + 1
  BY <1>1, <1>2, <1>3, <1>4, UpdateSound
<1>7. Sound(SetOnline(made1, i, s)) /\ SetOnline(made1, i, s).next = i + 1
  BY <1>1, <1>2, <1>3, <1>4, SetOnlineSound
<1> QED
  BY <1>5, <1>6, <1>7

\* A stale entry goes offline and is removed.
LEMMA EraseSound ==
    ASSUME NEW l, Sound(l), NEW i \in Ids, Has(l, i)
    PROVE  LET r == [SetOnline(l, i, Offline) EXCEPT !.entry[i] = NoEntry]
           IN  Sound(r) /\ r.next = l.next
<1> DEFINE set == SetOnline(l, i, Offline)
           entry == [set.entry EXCEPT ![i] = NoEntry]
           r == [set EXCEPT !.entry = entry]
<1>1. Offline \in Levels /\ Offline < Zoning /\ Offline < Online
  BY DEF Levels, Offline, Never, InZone, Zoning, Online
<1>2. Sound(set) /\ set.next = l.next
      /\ set.entry[i].online = Raised(l.entry[i].online, Offline) /\ set.entry[i].server = NoZone
  BY <1>1, SetOnlineSound
<1>3. set.entry[i].online = Offline
  BY <1>2 DEF Raised, Offline, Online
<1> HIDE DEF set
<1>4. /\ set \in Lists /\ set.entry \in [Ids -> Entries] /\ set.numplayers \in Int
      /\ \A z \in Zones : set.players[z] \in Int
  BY <1>2 DEF Sound, Lists
<1>5. NoEntry \in Entries /\ NoEntry.online = Never /\ NoEntry.server = NoZone
  BY DEF NoEntry, Entries, Never, InZone
<1>6. entry \in [Ids -> Entries] /\ entry[i] = NoEntry /\ \A j \in Ids \ {i} : entry[j] = set.entry[j]
  BY <1>4, <1>5
<1> HIDE DEF entry
<1>7. /\ r \in Lists /\ r.next = set.next /\ r.entry = entry
      /\ r.numplayers = set.numplayers /\ r.players = set.players
  BY <1>4, <1>6 DEF Lists
<1> HIDE DEF r
<1>8. Fresh(r)
  BY <1>2, <1>6, <1>7 DEF Sound, Fresh
<1>9. OneChange(set, r, i)
  <2>1. \A j \in Ids \ {i} : r.entry[j] = set.entry[j]
    BY <1>6, <1>7
  <2>2. r.numplayers = set.numplayers + (IF r.entry[i].online >= Online THEN 1 ELSE 0)
                                      - (IF set.entry[i].online >= Online THEN 1 ELSE 0)
    BY <1>3, <1>4, <1>5, <1>6, <1>7 DEF Online, Offline, Never
  <2>3. \A z \in Zones : r.players[z] = set.players[z] + (IF r.entry[i].server = z THEN 1 ELSE 0)
                                                      - (IF set.entry[i].server = z THEN 1 ELSE 0)
    BY <1>2, <1>4, <1>5, <1>6, <1>7
  <2> QED
    BY <2>1, <2>2, <2>3 DEF OneChange
<1>10. Counted(r)
  BY <1>2, <1>7, <1>9, Recount
<1>11. Sound(r) /\ r.next = l.next
  BY <1>2, <1>7, <1>8, <1>10 DEF Sound
<1> QED
  BY <1>11 DEF r, entry, set

\* The death of a zone takes all its clients off the list's counters.
LEMMA RemoveZoneSound ==
    ASSUME NEW l, Sound(l), NEW z \in Zones
    PROVE  Sound(RemoveZone(l, z)) /\ RemoveZone(l, z).next = l.next
<1> DEFINE here == ListedIn(l, z)
           gone == {i \in here : l.entry[i].online >= Online}
           entry == [i \in Ids |-> IF i \in here
                              THEN [l.entry[i] EXCEPT !.server = NoZone, !.online = Offline] ELSE l.entry[i]]
           n == l.numplayers - Cardinality(gone)
           players == [l.players EXCEPT ![z] = 0]
           r == [l EXCEPT !.entry = entry, !.numplayers = n, !.players = players]
<1>1. RemoveZone(l, z) = r
  BY DEF RemoveZone, ListedIn
<1>2. /\ l \in Lists /\ l.entry \in [Ids -> Entries] /\ l.numplayers \in Int /\ l.players \in [Zones -> Int]
      /\ l.numplayers = Cardinality(OnlineIn(l))
      /\ \A y \in Zones : l.players[y] = Cardinality(ListedIn(l, y))
  BY DEF Sound, Lists, Counted, OnlineIn, ListedIn
<1>3. /\ here \in SUBSET Ids /\ gone \in SUBSET Ids /\ OnlineIn(l) \in SUBSET Ids
      /\ gone \subseteq OnlineIn(l)
      /\ \A i \in Ids : i \in here <=> l.entry[i].server = z
      /\ \A i \in Ids : i \in gone <=> i \in here /\ i \in OnlineIn(l)
  BY DEF ListedIn, OnlineIn
<1>4. entry \in [Ids -> Entries] /\ players \in [Zones -> Int] /\ n \in Int
  <2>1. Cardinality(gone) \in Int
    BY <1>3, IdsFinite, FS_CardinalityType, FS_Subset
  <2>2. \A i \in Ids : [l.entry[i] EXCEPT !.server = NoZone, !.online = Offline] \in Entries
    <3>1. Offline \in Never .. InZone /\ NoZone \in Zones \cup {NoZone}
      BY DEF Offline, Never, InZone
    <3>2. \A i \in Ids : l.entry[i] \in Entries
      BY <1>2
    <3> HIDE DEF r, entry, players, n, gone, here
    <3> QED
      BY <3>1, <3>2 DEF Entries
  <2>3. players \in [Zones -> Int]
    BY <1>2
  <2>4. n \in Int
    BY <1>2, <2>1
  <2>5. \A i \in Ids : l.entry[i] \in Entries
    BY <1>2
  <2> HIDE DEF here
  <2>6. entry \in [Ids -> Entries]
    BY <2>2, <2>5
  <2> QED
    BY <2>3, <2>4, <2>6
<1>5. \A i \in Ids : /\ i \in here => entry[i].server = NoZone /\ entry[i].online = Offline
                     /\ i \notin here => entry[i] = l.entry[i]
  BY <1>2 DEF Entries
<1>6. \A y \in Zones : players[y] = IF y = z THEN 0 ELSE l.players[y]
  BY <1>2
<1> HIDE DEF entry, players, n, here, gone
<1>7. /\ r \in Lists /\ r.next = l.next /\ r.entry = entry /\ r.numplayers = n /\ r.players = players
  BY <1>2, <1>4 DEF Lists
<1> HIDE DEF r
<1>8. Fresh(r)
  <2> SUFFICES ASSUME NEW i \in Ids, i >= l.next PROVE entry[i] = NoEntry
    BY <1>7 DEF Fresh
  <2>1. l.entry[i] = NoEntry
    BY DEF Sound, Fresh
  <2>2. i \notin here
    BY <1>3, <2>1, HandoffAssumption DEF NoEntry
  <2> QED
    BY <1>5, <2>1, <2>2
<1>9. n = Cardinality(OnlineIn(r))
  <2>1. OnlineIn(r) = OnlineIn(l) \ gone
    <3>1. \A i \in Ids : i \in OnlineIn(r) <=> entry[i].online >= Online
      BY <1>7 DEF OnlineIn
    <3>2. \A i \in Ids : i \in here => ~(entry[i].online >= Online)
      BY <1>5 DEF Offline, Online
    <3>3. \A i \in Ids : i \notin here => (entry[i].online >= Online <=> i \in OnlineIn(l))
      BY <1>5 DEF OnlineIn
    <3>4. \A i \in Ids : i \in OnlineIn(r) <=> i \in OnlineIn(l) /\ i \notin gone
      BY <1>3, <3>1, <3>2, <3>3
    <3>5. OnlineIn(r) \subseteq Ids
      BY DEF OnlineIn
    <3> QED
      BY <1>3, <3>4, <3>5
  <2>2. IsFiniteSet(OnlineIn(l)) /\ OnlineIn(l) \cap gone = gone
    BY <1>3, IdsFinite, FS_Subset
  <2>3. Cardinality(OnlineIn(l) \ gone) = Cardinality(OnlineIn(l)) - Cardinality(OnlineIn(l) \cap gone)
    BY <2>2, FS_Difference
  <2> QED
    BY <1>2, <2>1, <2>2, <2>3 DEF n
<1>10. ASSUME NEW y \in Zones PROVE players[y] = Cardinality(ListedIn(r, y))
  <2>1. CASE y = z
    <3>1. ListedIn(r, y) = {}
      <4>1. NoZone # z
        BY HandoffAssumption
      <4>2. \A i \in Ids : entry[i].server # z
        BY <1>3, <1>5, <4>1
      <4> QED
        BY <1>7, <2>1, <4>2 DEF ListedIn
    <3> QED
      BY <1>6, <2>1, <3>1, FS_EmptySet
  <2>2. CASE y # z
    <3>1. ListedIn(r, y) = ListedIn(l, y)
      BY <1>3, <1>5, <1>7, <2>2, HandoffAssumption DEF ListedIn
    <3> QED
      BY <1>2, <1>6, <2>2, <3>1
  <2> QED
    BY <2>1, <2>2
<1>11. Counted(r)
  BY <1>7, <1>9, <1>10 DEF Counted, OnlineIn, ListedIn
<1> QED
  BY <1>1, <1>7, <1>8, <1>11 DEF Sound

-------------------------------------------------------------------------------
(* Types, and what refers to what. *)

Good(b) ==
    /\ b \in Objects
    /\ IF b.zone = NoZone THEN b = NoBody
       ELSE b.state # "none" /\ b.dest \in Zones /\ b.id \in Ids
Rows == [data : Nat, zone : Zones]
Links == [Zones -> Seq(Messages)]

PlayerOK ==
    /\ player \in Players /\ player.body <= made
    /\ player # Out => Has(list, player.id)
BodiesOK == body \in [Bodies -> Objects]
            /\ \A n \in Bodies : Good(body[n]) /\ (body[n].zone # NoZone => n <= made)
BoundsOK == /\ clock \in 0 .. MaxPlay[prompt] /\ made \in 0 .. MaxBodies
            /\ crashes \in 0 .. MaxCrashes[prompt] /\ prompt \in BOOLEAN
Typed == /\ Sound(list) /\ PlayerOK /\ BodiesOK /\ BoundsOK
         /\ auth \in [Zones -> 0 .. MaxLogins] /\ db \in Rows /\ to_zone \in Links /\ to_world \in Links

\* The parts of the invariant about one variable each.
LEMMA Parts == Typed <=> TypeOK /\ Fresh(list) /\ Counted(list) /\ WellFormed
BY DEF Typed, Sound, PlayerOK, BodiesOK, BoundsOK, Good, Rows, Links, TypeOK, WellFormed, Has

\* The types hold in the beginning.
LEMMA InitTyped == Init => Typed
<1> SUFFICES ASSUME Init PROVE Typed
  OBVIOUS
<1> USE DEF Init
<1>1. NoEntry \in Entries /\ NoEntry.online = Never /\ NoEntry.server = NoZone
  BY DEF NoEntry, Entries, Never, InZone
<1>2. list.next = 1 /\ list.numplayers = 0 /\ (\A z \in Zones : list.players[z] = 0)
      /\ list.entry = [i \in Ids |-> NoEntry]
  OBVIOUS
<1>3. Sound(list)
  <2>1. 1 \in 1 .. MaxLogins + 1
    BY IdsFinite
  <2>2. list \in Lists
    BY <1>1, <2>1 DEF Lists
  <2>3. OnlineIn(list) = {}
    BY <1>1, <1>2 DEF OnlineIn, Online, Never
  <2>4. \A z \in Zones : ListedIn(list, z) = {}
    BY <1>1, <1>2, HandoffAssumption DEF ListedIn
  <2>5. Counted(list)
    BY <1>2, <2>3, <2>4, FS_EmptySet DEF Counted, OnlineIn, ListedIn
  <2> QED
    BY <1>2, <2>2, <2>5 DEF Sound, Fresh
<1>4. PlayerOK
  BY IdsFinite DEF PlayerOK, Players, Out
<1>5. BodiesOK
  BY IdsFinite DEF BodiesOK, Good, NoBody, Objects
<1>6. BoundsOK
  <2>1. prompt \in BOOLEAN /\ MaxPlay \in [BOOLEAN -> Nat] /\ MaxCrashes \in [BOOLEAN -> Nat]
    BY HandoffAssumption
  <2>2. MaxPlay[prompt] \in Nat /\ MaxCrashes[prompt] \in Nat
    BY <2>1
  <2> QED
    BY <2>1, <2>2, IdsFinite DEF BoundsOK
<1>7. auth \in [Zones -> 0 .. MaxLogins] /\ db \in Rows /\ to_zone \in Links /\ to_world \in Links
  BY IdsFinite DEF Rows, Links
<1> QED
  BY <1>3, <1>4, <1>5, <1>6, <1>7 DEF Typed

\* Links: a message more, a message less, and what it is.
LEMMA SayTyped ==
    ASSUME NEW link \in Links, NEW z \in Zones, NEW m \in Messages
    PROVE  /\ Say(link, z, m) \in Links /\ Say(link, z, m)[z] = Append(link[z], m)
           /\ \A y \in Zones \ {z} : Say(link, z, m)[y] = link[y]
BY DEF Say, Links

\* A link that has delivered its first message is one, ...
LEMMA TailTyped ==
    ASSUME NEW link \in Links, NEW z \in Zones, link[z] # <<>>
    PROVE  /\ [link EXCEPT ![z] = Tail(@)] \in Links /\ Head(link[z]) \in Messages
<1>1. link[z] \in Seq(Messages)
  BY DEF Links
<1>2. Tail(link[z]) \in Seq(Messages) /\ Head(link[z]) \in Messages
  BY <1>1
<1> QED
  BY <1>2 DEF Links

\* ... and the message has the fields of its type.
LEMMA MessageTyped ==
    ASSUME NEW m \in Messages
    PROVE  /\ m.type \in {"IncClient", "ChangeWID"} => m.id \in Ids
           /\ m.type = "ZoneToZoneRequest" => m.from \in Zones /\ m.to \in Zones
           /\ m.type = "ZoneToZoneRequest" =>
                 \A r \in {-1, 0, 1} : [m EXCEPT !.response = r] \in Messages
           /\ m.type = "ClientList" => m.id \in Ids /\ m.remove \in 0 .. 2
BY DEF Messages

\* What the program says is a message.
LEMMA SaidTyped ==
    /\ \A i \in Ids : [type |-> "IncClient", id |-> i] \in Messages /\ [type |-> "ChangeWID", id |-> i] \in Messages
    /\ Drop \in Messages /\ \A r \in {-1, 0, 1} : AcceptEntrance(r) \in Messages
    /\ \A y, z \in Zones, r \in {-1, 0, 1} : ZoneToZone(y, z, r) \in Messages
    /\ \A n \in Bodies, r \in 0 .. 2 : body[n].id \in Ids => Who(n, r) \in Messages
BY DEF Messages, Drop, AcceptEntrance, ZoneToZone, Who

\* Whom a zone finds.
LEMMA FoundHere ==
    ASSUME Typed, NEW z \in Zones, NEW n \in Found(z)
    PROVE  /\ n = 0 <=> In(z) = {}
           /\ n # 0 => n \in Bodies /\ body[n].zone = z /\ z # NoZone /\ Good(body[n])
BY HandoffAssumption DEF Found, In, Bodies, Typed, BodiesOK

\* What is saved of a client is a row, no older than the client.
LEMMA SavedRow ==
    ASSUME Typed, NEW b, Good(b), b.zone # NoZone
    PROVE  Saved(b) \in Rows /\ (Saved(b) = db \/ Saved(b).data = b.data)
<1>1. b.data \in Nat /\ b.dest \in Zones /\ db \in Rows
  BY DEF Good, Objects, Typed
<1> QED
  BY <1>1 DEF Saved, Rows

\* Another state of a client that is there.
LEMMA BodyPut ==
    ASSUME Typed, NEW n \in Bodies, body[n].zone # NoZone, NEW r, Good(r), r.zone = body[n].zone,
           body' = [body EXCEPT ![n] = r], made' = made
    PROVE  /\ BodiesOK' /\ body'[n] = r
           /\ \A k \in Bodies \ {n} : body'[k] = body[k]
<1>1. r \in Objects
  BY DEF Good
<1>2. body' \in [Bodies -> Objects] /\ body'[n] = r /\ \A k \in Bodies \ {n} : body'[k] = body[k]
  BY <1>1 DEF Typed, BodiesOK
<1>3. \A k \in Bodies : Good(body'[k]) /\ (body'[k].zone # NoZone => k <= made')
  BY <1>2 DEF Typed, BodiesOK
<1> QED
  BY <1>2, <1>3 DEF BodiesOK

\* Its states.
LEMMA Becomes ==
    ASSUME NEW b, Good(b), b.zone # NoZone,
           NEW s \in {"connecting", "playing", "told", "linkdead", "leaving"}, NEW d \in Zones
    PROVE  /\ Good([b EXCEPT !.state = s]) /\ [b EXCEPT !.state = s].zone = b.zone
           /\ [b EXCEPT !.state = s].state = s /\ [b EXCEPT !.state = s].data = b.data
           /\ Good([b EXCEPT !.dest = d, !.state = s]) /\ [b EXCEPT !.dest = d, !.state = s].zone = b.zone
           /\ [b EXCEPT !.dest = d, !.state = s].state = s /\ [b EXCEPT !.dest = d, !.state = s].data = b.data
BY DEF Good, Objects

\* A kick: the client is on its way out, saved, and its player is out.
LEMMA Kicked ==
    ASSUME Typed, NEW z \in Zones, NEW n \in Found(z), Kick(n), made' = made
    PROVE  /\ BodiesOK' /\ db' \in Rows /\ player' \in {player, Out}
           /\ \A k \in Bodies \ {n} : body'[k] = body[k]
           /\ n # 0 => /\ body'[n].zone = body[n].zone /\ body'[n].state = "leaving"
                       /\ body'[n].data = body[n].data
                       /\ db' = db \/ db'.data = body[n].data
           /\ n = 0 => UNCHANGED <<body, db, player>>
<1>1. CASE n = 0
  BY <1>1 DEF Kick, Typed, BodiesOK
<1>2. CASE n # 0
  <2>1. n \in Bodies /\ body[n].zone # NoZone /\ Good(body[n])
    BY <1>2, FoundHere, HandoffAssumption
  <2> DEFINE r == [body[n] EXCEPT !.state = "leaving"]
  <2>2. Good(r) /\ r.zone = body[n].zone /\ r.state = "leaving" /\ r.data = body[n].data
    BY <2>1, Becomes DEF Good
  <2>3. body' = [body EXCEPT ![n] = r] /\ db' = Saved(body[n]) /\ player' \in {player, Out}
    BY <1>2 DEF Kick, WithoutBody
  <2> HIDE DEF r
  <2> QED
    BY <1>2, <2>1, <2>2, <2>3, BodyPut, SavedRow
<1> QED
  BY <1>1, <1>2

\* What was made stays made.
LEMMA HasKept ==
    ASSUME Typed, Sound(list'), list'.next >= list.next, NEW i, Has(list, i)
    PROVE  Has(list', i)
<1>1. list.next \in Int /\ list'.next \in Int /\ i \in Int
  BY IdsFinite DEF Typed, Sound, Lists, Has, Ids
<1> QED
  BY <1>1 DEF Has

\* A player that was made holds an entry that was made.
LEMMA PlayerHas ==
    ASSUME Typed, player.at # "out" \/ player.body # 0
    PROVE  player # Out /\ player.id \in Ids /\ Has(list, player.id)
BY DEF Typed, PlayerOK, Has, Out

\* The player with another state, or out.
LEMMA PlayerMoves ==
    ASSUME Typed, Sound(list'), list'.next >= list.next, made' = made,
           player' = Out \/ player' = player
           \/ /\ player # Out /\ player'.id = player.id
              /\ player' \in Players /\ player'.body \in {0, player.body}
    PROVE  PlayerOK'
<1>1. Out \in Players /\ Out.body = 0 /\ Out.at = "out"
  BY IdsFinite DEF Out, Players
<1>2. player \in Players /\ player.body <= made /\ made \in Nat
  BY IdsFinite DEF Typed, PlayerOK, BoundsOK
<1>3. 0 <= made'
  BY <1>2
<1>4. CASE player' = Out
  BY <1>1, <1>3, <1>4 DEF PlayerOK
<1>5. CASE player' = player
  <2>1. player' # Out => Has(list', player'.id)
    BY <1>5, HasKept DEF Typed, PlayerOK
  <2> QED
    BY <1>2, <1>5, <2>1 DEF PlayerOK
<1>6. CASE player # Out /\ player'.id = player.id /\ player' \in Players /\ player'.body \in {0, player.body}
  <2>1. Has(list', player'.id)
    BY <1>6, HasKept DEF Typed, PlayerOK
  <2> QED
    BY <1>2, <1>3, <1>6, <2>1 DEF PlayerOK
<1> QED
  BY <1>4, <1>5, <1>6

\* What is left alone.
LEMMA Kept ==
    ASSUME Typed
    PROVE  /\ list' = list => Sound(list') /\ list'.next >= list.next
           /\ body' = body /\ made' = made => BodiesOK'
           /\ UNCHANGED bounds => BoundsOK' /\ made' = made
<1>1. list' = list => list'.next >= list.next
  <2>1. list.next \in Int
    BY IdsFinite DEF Typed, Sound, Lists
  <2> QED
    BY <2>1
<1> QED
  BY <1>1 DEF Typed, BodiesOK, BoundsOK, bounds, Good

\* Every step of the world keeps the types and takes no id back, ...
LEMMA CLEAddTyped == ASSUME Typed, CLEAdd PROVE Typed' /\ list'.next >= list.next
<1> USE DEF CLEAdd
<1>1. Sound(list') /\ list'.next = list.next + 1
  BY NewEntrySound DEF Typed
<1>2. list.next \in Ids /\ list.next \in Int
  BY IdsFinite DEF Typed, Sound, Lists, Ids
<1>3. /\ player'.id = list.next /\ player'.body = 0 /\ player' \in Players
  <2>1. player' = [at |-> "keyed", id |-> list.next, zone |-> NoZone, body |-> 0]
    BY DEF Out
  <2>2. list.next \in 0 .. MaxLogins /\ 0 \in 0 .. MaxBodies
    BY <1>2, IdsFinite DEF Ids
  <2>3. "keyed" \in {"out", "keyed", "select", "passing", "asking", "cleared", "inzone", "told", "camped"}
        /\ NoZone \in Zones \cup {NoZone}
    OBVIOUS
  <2> HIDE DEF CLEAdd
  <2>4. [at |-> "keyed", id |-> list.next, zone |-> NoZone, body |-> 0] \in Players
    BY <2>2, <2>3 DEF Players
  <2> QED
    BY <2>1, <2>4
<1>4. Has(list', player'.id)
  <2>1. list.next < list.next + 1
    BY <1>2
  <2> QED
    BY <1>1, <1>2, <1>3, <2>1 DEF Has
<1>5. PlayerOK'
  <2>1. 0 <= made'
    BY IdsFinite DEF Typed, BoundsOK, bounds
  <2> QED
    BY <1>3, <1>4, <2>1 DEF PlayerOK
<1>6. list'.next >= list.next
  <2> HIDE DEF CLEAdd
  <2> QED
    BY <1>1, <1>2
<1> QED
  BY <1>1, <1>5, <1>6, Kept DEF Typed

LEMMA LoginTyped == ASSUME Typed, HandleSendLoginInfoPacket PROVE Typed' /\ list'.next >= list.next
<1> USE DEF HandleSendLoginInfoPacket
<1>1. player # Out /\ player.id \in Ids /\ Has(list, player.id) /\ player \in Players
  BY PlayerHas DEF Typed, PlayerOK
<1>2. Sound(list') /\ list'.next >= list.next
  <2>1. CASE list' = list
    BY <2>1, Kept
  <2>2. CASE list' # list
    <3>1. PICK s \in {Online, CharSelect} : list' = SetOnline(list, player.id, s)
      BY <2>2
    <3>2. s \in Levels
      BY DEF Levels, Online, CharSelect, Never, InZone
    <3>3. Sound(list') /\ list'.next = list.next
      BY <1>1, <3>1, <3>2, SetOnlineSound DEF Typed
    <3> QED
      BY <3>3, IdsFinite DEF Typed, Sound, Lists
  <2> QED
    BY <2>1, <2>2
<1>3. player' = Out \/ (player'.id = player.id /\ player' \in Players /\ player'.body = player.body)
  <2>1. player' = Out \/ \E a \in {"passing", "select"} : player' = [player EXCEPT !.at = a]
    OBVIOUS
  <2> QED
    BY <1>1, <2>1 DEF Players
<1>4. PlayerOK'
  BY <1>1, <1>2, <1>3, PlayerMoves DEF bounds
<1> QED
  BY <1>2, <1>4, Kept DEF Typed

LEMMA EnterWorldTyped == ASSUME Typed, EnterWorld PROVE Typed' /\ list'.next >= list.next
<1> USE DEF EnterWorld
<1>1. player # Out /\ player.id \in Ids /\ Has(list, player.id) /\ player \in Players /\ db.zone \in Zones
  BY PlayerHas DEF Typed, PlayerOK, Rows
<1>2. Sound(list') /\ list'.next >= list.next
  <2>1. CASE list' = list
    BY <2>1, Kept
  <2>2. CASE list' # list
    <3>1. list' = SetOnline(list, player.id, Zoning) /\ Zoning \in Levels
      BY <2>2 DEF Levels, Zoning, Never, InZone
    <3>2. Sound(list') /\ list'.next = list.next
      BY <1>1, <3>1, SetOnlineSound DEF Typed
    <3> QED
      BY <3>2, IdsFinite DEF Typed, Sound, Lists
  <2> QED
    BY <2>1, <2>2
<1>3. player'.id = player.id /\ player' \in Players /\ player'.body = player.body
  <2>1. \E a \in {"asking", "cleared"} : player' = [player EXCEPT !.at = a, !.zone = db.zone]
    OBVIOUS
  <2> QED
    BY <1>1, <2>1 DEF Players
<1>4. PlayerOK'
  BY <1>1, <1>2, <1>3, PlayerMoves DEF bounds
<1>5. to_zone' \in Links
  <2> DEFINE c == [type |-> "IncClient", id |-> player.id]
             a == AcceptEntrance(0)
  <2>1. c \in Messages /\ a \in Messages /\ Drop \in Messages
    BY <1>1, SaidTyped
  <2> HIDE DEF c, a
  <2>2. \A s \in Seq(Messages) : Append(s, Drop) \in Seq(Messages) /\ s \o <<c>> \o <<a>> \in Seq(Messages)
                                 /\ s \o <<c>> \o <<>> \in Seq(Messages)
    BY <2>1
  <2>3. \A z \in Zones : to_zone[z] \in Seq(Messages)
    BY DEF Typed, Links
  <2>4. /\ DOMAIN to_zone' = Zones /\ to_zone' = [z \in Zones |-> to_zone'[z]]
        /\ \A z \in Zones : to_zone'[z] \in {Append(to_zone[z], Drop), to_zone[z] \o <<c>> \o <<a>>,
                                          to_zone[z] \o <<c>> \o <<>>}
    BY DEF c, a
  <2>5. \A z \in Zones : to_zone'[z] \in Seq(Messages)
    BY <2>2, <2>3, <2>4
  <2> QED
    BY <2>4, <2>5 DEF Links
<1> QED
  BY <1>2, <1>4, <1>5, Kept DEF Typed

LEMMA QuitTyped == ASSUME Typed, Quit PROVE Typed' /\ list'.next >= list.next
<1> USE DEF Quit
<1>1. Sound(list') /\ list'.next >= list.next
  <2>1. CASE list' = list
    BY <2>1, Kept
  <2>2. CASE list' # list
    <3>1. list' = SetOnline(list, player.id, Offline) /\ Offline \in Levels
      BY <2>2 DEF Levels, Offline, Never, InZone
    <3>2. Sound(list') /\ list'.next = list.next
      BY <3>1, PlayerHas, SetOnlineSound DEF Typed
    <3> QED
      BY <3>2, IdsFinite DEF Typed, Sound, Lists
  <2> QED
    BY <2>1, <2>2
<1>2. PlayerOK'
  BY <1>1, PlayerMoves DEF bounds
<1> QED
  BY <1>1, <1>2, Kept DEF Typed

LEMMA CheckStaleTyped == ASSUME Typed, NEW i \in Ids, CheckStale(i) PROVE Typed' /\ list'.next >= list.next
<1> USE DEF CheckStale
<1>1. Has(list, i)
  BY MadeBefore DEF Typed, NoEntry
<1>2. Sound(list') /\ list'.next = list.next
  BY <1>1, EraseSound DEF Typed
<1>3. list'.next >= list.next
  BY <1>2, IdsFinite DEF Typed, Sound, Lists
<1>4. PlayerOK'
  BY <1>2, <1>3, PlayerMoves DEF bounds
<1> QED
  BY <1>3, <1>2, <1>4, Kept DEF Typed

\* A message taken from a link.
LEMMA TookTyped ==
    ASSUME Typed, NEW z \in Zones
    PROVE  /\ to_world[z] # <<>> /\ Took(z) => to_world' \in Links /\ Head(to_world[z]) \in Messages
           /\ to_zone[z] # <<>> /\ Got(z) => to_zone' \in Links /\ Head(to_zone[z]) \in Messages
BY TailTyped DEF Took, Got, Typed

LEMMA ClientUpdateTyped == ASSUME Typed, NEW z \in Zones, ClientUpdate(z) PROVE Typed' /\ list'.next >= list.next
<1> DEFINE m == Head(to_world[z])
<1>1. to_world' \in Links /\ m \in Messages /\ m.type = "ClientList"
  BY TookTyped DEF ClientUpdate, FromZone
<1>2. m.id \in Ids /\ m.remove \in 0 .. 2
  BY <1>1, MessageTyped
<1> HIDE DEF m
<1>3. CASE list.entry[m.id].listed
  <2>1. Has(list, m.id)
    BY <1>2, <1>3, MadeBefore DEF Typed, NoEntry
  <2>2. Statuses[m.remove + 1] \in Levels /\ InZone \in Levels
    BY <1>2 DEF Statuses, Levels, InZone, Zoning, Offline, Never
  <2>3. list' \in {Update(list, m.id, z, InZone), LeavingZone(list, m.id, z, Statuses[m.remove + 1])}
        /\ to_zone' = to_zone
    BY <1>3 DEF ClientUpdate, m
  <2>4. Sound(list') /\ list'.next = list.next
    BY <1>2, <2>1, <2>2, <2>3, UpdateSound, LeavingZoneSound DEF Typed
  <2>5. list'.next >= list.next
    BY <2>4, IdsFinite DEF Typed, Sound, Lists
  <2>6. PlayerOK'
    BY <2>4, <2>5, PlayerMoves DEF ClientUpdate, bounds
  <2> QED
    BY <1>1, <2>3, <2>4, <2>5, <2>6, Kept DEF Typed, ClientUpdate
<1>4. CASE ~list.entry[m.id].listed
  <2>1. list.next <= MaxLogins /\ list' = Recreate(list, z, m.remove)
        /\ to_zone' = [y \in Zones |-> Append(to_zone[y], [type |-> "ChangeWID", id |-> list.next])]
    BY <1>4 DEF ClientUpdate, m
  <2>2. Sound(list') /\ list'.next = list.next + 1
    BY <1>2, <2>1, RecreateSound DEF Typed
  <2>3. list'.next >= list.next /\ list.next \in Ids
    BY <2>1, <2>2, IdsFinite DEF Typed, Sound, Lists, Ids
  <2>4. PlayerOK'
    BY <2>2, <2>3, PlayerMoves DEF ClientUpdate, bounds
  <2>5. to_zone' \in Links
    <3> DEFINE c == [type |-> "ChangeWID", id |-> list.next]
    <3>1. c \in Messages
      BY <2>3, SaidTyped
    <3> HIDE DEF c
    <3>2. \A y \in Zones : Append(to_zone[y], c) \in Seq(Messages)
      BY <3>1 DEF Typed, Links
    <3>3. to_zone' = [y \in Zones |-> Append(to_zone[y], c)]
      BY <2>1 DEF c
    <3> QED
      BY <3>2, <3>3 DEF Links
  <2> QED
    BY <1>1, <2>2, <2>3, <2>4, <2>5, Kept DEF Typed, ClientUpdate
<1> QED
  BY <1>3, <1>4

LEMMA ClearanceTyped == ASSUME Typed, NEW z \in Zones, Clearance(z) PROVE Typed' /\ list'.next >= list.next
<1> USE DEF Clearance
<1>1. to_world' \in Links
  BY TookTyped DEF FromZone
<1>2. player.at = "asking" => player.id \in Ids /\ Has(list, player.id)
  BY PlayerHas
<1>3. Sound(list') /\ list'.next >= list.next
  <2>1. CASE list' = list
    BY <2>1, Kept
  <2>2. CASE list' # list
    <3>1. player.at = "asking" /\ list' = SetOnline(list, player.id, Zoning) /\ Zoning \in Levels
      BY <2>2 DEF Levels, Zoning, Never, InZone
    <3>2. Sound(list') /\ list'.next = list.next
      BY <1>2, <3>1, SetOnlineSound DEF Typed
    <3> QED
      BY <3>2, IdsFinite DEF Typed, Sound, Lists
  <2> QED
    BY <2>1, <2>2
<1>4. player' = player \/ /\ player # Out /\ player'.id = player.id
                          /\ player' \in Players /\ player'.body = player.body
  <2>1. player \in Players
    BY DEF Typed, PlayerOK
  <2>2. \/ player' = player
        \/ player.at = "asking" /\ player' = [player EXCEPT !.at = "cleared"]
        \/ player.at = "asking" /\ player' = [player EXCEPT !.at = "select", !.zone = NoZone]
    OBVIOUS
  <2>3. player.at = "asking" => player # Out
    BY DEF Out
  <2> QED
    BY <2>1, <2>2, <2>3 DEF Players
<1>5. PlayerOK'
  BY <1>3, <1>4, PlayerMoves DEF bounds
<1> QED
  BY <1>3, <1>1, <1>3, <1>5, Kept DEF Typed

\* ... every step of a zone and of a client keeps them too.
LEMMA RouteTyped == ASSUME Typed, NEW z \in Zones, RouteZoneToZone(z) PROVE Typed'
<1> DEFINE m == Head(to_world[z])
<1>1. to_world' \in Links /\ m \in Messages /\ m.type = "ZoneToZoneRequest"
  BY TookTyped DEF RouteZoneToZone, FromZone
<1>2. m.from \in Zones /\ m.to \in Zones
  BY <1>1, MessageTyped
<1>3. to_zone' \in Links
  <2> DEFINE yes == ZoneToZone(z, m.to, 1)
             no == ZoneToZone(z, m.to, 0)
  <2>1. yes \in Messages /\ no \in Messages
    BY <1>2, SaidTyped
  <2>2. \/ to_zone' = Say(to_zone, m.from, m)
        \/ to_zone' = Say(Say(to_zone, z, yes), m.to, yes)
        \/ to_zone' = Say(to_zone, z, no)
    BY DEF RouteZoneToZone
  <2> HIDE DEF yes, no, m
  <2>3. to_zone \in Links
    BY DEF Typed
  <2>4. Say(to_zone, m.from, m) \in Links /\ Say(to_zone, z, yes) \in Links /\ Say(to_zone, z, no) \in Links
    BY <1>1, <1>2, <2>1, <2>3, SayTyped
  <2>5. Say(Say(to_zone, z, yes), m.to, yes) \in Links
    BY <1>2, <2>1, <2>4, SayTyped
  <2> QED
    BY <2>2, <2>4, <2>5
<1> HIDE DEF m
<1>4. PlayerOK'
  BY Kept, PlayerMoves DEF RouteZoneToZone, bounds
<1> QED
  BY <1>1, <1>3, <1>4, Kept DEF Typed, RouteZoneToZone

\* A kick, and what else happens to the links and to the authorisation.
LEMMA KickTyped ==
    ASSUME Typed, NEW z \in Zones, NEW n \in Found(z), Kick(n), list' = list, UNCHANGED bounds,
           auth' \in [Zones -> 0 .. MaxLogins], to_zone' \in Links, to_world' \in Links
    PROVE  Typed'
<1>1. made' = made
  BY DEF bounds
<1>2. BodiesOK' /\ db' \in Rows /\ player' \in {player, Out}
  BY <1>1, Kicked
<1>3. PlayerOK'
  BY <1>1, <1>2, Kept, PlayerMoves
<1> QED
  BY <1>2, <1>3, Kept DEF Typed

LEMMA IncClientTyped == ASSUME Typed, NEW z \in Zones, IncClient(z) PROVE Typed'
<1>1. to_zone' \in Links /\ Head(to_zone[z]) \in Messages /\ Head(to_zone[z]).type = "IncClient"
  BY TookTyped DEF IncClient, ToZone
<1>2. Head(to_zone[z]).id \in Ids
  BY <1>1, MessageTyped
<1>3. auth' \in [Zones -> 0 .. MaxLogins]
  BY <1>2, IdsFinite DEF IncClient, Typed, Ids
<1>4. PICK n \in Found(z) : Kick(n)
  BY DEF IncClient
<1> QED
  BY <1>1, <1>3, <1>4, KickTyped DEF IncClient, Typed

LEMMA DropClientTyped == ASSUME Typed, NEW z \in Zones, DropClient(z) PROVE Typed'
<1>1. to_zone' \in Links
  BY TookTyped DEF DropClient, ToZone
<1>2. auth' \in [Zones -> 0 .. MaxLogins]
  BY IdsFinite DEF DropClient, Typed
<1>3. PICK n \in Found(z) : Kick(n)
  BY DEF DropClient
<1> QED
  BY <1>1, <1>2, <1>3, KickTyped DEF DropClient, Typed

LEMMA AcceptTyped == ASSUME Typed, NEW z \in Zones, AcceptWorldEntrance(z) PROVE Typed'
<1> USE DEF AcceptWorldEntrance
<1>1. to_zone' \in Links
  BY TookTyped DEF ToZone
<1>2. PICK r \in {-1, 0, 1} : to_world' = Say(to_world, z, AcceptEntrance(r))
  OBVIOUS
<1>3. to_world' \in Links
  BY <1>2, SaidTyped, SayTyped DEF Typed
<1>4. PlayerOK'
  BY Kept, PlayerMoves DEF bounds, world
<1> QED
  BY <1>1, <1>3, <1>4, Kept DEF Typed, world

LEMMA ChangeWIDTyped == ASSUME Typed, NEW z \in Zones, ChangeWID(z) PROVE Typed'
<1>1. to_zone' \in Links /\ Head(to_zone[z]) \in Messages /\ Head(to_zone[z]).type = "ChangeWID"
  BY TookTyped DEF ChangeWID, ToZone
<1>2. Head(to_zone[z]).id \in Ids
  BY <1>1, MessageTyped
<1>3. PICK n \in Found(z) : body' = IF n = 0 THEN body ELSE [body EXCEPT ![n].id = Head(to_zone[z]).id]
  BY DEF ChangeWID
<1>4. BodiesOK'
  <2>1. made' = made
    BY DEF ChangeWID, bounds
  <2>2. CASE n = 0
    BY <1>3, <2>1, <2>2, Kept
  <2>3. CASE n # 0
    <3>1. n \in Bodies /\ body[n].zone # NoZone /\ Good(body[n])
      BY <2>3, FoundHere
    <3> DEFINE id == Head(to_zone[z]).id
               r == [body[n] EXCEPT !.id = id]
    <3>2. id \in 0 .. MaxLogins
      BY <1>2, IdsFinite DEF Ids
    <3>3. body' = [body EXCEPT ![n] = r]
      BY <1>3, <2>3
    <3> HIDE DEF id
    <3>4. Good(r) /\ r.zone = body[n].zone
      BY <1>2, <3>1, <3>2 DEF Good, Objects, id
    <3> HIDE DEF r
    <3> QED
      BY <2>1, <3>1, <3>3, <3>4, BodyPut
  <2> QED
    BY <2>2, <2>3
<1>5. PlayerOK'
  BY Kept, PlayerMoves DEF bounds, world, ChangeWID
<1> QED
  BY <1>1, <1>4, <1>5, Kept DEF Typed, world, ChangeWID

LEMMA ReplyTyped == ASSUME Typed, NEW z \in Zones, ZoneChangeReply(z) PROVE Typed'
<1> DEFINE m == Head(to_zone[z])
           allowed == m.response > 0
           dest == IF allowed THEN m.to ELSE z
<1>1. to_zone' \in Links /\ m \in Messages /\ m.type = "ZoneToZoneRequest"
  BY TookTyped DEF ZoneChangeReply, ToZone
<1>2. dest \in Zones
  BY <1>1, MessageTyped
<1>3. PICK n \in Found(z) :
         IF n = 0 THEN UNCHANGED <<body, db, to_world, player>>
         ELSE /\ \E s \in {"told", body[n].state} : body' = [body EXCEPT ![n].dest = dest, ![n].state = s]
              /\ db' = [data |-> body[n].data, zone |-> dest]
              /\ to_world' = IF allowed THEN Say(to_world, z, Who(n, 1)) ELSE to_world
              /\ \/ player' = player
                 \/ /\ player.body = n
                    /\ player' = [player EXCEPT !.at = "told", !.body = 0, !.zone = NoZone]
  BY DEF ZoneChangeReply
<1>4. list' = list /\ auth' = auth /\ UNCHANGED bounds /\ made' = made
  BY DEF ZoneChangeReply, bounds
<1>5. CASE n = 0
  <2>1. PlayerOK'
    BY <1>3, <1>4, <1>5, Kept, PlayerMoves
  <2> QED
    BY <1>1, <1>3, <1>4, <1>5, <2>1, Kept DEF Typed
<1>6. CASE n # 0
  <2>1. n \in Bodies /\ body[n].zone # NoZone /\ Good(body[n])
    BY <1>6, FoundHere
  <2>2. PICK s \in {"told", body[n].state} : body' = [body EXCEPT ![n].dest = dest, ![n].state = s]
    BY <1>3, <1>6
  <2> DEFINE r == [body[n] EXCEPT !.dest = dest, !.state = s]
  <2>3. s \in {"connecting", "playing", "told", "linkdead", "leaving"}
    BY <2>1 DEF Good, Objects
  <2> HIDE DEF dest, m
  <2>4. Good(r) /\ r.zone = body[n].zone
    <3> DEFINE b == body[n]
    <3>1. Good(b) /\ b.zone # NoZone
      BY <2>1
    <3> HIDE DEF b
    <3>2. Good([b EXCEPT !.dest = dest, !.state = s]) /\ [b EXCEPT !.dest = dest, !.state = s].zone = b.zone
      BY <1>2, <2>3, <3>1 DEF Good, Objects
    <3> QED
      BY <3>2 DEF b
  <2>5. body' = [body EXCEPT ![n] = r]
    BY <2>2
  <2> HIDE DEF r
  <2>6. BodiesOK'
    BY <1>4, <2>1, <2>4, <2>5, BodyPut
  <2>7. db' \in Rows /\ to_world' \in Links
    <3>1. body[n].data \in Nat /\ body[n].id \in Ids
      BY <2>1 DEF Good, Objects
    <3>2. Who(n, 1) \in Messages
      BY <2>1, <3>1, SaidTyped
    <3>3. to_world' \in {to_world, Say(to_world, z, Who(n, 1))}
      BY <1>3, <1>6
    <3> QED
      BY <1>2, <1>3, <1>6, <3>1, <3>2, <3>3, SayTyped DEF Rows, Typed
  <2>8. PlayerOK'
    <3>1. player \in Players
      BY DEF Typed, PlayerOK
    <3>2. CASE player' = player
      BY <1>4, <3>2, Kept, PlayerMoves
    <3>3. CASE player' # player
      <4>1. player.body = n /\ player' = [player EXCEPT !.at = "told", !.body = 0, !.zone = NoZone]
        BY <1>3, <1>6, <3>3
      <4>2. 0 \in 0 .. MaxBodies /\ NoZone \in Zones \cup {NoZone}
        BY IdsFinite
      <4>3. player' \in Players /\ player'.id = player.id /\ player'.body = 0
        BY <3>1, <4>1, <4>2 DEF Players
      <4>4. player # Out
        BY <1>6, <4>1 DEF Out
      <4> QED
        BY <1>4, <4>3, <4>4, Kept, PlayerMoves
    <3> QED
      BY <3>2, <3>3
  <2> QED
    BY <1>1, <1>4, <2>6, <2>7, <2>8, Kept DEF Typed
<1> QED
  BY <1>5, <1>6

LEMMA RequestTyped == ASSUME Typed, NEW z \in Zones, ZoneChangeRequest(z) PROVE Typed'
<1>1. to_zone' \in Links /\ Head(to_zone[z]) \in Messages /\ Head(to_zone[z]).type = "ZoneToZoneRequest"
  BY TookTyped DEF ZoneChangeRequest, ToZone
<1>2. PICK r \in {-1, 0, 1} : to_world' = Say(to_world, z, [Head(to_zone[z]) EXCEPT !.response = r])
  BY DEF ZoneChangeRequest
<1>3. to_world' \in Links
  BY <1>1, <1>2, MessageTyped, SayTyped DEF Typed
<1>4. PlayerOK'
  BY Kept, PlayerMoves DEF bounds, world, ZoneChangeRequest
<1> QED
  BY <1>1, <1>3, <1>4, Kept DEF Typed, world, ZoneChangeRequest

\* What arrives in a zone: the older client that is found there, saved, and the new one.
LEMMA Arrives ==
    ASSUME Typed, NEW z \in Zones, ZoneEntry(z)
    PROVE  \E ghost \in Found(z), saved \in Rows :
              /\ db' = saved /\ (saved = db \/ (ghost # 0 /\ saved.data = body[ghost].data))
              /\ \/ /\ auth[z] = 0 /\ player' = Out /\ made' = made
                    /\ ghost = 0 => body' = body
                    /\ ghost # 0 => body' = [body EXCEPT ![ghost].state = "leaving"]
                 \/ /\ auth[z] # 0 /\ made' = made + 1
                    /\ player' = [player EXCEPT !.at = "inzone", !.body = made + 1]
                    /\ \E rest : /\ ghost = 0 => rest = body
                                 /\ ghost # 0 => rest = [body EXCEPT ![ghost].state = "leaving"]
                                 /\ body' = [rest EXCEPT ![made + 1] =
                                       [zone |-> z, state |-> "connecting", data |-> saved.data, dest |-> z,
                                        id |-> auth[z], loaded |-> FALSE]]
<1>1. PICK ghost \in Found(z) :
          LET saved == IF ghost = 0 THEN db ELSE Saved(body[ghost])
              rest == IF ghost = 0 THEN body ELSE [body EXCEPT ![ghost].state = "leaving"]
          IN /\ db' = saved
             /\ IF auth[z] = 0 THEN body' = rest /\ player' = Out /\ UNCHANGED made
                ELSE /\ body' = [rest EXCEPT ![made + 1] =
                           [zone |-> z, state |-> "connecting", data |-> saved.data, dest |-> z,
                            id |-> auth[z], loaded |-> FALSE]]
                     /\ player' = [player EXCEPT !.at = "inzone", !.body = made + 1]
                     /\ made' = made + 1
  BY DEF ZoneEntry
<1> DEFINE saved == IF ghost = 0 THEN db ELSE Saved(body[ghost])
           rest == IF ghost = 0 THEN body ELSE [body EXCEPT ![ghost].state = "leaving"]
<1>2. db \in Rows
  BY DEF Typed
<1>3. saved \in Rows /\ (saved = db \/ (ghost # 0 /\ saved.data = body[ghost].data))
  <2>1. CASE ghost = 0
    <3>1. saved = db
      BY <2>1
    <3> QED
      BY <1>2, <3>1
  <2>2. CASE ghost # 0
    <3>1. Good(body[ghost]) /\ body[ghost].zone # NoZone
      BY <2>2, FoundHere
    <3>2. Saved(body[ghost]) \in Rows /\ (Saved(body[ghost]) = db \/ Saved(body[ghost]).data = body[ghost].data)
      BY <3>1, SavedRow
    <3>3. saved = Saved(body[ghost])
      BY <2>2
    <3> QED
      BY <2>2, <3>2, <3>3
  <2> QED
    BY <2>1, <2>2
<1>4. (ghost = 0 => rest = body) /\ (ghost # 0 => rest = [body EXCEPT ![ghost].state = "leaving"])
  OBVIOUS
<1>5. /\ db' = saved
      /\ IF auth[z] = 0 THEN body' = rest /\ player' = Out /\ made' = made
         ELSE /\ body' = [rest EXCEPT ![made + 1] =
                    [zone |-> z, state |-> "connecting", data |-> saved.data, dest |-> z,
                     id |-> auth[z], loaded |-> FALSE]]
              /\ player' = [player EXCEPT !.at = "inzone", !.body = made + 1]
              /\ made' = made + 1
  BY <1>1
<1> HIDE DEF saved, rest
<1> QED
  BY <1>3, <1>4, <1>5

\* The older client is on its way out, the new one is the newest and has what was saved.
Comes(z, ghost) ==
    /\ made' \in {made, made + 1} /\ made + 1 \in Bodies
    /\ player' \in Players
    /\ db' = db \/ (ghost # 0 /\ db'.data = body[ghost].data)
    /\ \A k \in Bodies : k # ghost /\ (made' = made \/ k # made + 1) => body'[k] = body[k]
    /\ ghost # 0 => /\ body'[ghost].zone = body[ghost].zone /\ body'[ghost].state = "leaving"
                    /\ body'[ghost].data = body[ghost].data
    /\ made' = made => player' = Out
    /\ made' # made => /\ body'[made + 1].zone = z /\ body'[made + 1].data = db'.data
                       /\ body'[made + 1].state = "connecting"
                       /\ player'.at = "inzone" /\ player'.body = made + 1 /\ player'.id = player.id

LEMMA ZoneEntryTyped ==
    ASSUME Typed, NEW z \in Zones, ZoneEntry(z)
    PROVE  Typed' /\ \E ghost \in Found(z) : Comes(z, ghost)
<1>1. PICK ghost \in Found(z), saved \in Rows :
              /\ db' = saved /\ (saved = db \/ (ghost # 0 /\ saved.data = body[ghost].data))
              /\ \/ /\ auth[z] = 0 /\ player' = Out /\ made' = made
                    /\ ghost = 0 => body' = body
                    /\ ghost # 0 => body' = [body EXCEPT ![ghost].state = "leaving"]
                 \/ /\ auth[z] # 0 /\ made' = made + 1
                    /\ player' = [player EXCEPT !.at = "inzone", !.body = made + 1]
                    /\ \E rest : /\ ghost = 0 => rest = body
                                 /\ ghost # 0 => rest = [body EXCEPT ![ghost].state = "leaving"]
                                 /\ body' = [rest EXCEPT ![made + 1] =
                                       [zone |-> z, state |-> "connecting", data |-> saved.data, dest |-> z,
                                        id |-> auth[z], loaded |-> FALSE]]
  BY Arrives
<1>2. made \in Nat /\ made + 1 \in Bodies /\ made' \in {made, made + 1} /\ made' <= MaxBodies
  BY <1>1, IdsFinite DEF Typed, BoundsOK, Bodies, ZoneEntry
<1>3. player # Out /\ player \in Players /\ Has(list, player.id)
  BY PlayerHas DEF Typed, PlayerOK, ZoneEntry
<1>4. /\ UNCHANGED <<list, auth, to_zone, to_world, clock, crashes, prompt>>
  BY DEF ZoneEntry
<1>5. Good(body[made + 1]) /\ body[made + 1].zone = NoZone /\ body \in [Bodies -> Objects] /\ ghost # made + 1
      /\ (ghost # 0 => ghost \in Bodies /\ body[ghost].zone = z /\ Good(body[ghost]))
  <2>1. ~(made + 1 <= made) /\ made + 1 # 0
    BY <1>2
  <2>2. Good(body[made + 1]) /\ body[made + 1].zone = NoZone /\ body \in [Bodies -> Objects]
    BY <1>2, <2>1 DEF Typed, BodiesOK
  <2> QED
    BY <2>1, <2>2, FoundHere
<1> DEFINE rest == IF ghost = 0 THEN body ELSE [body EXCEPT ![ghost].state = "leaving"]
           new == [zone |-> z, state |-> "connecting", data |-> saved.data, dest |-> z,
                   id |-> auth[z], loaded |-> FALSE]
<1>6. /\ rest \in [Bodies -> Objects]
      /\ \A k \in Bodies : /\ k # ghost => rest[k] = body[k]
                           /\ k = ghost => /\ rest[k].zone = body[k].zone /\ rest[k].state = "leaving"
                                           /\ rest[k].data = body[k].data /\ Good(rest[k])
  <2>1. CASE ghost = 0
    BY <1>5, <2>1 DEF Bodies
  <2>2. CASE ghost # 0
    <3> DEFINE r == [body[ghost] EXCEPT !.state = "leaving"]
    <3>1. ghost \in Bodies /\ body[ghost] \in Objects /\ z # NoZone
      BY <1>5, <2>2, HandoffAssumption
    <3>2. r \in Objects /\ Good(r) /\ r.zone = body[ghost].zone /\ r.state = "leaving" /\ r.data = body[ghost].data
      BY <1>5, <2>2, <3>1 DEF Good, Objects
    <3>3. rest = [body EXCEPT ![ghost] = r]
      BY <2>2
    <3> HIDE DEF r, rest
    <3> QED
      BY <1>5, <3>1, <3>2, <3>3
  <2> QED
    BY <2>1, <2>2
<1>7. CASE made' = made
  <2>1. player' = Out /\ body' = rest
    BY <1>1, <1>2, <1>7
  <2> HIDE DEF rest, new
  <2>2. PlayerOK'
    BY <1>4, <1>7, <2>1, Kept, PlayerMoves
  <2>3. BodiesOK'
    <3>1. \A k \in Bodies : Good(body[k]) /\ (body[k].zone # NoZone => k <= made)
      BY DEF Typed, BodiesOK
    <3>2. \A k \in Bodies : Good(rest[k]) /\ (rest[k].zone # NoZone => k <= made)
      BY <1>6, <3>1
    <3> QED
      BY <1>6, <1>7, <2>1, <3>2 DEF BodiesOK
  <2>4. BoundsOK'
    BY <1>4, <1>7 DEF Typed, BoundsOK
  <2>5. Typed'
    BY <1>1, <1>4, <2>2, <2>3, <2>4, Kept DEF Typed
  <2>6. player' \in Players
    BY <2>2 DEF PlayerOK
  <2>7. Comes(z, ghost)
    BY <1>1, <1>2, <1>5, <1>6, <1>7, <2>1, <2>6 DEF Comes
  <2> QED
    BY <2>5, <2>7
<1>8. CASE made' # made
  <2>1. /\ auth[z] # 0 /\ made' = made + 1 /\ body' = [rest EXCEPT ![made + 1] = new]
        /\ player' = [player EXCEPT !.at = "inzone", !.body = made + 1]
    BY <1>1, <1>8
  <2>2. auth[z] \in Ids /\ auth[z] \in 0 .. MaxLogins
    BY <2>1, IdsFinite DEF Typed, Ids
  <2>3. new \in Objects /\ Good(new) /\ new.zone = z /\ new.state = "connecting" /\ new.data = saved.data
    BY <2>2, HandoffAssumption DEF Objects, Good, Rows
  <2> HIDE DEF rest, new
  <2>4. /\ body' \in [Bodies -> Objects] /\ body'[made + 1] = new
        /\ \A k \in Bodies \ {made + 1} : body'[k] = rest[k]
    BY <1>2, <1>6, <2>1, <2>3
  <2>5. BodiesOK'
    <3>1. \A k \in Bodies : Good(body[k]) /\ (body[k].zone # NoZone => k <= made)
      BY DEF Typed, BodiesOK
    <3>2. \A k \in Bodies : k <= made => k <= made'
      BY <1>2 DEF Bodies
    <3>3. \A k \in Bodies : Good(body'[k]) /\ (body'[k].zone # NoZone => k <= made')
      BY <1>2, <1>6, <2>1, <2>3, <2>4, <3>1, <3>2
    <3> QED
      BY <2>4, <3>3 DEF BodiesOK
  <2>6. player'.at = "inzone" /\ player'.body = made + 1 /\ player'.id = player.id /\ player' \in Players
    <3>1. made + 1 \in 0 .. MaxBodies
      BY <1>2, <2>1
    <3> QED
      BY <1>3, <2>1, <3>1 DEF Players
  <2>7. PlayerOK'
    <3>1. made + 1 <= made'
      BY <1>2, <2>1
    <3> QED
      BY <1>3, <1>4, <2>6, <3>1 DEF PlayerOK, Has
  <2>8. BoundsOK'
    BY <1>2, <1>4, <2>1 DEF Typed, BoundsOK
  <2>9. Typed'
    BY <1>1, <1>4, <2>5, <2>7, <2>8, Kept DEF Typed
  <2>10. \A k \in Bodies : k # ghost /\ (made' = made \/ k # made + 1) => body'[k] = body[k]
    BY <1>6, <1>8, <2>4
  <2>11. Comes(z, ghost)
    BY <1>1, <1>2, <1>5, <1>6, <1>8, <2>1, <2>3, <2>4, <2>6, <2>10 DEF Comes
  <2> QED
    BY <2>9, <2>11
<1> QED
  BY <1>7, <1>8

LEMMA CrashTyped == ASSUME Typed, NEW z \in Zones, Crash(z) PROVE Typed' /\ list'.next >= list.next
<1> USE DEF Crash
<1>1. Sound(list') /\ list'.next = list.next
  BY RemoveZoneSound DEF Typed
<1>2. list'.next >= list.next
  BY <1>1, IdsFinite DEF Typed, Sound, Lists
<1>3. player' \in {player, Out} /\ made' = made
  OBVIOUS
<1>4. PlayerOK'
  BY <1>1, <1>2, <1>3, PlayerMoves
<1>5. BodiesOK'
  <2>1. NoBody \in Objects /\ NoBody.zone = NoZone
    BY IdsFinite DEF NoBody, Objects
  <2>2. body' = [n \in Bodies |-> IF n \in In(z) THEN NoBody ELSE body[n]]
    OBVIOUS
  <2>3. \A n \in Bodies : body[n] \in Objects /\ Good(body[n]) /\ (body[n].zone # NoZone => n <= made)
    BY DEF Typed, BodiesOK
  <2>4. \A n \in Bodies : body'[n] \in {NoBody, body[n]}
    BY <2>2
  <2>5. Good(NoBody)
    BY <2>1 DEF Good
  <2> QED
    BY <1>3, <2>1, <2>2, <2>3, <2>4, <2>5 DEF BodiesOK
<1>6. BoundsOK'
  <2>1. MaxCrashes[prompt] \in Nat
    BY HandoffAssumption DEF Typed, BoundsOK
  <2> QED
    BY <2>1 DEF Typed, BoundsOK
<1>7. auth' \in [Zones -> 0 .. MaxLogins] /\ to_zone' \in Links /\ to_world' \in Links
  BY IdsFinite DEF Typed, Links
<1> QED
  BY <1>2, <1>1, <1>4, <1>5, <1>6, <1>7 DEF Typed

\* A client that is there, and another state of it.
LEMMA Present ==
    ASSUME Typed, NEW n \in Bodies, body[n].state # "none"
    PROVE  /\ Good(body[n]) /\ body[n] \in Objects /\ body[n].zone \in Zones /\ n <= made
           /\ body[n].id \in Ids /\ body[n].dest \in Zones /\ body[n].data \in Nat
BY DEF Typed, BodiesOK, Good, NoBody, Objects

LEMMA ConnectTyped == ASSUME Typed, NEW n \in Bodies, CompleteConnect(n) PROVE Typed'
<1> USE DEF CompleteConnect
<1>1. Good(body[n]) /\ body[n] \in Objects /\ body[n].zone \in Zones /\ body[n].id \in Ids
  BY Present
<1> DEFINE b == body[n]
           r == [b EXCEPT !.state = "playing", !.loaded = TRUE]
<1>2. body' = [body EXCEPT ![n] = r]
  OBVIOUS
<1>3. Good(r) /\ r.zone = body[n].zone
  <2>1. Good(b) /\ b.zone # NoZone
    BY <1>1, HandoffAssumption
  <2> HIDE DEF b
  <2>2. Good(r) /\ r.zone = b.zone
    BY <2>1 DEF Good, Objects
  <2> QED
    BY <2>2 DEF b
<1> HIDE DEF r
<1>4. BodiesOK'
  BY <1>1, <1>2, <1>3, BodyPut, HandoffAssumption DEF bounds
<1>5. to_world' \in Links
  <2>1. Who(n, 0) \in Messages /\ to_world' = Say(to_world, body[n].zone, Who(n, 0))
    BY <1>1, SaidTyped
  <2> QED
    BY <1>1, <2>1, SayTyped DEF Typed
<1>6. PlayerOK'
  BY Kept, PlayerMoves DEF bounds, world
<1> QED
  BY <1>4, <1>5, <1>6, Kept DEF Typed, world

LEMMA PlayTyped == ASSUME Typed, NEW n \in Bodies, Play(n) PROVE Typed'
<1> USE DEF Play, Plays
<1>1. Good(body[n]) /\ body[n] \in Objects /\ body[n].zone \in Zones
  BY Present
<1> DEFINE b == body[n]
           r == [b EXCEPT !.data = clock + 1]
<1>2. body' = [body EXCEPT ![n] = r]
  OBVIOUS
<1>3. MaxPlay[prompt] \in Nat /\ clock \in Nat
  BY HandoffAssumption DEF Typed, BoundsOK
<1>4. Good(r) /\ r.zone = body[n].zone
  <2>1. Good(b) /\ b.zone # NoZone /\ clock + 1 \in Nat
    BY <1>1, <1>3, HandoffAssumption
  <2> HIDE DEF b
  <2>2. Good(r) /\ r.zone = b.zone
    BY <2>1 DEF Good, Objects
  <2> QED
    BY <2>2 DEF b
<1> HIDE DEF r
<1>5. BodiesOK'
  BY <1>1, <1>2, <1>4, BodyPut, HandoffAssumption
<1>6. BoundsOK'
  BY <1>3 DEF Typed, BoundsOK
<1>7. PlayerOK'
  BY Kept, PlayerMoves DEF world
<1> QED
  BY <1>5, <1>6, <1>7, Kept DEF Typed, world

LEMMA SaveTyped == ASSUME Typed, NEW n \in Bodies, Save(n) PROVE Typed'
<1> USE DEF Save
<1>1. Good(body[n]) /\ body[n].zone \in Zones
  BY Present
<1>2. db' \in Rows
  BY <1>1, SavedRow, HandoffAssumption
<1>3. PlayerOK'
  BY Kept, PlayerMoves DEF bounds, world
<1> QED
  BY <1>2, <1>3, Kept DEF Typed, world, bounds

LEMMA UpdateWhoTyped == ASSUME Typed, NEW n \in Bodies, UpdateWho(n) PROVE Typed'
<1> USE DEF UpdateWho, Plays
<1>1. body[n].zone \in Zones /\ body[n].id \in Ids
  BY Present
<1>2. to_world' \in Links
  <2>1. Who(n, 0) \in Messages /\ to_world' = Say(to_world, body[n].zone, Who(n, 0))
    BY <1>1, SaidTyped
  <2> QED
    BY <1>1, <2>1, SayTyped DEF Typed
<1>3. PlayerOK'
  BY Kept, PlayerMoves DEF bounds, world
<1> QED
  BY <1>2, <1>3, Kept DEF Typed, world, bounds

LEMMA DoZoneTyped == ASSUME Typed, NEW n \in Bodies, NEW to \in Zones, DoZoneSuccess(n, to) PROVE Typed'
<1> USE DEF DoZoneSuccess, Plays
<1>1. Good(body[n]) /\ body[n] \in Objects /\ body[n].zone \in Zones /\ body[n].data \in Nat
  BY Present
<1> DEFINE b == body[n]
           r == [b EXCEPT !.dest = to]
<1>2. body' = [body EXCEPT ![n] = r]
  OBVIOUS
<1>3. Good(r) /\ r.zone = body[n].zone
  <2>1. Good(b) /\ b.zone # NoZone
    BY <1>1, HandoffAssumption
  <2> HIDE DEF b
  <2>2. Good(r) /\ r.zone = b.zone
    BY <2>1 DEF Good, Objects
  <2> QED
    BY <2>2 DEF b
<1> HIDE DEF r
<1>4. BodiesOK'
  BY <1>1, <1>2, <1>3, BodyPut, HandoffAssumption DEF bounds
<1>5. to_world' \in Links /\ db' \in Rows
  BY <1>1, SaidTyped, SayTyped DEF Typed, Rows
<1>6. PlayerOK'
  BY Kept, PlayerMoves DEF bounds, world
<1> QED
  BY <1>4, <1>5, <1>6, Kept DEF Typed, world

LEMMA LeaveTyped == ASSUME Typed, NEW n \in Bodies, Leave(n) PROVE Typed'
<1>1. Good(body[n]) /\ body[n] \in Objects /\ body[n].zone \in Zones
  BY Present DEF Leave, Plays
<1> DEFINE b == body[n]
           r == [b EXCEPT !.state = "leaving"]
<1>2. body' = [body EXCEPT ![n] = r]
  BY DEF Leave
<1>3. Good(r) /\ r.zone = body[n].zone
  <2>1. Good(b) /\ b.zone # NoZone
    BY <1>1, HandoffAssumption
  <2> HIDE DEF b
  <2>2. Good(r) /\ r.zone = b.zone
    BY <2>1 DEF Good, Objects
  <2> QED
    BY <2>2 DEF b
<1> HIDE DEF r
<1>4. BodiesOK'
  BY <1>1, <1>2, <1>3, BodyPut, HandoffAssumption DEF bounds, Leave
<1>5. PlayerOK'
  <2>1. player \in Players
    BY DEF Typed, PlayerOK
  <2>2. CASE player' = player
    BY <2>2, Kept, PlayerMoves DEF bounds, Leave
  <2>3. CASE player' # player
    <3>1. player' = [player EXCEPT !.at = "camped", !.zone = NoZone, !.body = 0] /\ player.body = n
      BY <2>3 DEF Leave, Plays
    <3>2. 0 \in 0 .. MaxBodies /\ NoZone \in Zones \cup {NoZone}
      BY IdsFinite
    <3>3. player' \in Players /\ player'.id = player.id /\ player'.body = 0
      BY <2>1, <3>1, <3>2 DEF Players
    <3>4. player # Out
      BY <3>1 DEF Out, Bodies
    <3> QED
      BY <3>3, <3>4, Kept, PlayerMoves DEF bounds, Leave
  <2> QED
    BY <2>2, <2>3
<1> QED
  BY <1>4, <1>5, Kept DEF Typed, Leave

LEMMA LinkDeadTyped == ASSUME Typed, NEW n \in Bodies, LinkDead(n) PROVE Typed'
<1> USE DEF LinkDead
<1>1. Good(body[n]) /\ body[n] \in Objects /\ body[n].zone \in Zones
  BY Present
<1> DEFINE b == body[n]
           r == [b EXCEPT !.state = "linkdead"]
<1>2. body' = [body EXCEPT ![n] = r]
  OBVIOUS
<1>3. Good(r) /\ r.zone = body[n].zone
  <2>1. Good(b) /\ b.zone # NoZone
    BY <1>1, HandoffAssumption
  <2> HIDE DEF b
  <2>2. Good(r) /\ r.zone = b.zone
    BY <2>1 DEF Good, Objects
  <2> QED
    BY <2>2 DEF b
<1> HIDE DEF r
<1>4. BodiesOK'
  BY <1>1, <1>2, <1>3, BodyPut, HandoffAssumption DEF bounds
<1>5. PlayerOK'
  BY Kept, PlayerMoves DEF bounds, world
<1> QED
  BY <1>4, <1>5, Kept DEF Typed, world

LEMMA DestroyTyped == ASSUME Typed, NEW n \in Bodies, Destroy(n) PROVE Typed'
<1> USE DEF Destroy
<1>1. Good(body[n]) /\ body[n] \in Objects /\ body[n].zone \in Zones /\ body[n].id \in Ids
  BY Present
<1>2. BodiesOK'
  <2>1. NoBody \in Objects /\ NoBody.zone = NoZone
    BY IdsFinite DEF NoBody, Objects
  <2>2. \A k \in Bodies : body[k] \in Objects /\ Good(body[k]) /\ (body[k].zone # NoZone => k <= made)
    BY DEF Typed, BodiesOK
  <2>3. body' \in [Bodies -> Objects] /\ \A k \in Bodies : body'[k] \in {NoBody, body[k]}
    BY <2>1 DEF Typed, BodiesOK
  <2>4. Good(NoBody) /\ made' = made
    BY <2>1 DEF Good, bounds
  <2> QED
    BY <2>1, <2>2, <2>3, <2>4 DEF BodiesOK
<1>3. to_world' \in Links /\ db' \in Rows
  BY <1>1, SaidTyped, SayTyped, SavedRow, HandoffAssumption DEF Typed
<1>4. PlayerOK'
  BY Kept, PlayerMoves DEF bounds, world
<1> QED
  BY <1>2, <1>3, <1>4, Kept DEF Typed, world

\* Every step keeps the types.
LEMMA NextTyped == ASSUME Typed, [Next]_vars PROVE Typed' /\ list'.next >= list.next
<1>1. CASE Next
  <2>1. \/ list' = list
        \/ CLEAdd \/ HandleSendLoginInfoPacket \/ EnterWorld \/ Quit \/ (\E i \in Ids : CheckStale(i))
        \/ \E z \in Zones : ClientUpdate(z) \/ Clearance(z) \/ Crash(z)
    BY <1>1 DEF Next, RouteZoneToZone, IncClient, DropClient, AcceptWorldEntrance, ChangeWID,
       ZoneChangeReply, ZoneChangeRequest, ZoneEntry, CompleteConnect, Play, Save, UpdateWho,
       DoZoneSuccess, Leave, LinkDead, Destroy, world
  <2>2. list'.next >= list.next
    BY <2>1, Kept, CLEAddTyped, LoginTyped, EnterWorldTyped, QuitTyped, CheckStaleTyped,
       ClientUpdateTyped, ClearanceTyped, CrashTyped
  <2> QED
  BY <1>1, <2>2, CLEAddTyped, LoginTyped, EnterWorldTyped, QuitTyped, CheckStaleTyped, ClientUpdateTyped,
     ClearanceTyped, RouteTyped, IncClientTyped, DropClientTyped, AcceptTyped, ChangeWIDTyped,
     ReplyTyped, RequestTyped, ZoneEntryTyped, CrashTyped, ConnectTyped, PlayTyped, SaveTyped,
     UpdateWhoTyped, DoZoneTyped, LeaveTyped, LinkDeadTyped, DestroyTyped DEF Next
<1>2. CASE UNCHANGED vars
  BY <1>2, Kept DEF vars, Typed, Sound, Fresh, Counted, PlayerOK, BodiesOK, BoundsOK, Good, Has
<1> QED
  BY <1>1, <1>2

-------------------------------------------------------------------------------
(* The clients of a character. *)

\* The player is on the way to a zone that has been told.
Way == player.at \in {"asking", "cleared"}

\* A step after which there are no clients that there were not before.
Thins ==
    /\ \A k \in Bodies : body'[k].zone # NoZone =>
          /\ body[k].zone = body'[k].zone
          /\ body[k].state = "leaving" => body'[k].state = "leaving"
          /\ body'[k].data = body[k].data \/ body'[k].data = clock'
    /\ Way' => Way
    /\ db' = db \/ \E n \in Alive : db'.data = body[n].data
    /\ clock' >= clock /\ prompt' = prompt

\* ... and no order to drop one has been carried out.
OrdersKept == \A z \in Zones :
    Orders(to_zone[z]) /\ (\E n \in Alive' : body'[n].zone = z) => Orders(to_zone'[z])

\* The ghosts' part of the invariant.
Ghosts == OneStays /\ AllDoomed /\ GhostDoomed

\* Orders stay in a link when something is said or something else is heard.
LEMMA OrdersSaid ==
    ASSUME NEW s \in Seq(Messages), NEW m \in Messages, Orders(s)
    PROVE  Orders(Append(s, m))
<1>1. PICK i \in DOMAIN s : s[i].type \in {"DropClient", "IncClient"}
  BY DEF Orders
<1>2. i \in DOMAIN Append(s, m) /\ Append(s, m)[i] = s[i]
  OBVIOUS
<1> QED
  BY <1>1, <1>2 DEF Orders

\* A message that is no order does not touch the orders behind it, ...
LEMMA OrdersHeard ==
    ASSUME NEW s \in Seq(Messages), s # <<>>, Head(s).type \notin {"DropClient", "IncClient"}, Orders(s)
    PROVE  Orders(Tail(s))
<1>1. PICK i \in DOMAIN s : s[i].type \in {"DropClient", "IncClient"}
  BY DEF Orders
<1>2. i # 1
  BY <1>1
<1>3. i - 1 \in DOMAIN Tail(s) /\ Tail(s)[i - 1] = s[i]
  BY <1>1, <1>2
<1> QED
  BY <1>1, <1>3 DEF Orders

\* ... nor does one that is sent after them, ...
LEMMA OrdersSay ==
    ASSUME NEW link \in Links, NEW y \in Zones, NEW m \in Messages, NEW z \in Zones, Orders(link[z])
    PROVE  Orders(Say(link, y, m)[z])
<1>1. link[z] \in Seq(Messages)
  BY DEF Links
<1>2. CASE y = z
  BY <1>1, <1>2, SayTyped, OrdersSaid
<1>3. CASE y # z
  BY <1>3, SayTyped
<1> QED
  BY <1>2, <1>3

\* ... so a zone that takes such a message keeps the orders of all.
LEMMA OrdersGot ==
    ASSUME Typed, NEW y \in Zones, NEW t, ToZone(y, t), t \notin {"DropClient", "IncClient"}, Got(y)
    PROVE  OrdersKept
<1> SUFFICES ASSUME NEW z \in Zones, Orders(to_zone[z]) PROVE Orders(to_zone'[z])
  BY DEF OrdersKept
<1>1. to_zone \in Links /\ to_zone[z] \in Seq(Messages)
  BY DEF Typed, Links
<1>2. CASE y = z
  <2>1. to_zone'[z] = Tail(to_zone[z])
    BY <1>1, <1>2 DEF Got, Links
  <2> QED
    BY <1>1, <1>2, <2>1, OrdersHeard DEF ToZone
<1>3. CASE y # z
  BY <1>1, <1>3 DEF Got, Links
<1> QED
  BY <1>2, <1>3

\* A step that thins the clients keeps the doomed doomed, unless the order is carried out on
\* a client that goes already, and the one that stays is the newest.
LEMMA GhostsThin ==
    ASSUME Typed, Typed', Ghosts, Thins,
           \A n \in Alive' : Doomed(n) => Doomed(n)' \/ ((\A m \in Alive' : m <= n) /\ ~Way')
    PROVE  Ghosts'
<1>1. \A n \in Alive' : /\ n \in Alive /\ n \in Bodies /\ n \in Int /\ body'[n].zone = body[n].zone
                        /\ body[n].state = "leaving" => body'[n].state = "leaving"
  BY DEF Alive, Thins, Bodies
<1>2. Way' => Way
  BY DEF Thins
<1>3. OneStays'
  <2> SUFFICES ASSUME NEW n \in Alive', NEW k \in Alive', body'[n].zone = body'[k].zone, n # k
               PROVE  \/ body'[n].state = "leaving"
                      \/ body'[k].state = "leaving" /\ (\A m \in Alive' : m <= n) /\ ~Way'
    BY DEF OneStays, Way
  <2>1. \/ body[n].state = "leaving"
        \/ body[k].state = "leaving" /\ (\A m \in Alive : m <= n) /\ ~Way
    BY <1>1 DEF Ghosts, OneStays, Way
  <2> QED
    BY <1>1, <1>2, <2>1
<1>4. AllDoomed'
  <2> SUFFICES ASSUME Way', NEW n \in Alive' PROVE Doomed(n)'
    BY DEF AllDoomed, Way
  <2>1. Doomed(n)
    BY <1>1, <1>2 DEF Ghosts, AllDoomed, Way
  <2> QED
    BY <2>1
<1>5. GhostDoomed'
  <2> SUFFICES ASSUME NEW n \in Alive', NEW k \in Alive', n < k PROVE Doomed(n)'
    BY DEF GhostDoomed
  <2>1. Doomed(n)
    BY <1>1 DEF Ghosts, GhostDoomed
  <2>2. ~(k <= n)
    BY <1>1
  <2> QED
    BY <2>1, <2>2
<1> QED
  BY <1>3, <1>4, <1>5 DEF Ghosts

\* When no order is carried out.
LEMMA GhostsKept == ASSUME Typed, Typed', Ghosts, Thins, OrdersKept PROVE Ghosts'
<1> SUFFICES ASSUME NEW n \in Alive', Doomed(n) PROVE Doomed(n)'
  BY GhostsThin
<1>1. /\ n \in Bodies /\ body'[n].zone = body[n].zone
      /\ body[n].state = "leaving" => body'[n].state = "leaving"
      /\ body[n].zone \in Zones
  <2>1. n \in Bodies /\ body'[n].zone # NoZone
    BY DEF Alive
  <2>2. body[n].zone \in Zones \cup {NoZone}
    BY <2>1 DEF Typed, BodiesOK, Objects
  <2> QED
    BY <2>1, <2>2 DEF Thins
<1>2. CASE body[n].state = "leaving"
  BY <1>1, <1>2 DEF Doomed
<1>3. CASE Orders(to_zone[body[n].zone])
  <2>1. Orders(to_zone'[body[n].zone])
    BY <1>1, <1>3 DEF OrdersKept
  <2>2. Orders(to_zone'[body'[n].zone])
    BY <1>1, <2>1
  <2> QED
    BY <2>2 DEF Doomed, Orders
<1> QED
  BY <1>2, <1>3 DEF Doomed

\* The only client on prompt links has the newest data, and they are what is stored.
LEMMA AloneThin ==
    ASSUME Typed, Typed', Alone, Thins
    PROVE  Alone' /\ (prompt => db'.data >= db.data)
<1>1. /\ db.data \in Nat /\ db'.data \in Nat /\ clock \in Int /\ clock' \in Int
      /\ \A n \in Bodies : body[n].data \in Nat /\ body'[n].data \in Nat
  BY IdsFinite DEF Typed, Rows, BoundsOK, BodiesOK, Objects
<1>2. \A n \in Alive' : n \in Alive /\ n \in Bodies /\ body'[n].data \in {body[n].data, clock'}
  BY DEF Alive, Thins
<1>3. clock' >= clock /\ prompt' = prompt
  BY DEF Thins
<1>4. PICK w \in Nat : db'.data = w /\ (w = db.data \/ \E n \in Alive : w = body[n].data)
  BY <1>1 DEF Thins
<1> SUFFICES ASSUME prompt, prompt' PROVE Alone' /\ db'.data >= db.data
  BY <1>3 DEF Alone
<1>5. /\ \A n, k \in Alive : n = k
      /\ clock >= db.data /\ \A n \in Alive : body[n].data >= db.data /\ clock >= body[n].data
  BY DEF Alone
<1>6. \A n \in Alive : n \in Bodies
  BY DEF Alive
<1>7. w >= db.data /\ clock' >= w
  BY <1>1, <1>3, <1>4, <1>5, <1>6
<1>8. \A n \in Alive' : body'[n].data >= w /\ clock' >= body'[n].data
  <2> SUFFICES ASSUME NEW n \in Alive' PROVE body'[n].data >= w /\ clock' >= body'[n].data
    OBVIOUS
  <2>1. n \in Alive /\ n \in Bodies
    BY <1>2
  <2>2. body[n].data >= w
    BY <1>1, <1>4, <1>5, <2>1
  <2>3. clock >= body[n].data
    BY <1>5, <2>1
  <2>4. CASE body'[n].data = body[n].data
    BY <1>1, <1>3, <2>1, <2>2, <2>3, <2>4
  <2>5. CASE body'[n].data = clock'
    BY <1>1, <1>3, <1>7, <2>5
  <2> QED
    BY <1>2, <2>4, <2>5
<1> QED
  BY <1>2, <1>4, <1>5, <1>7, <1>8 DEF Alone

\* A step that leaves the clients and what is stored alone.
LEMMA CalmThins ==
    ASSUME Typed, body' = body, db' = db, UNCHANGED bounds, Way' => Way
    PROVE  Thins
<1>1. clock \in Int /\ clock' = clock /\ prompt' = prompt
  BY IdsFinite DEF Typed, BoundsOK, bounds
<1> QED
  BY <1>1 DEF Thins

\* The world's handlers that send no order, and the zones' that answer, make clients and orders no more.
LEMMA WorldThins ==
    ASSUME Typed, \/ CLEAdd \/ HandleSendLoginInfoPacket \/ Quit
                  \/ \E i \in Ids : CheckStale(i)
                  \/ \E z \in Zones : Clearance(z)
    PROVE  Thins /\ OrdersKept
<1>1. player \in Players
  BY DEF Typed, PlayerOK
<1>2. body' = body /\ db' = db /\ UNCHANGED bounds /\ to_zone' = to_zone
  BY DEF CLEAdd, HandleSendLoginInfoPacket, Quit, CheckStale, Clearance
<1>3. Way' => Way
  <2>1. CASE CLEAdd
    BY <2>1 DEF CLEAdd, Way, Out
  <2>2. CASE HandleSendLoginInfoPacket
    <3>1. player' = Out \/ \E a \in {"passing", "select"} : player' = [player EXCEPT !.at = a]
      BY <2>2 DEF HandleSendLoginInfoPacket
    <3> QED
      BY <1>1, <3>1 DEF Way, Out, Players
  <2>3. CASE Quit
    BY <2>3 DEF Quit, Way, Out
  <2>4. CASE \E i \in Ids : CheckStale(i)
    BY <2>4 DEF CheckStale, Way
  <2>5. CASE \E z \in Zones : Clearance(z)
    BY <2>5 DEF Clearance, Way
  <2> QED
    BY <2>1, <2>2, <2>3, <2>4, <2>5
<1>4. OrdersKept
  BY <1>2 DEF OrdersKept
<1> QED
  BY <1>2, <1>3, <1>4, CalmThins

LEMMA ClientUpdateThins ==
    ASSUME Typed, NEW z \in Zones, ClientUpdate(z)
    PROVE  Thins /\ OrdersKept
<1>1. Thins
  BY CalmThins DEF ClientUpdate, Way
<1>2. OrdersKept
  <2>1. CASE to_zone' = to_zone
    BY <2>1 DEF OrdersKept
  <2>2. CASE to_zone' # to_zone
    <3> DEFINE m == [type |-> "ChangeWID", id |-> list.next]
    <3>1. to_zone' = [y \in Zones |-> Append(to_zone[y], m)] /\ list.next <= MaxLogins
      BY <2>2 DEF ClientUpdate
    <3>2. m \in Messages
      <4>1. list.next \in Ids
        BY <3>1, IdsFinite DEF Typed, Sound, Lists, Ids
      <4> QED
        BY <4>1, SaidTyped
    <3> HIDE DEF m
    <3>3. \A y \in Zones : to_zone[y] \in Seq(Messages) /\ to_zone'[y] = Append(to_zone[y], m)
      BY <3>1 DEF Typed, Links
    <3> QED
      BY <3>2, <3>3, OrdersSaid DEF OrdersKept
  <2> QED
    BY <2>1, <2>2
<1> QED
  BY <1>1, <1>2

LEMMA RouteThins ==
    ASSUME Typed, NEW z \in Zones, RouteZoneToZone(z)
    PROVE  Thins /\ OrdersKept
<1>1. Thins
  BY CalmThins DEF RouteZoneToZone, Way
<1> DEFINE m == Head(to_world[z])
           yes == ZoneToZone(z, m.to, 1)
           no == ZoneToZone(z, m.to, 0)
<1>2. m \in Messages /\ m.from \in Zones /\ m.to \in Zones
  BY TookTyped, MessageTyped DEF RouteZoneToZone, FromZone
<1>3. yes \in Messages /\ no \in Messages
  BY <1>2, SaidTyped
<1>4. \/ to_zone' = Say(to_zone, m.from, m)
      \/ to_zone' = Say(Say(to_zone, z, yes), m.to, yes)
      \/ to_zone' = Say(to_zone, z, no)
  BY DEF RouteZoneToZone
<1> HIDE DEF yes, no, m
<1>5. to_zone \in Links /\ Say(to_zone, z, yes) \in Links
  BY <1>3, SayTyped DEF Typed
<1>6. \A y \in Zones : Orders(to_zone[y]) => Orders(to_zone'[y])
  BY <1>2, <1>3, <1>4, <1>5, OrdersSay
<1> QED
  BY <1>1, <1>6 DEF OrdersKept

LEMMA AnswerThins ==
    ASSUME Typed, NEW z \in Zones, AcceptWorldEntrance(z) \/ ZoneChangeRequest(z)
    PROVE  Thins /\ OrdersKept
<1>1. body' = body /\ db' = db /\ UNCHANGED bounds /\ player' = player
  BY DEF AcceptWorldEntrance, ZoneChangeRequest, world
<1>2. Thins
  BY <1>1, CalmThins DEF Way
<1>3. Got(z) /\ \E t \in {"AcceptWorldEntrance", "ZoneToZoneRequest"} : ToZone(z, t)
  BY DEF AcceptWorldEntrance, ZoneChangeRequest
<1>4. OrdersKept
  BY <1>3, OrdersGot
<1> QED
  BY <1>2, <1>4

\* A step that changes one client, which does not come back.
LEMMA OneThins ==
    ASSUME Typed, NEW n \in Bodies, NEW r, body' = [body EXCEPT ![n] = r],
           r.zone # NoZone => /\ r.zone = body[n].zone
                              /\ body[n].state = "leaving" => r.state = "leaving"
                              /\ r.data = body[n].data \/ r.data = clock',
           Way' => Way, body[n].zone # NoZone,
           db' = db \/ db'.data = body[n].data, clock' >= clock, prompt' = prompt
    PROVE  Thins
<1>1. body'[n] = r /\ \A k \in Bodies \ {n} : body'[k] = body[k]
  BY DEF Typed, BodiesOK
<1>2. n \in Alive
  BY DEF Alive
<1> QED
  BY <1>1, <1>2 DEF Thins

LEMMA ChangeWIDThins ==
    ASSUME Typed, NEW z \in Zones, ChangeWID(z)
    PROVE  Thins /\ OrdersKept
<1>1. OrdersKept
  BY OrdersGot DEF ChangeWID
<1>2. PICK n \in Found(z) : body' = IF n = 0 THEN body ELSE [body EXCEPT ![n].id = Head(to_zone[z]).id]
  BY DEF ChangeWID
<1>3. db' = db /\ UNCHANGED bounds /\ player' = player
  BY DEF ChangeWID, world
<1>4. CASE n = 0
  BY <1>1, <1>2, <1>3, <1>4, CalmThins DEF Way
<1>5. CASE n # 0
  <2> DEFINE b == body[n]
             r == [b EXCEPT !.id = Head(to_zone[z]).id]
  <2>1. n \in Bodies /\ b.zone # NoZone /\ Good(b)
    BY <1>5, FoundHere
  <2>2. body' = [body EXCEPT ![n] = r]
    BY <1>2, <1>5
  <2>3. r.zone = b.zone /\ r.state = b.state /\ r.data = b.data
    <3> HIDE DEF b
    <3> QED
      BY <2>1 DEF Good, Objects
  <2> HIDE DEF r
  <2>4. clock' >= clock /\ prompt' = prompt
    BY <1>3, IdsFinite DEF Typed, BoundsOK, bounds
  <2> QED
    BY <1>1, <1>3, <2>1, <2>2, <2>3, <2>4, OneThins DEF Way
<1> QED
  BY <1>4, <1>5

LEMMA ReplyThins ==
    ASSUME Typed, NEW z \in Zones, ZoneChangeReply(z)
    PROVE  Thins /\ OrdersKept
<1>1. OrdersKept
  BY OrdersGot DEF ZoneChangeReply
<1> DEFINE m == Head(to_zone[z])
           d == IF m.response > 0 THEN m.to ELSE z
<1>2. PICK n \in Found(z) :
          IF n = 0 THEN UNCHANGED <<body, db, to_world, player>>
          ELSE /\ \E s \in {"told", body[n].state} :
                     /\ body' = [body EXCEPT ![n].dest = d, ![n].state = s]
                     /\ body[n].state = "leaving" => s = "leaving"
               /\ db'.data = body[n].data
               /\ player' = player \/ player' = [player EXCEPT !.at = "told", !.body = 0, !.zone = NoZone]
  BY DEF ZoneChangeReply
<1>3. UNCHANGED bounds /\ clock' >= clock /\ prompt' = prompt
  BY IdsFinite DEF ZoneChangeReply, Typed, BoundsOK, bounds
<1>4. CASE n = 0
  BY <1>1, <1>2, <1>3, <1>4, CalmThins DEF Way
<1>5. CASE n # 0
  <2> DEFINE b == body[n]
  <2>1. PICK s : /\ body' = [body EXCEPT ![n].dest = d, ![n].state = s]
                 /\ body[n].state = "leaving" => s = "leaving"
    BY <1>2, <1>5
  <2> HIDE DEF d, m
  <2> DEFINE r == [b EXCEPT !.dest = d, !.state = s]
  <2>2. n \in Bodies /\ b.zone # NoZone /\ Good(b)
    BY <1>5, FoundHere
  <2>3. body' = [body EXCEPT ![n] = r]
    BY <2>1
  <2>4. r.zone = b.zone /\ r.state = s /\ r.data = b.data
    <3> HIDE DEF b
    <3> QED
      BY <2>2 DEF Good, Objects
  <2> HIDE DEF r
  <2>5. Way' => Way
    BY <1>2, <1>5 DEF Way, Typed, PlayerOK, Players
  <2>6. /\ body[n].state = "leaving" => r.state = "leaving"
        /\ db'.data = body[n].data /\ r.zone = body[n].zone /\ r.data = body[n].data
    BY <1>2, <1>5, <2>1, <2>4
  <2> HIDE DEF b
  <2>7. body[n].zone # NoZone
    BY <2>2 DEF b
  <2>8. Thins
    BY <1>3, <2>2, <2>3, <2>5, <2>6, <2>7, OneThins
  <2> QED
    BY <1>1, <2>8
<1> QED
  BY <1>4, <1>5

LEMMA CrashThins ==
    ASSUME Typed, NEW z \in Zones, Crash(z)
    PROVE  Thins /\ OrdersKept
<1> USE DEF Crash
<1>1. \A k \in Bodies : body'[k].zone # NoZone => body'[k] = body[k] /\ body[k].zone # z
  BY DEF NoBody, In
<1>2. Way' => Way
  BY DEF Way, Out
<1>3. clock' >= clock /\ prompt' = prompt /\ db' = db
  BY IdsFinite DEF Typed, BoundsOK
<1>4. OrdersKept
  <2> SUFFICES ASSUME NEW y \in Zones, Orders(to_zone[y]), NEW n \in Alive', body'[n].zone = y
               PROVE  Orders(to_zone'[y])
    BY DEF OrdersKept
  <2>1. y # z
    BY <1>1 DEF Alive
  <2> QED
    BY <2>1 DEF Typed, Links
<1> QED
  BY <1>1, <1>2, <1>3, <1>4 DEF Thins

\* What a client does for itself.
LEMMA ClientThins ==
    ASSUME Typed, NEW n \in Bodies,
           \/ CompleteConnect(n) \/ Play(n) \/ Save(n) \/ UpdateWho(n)
           \/ \E to \in Zones : DoZoneSuccess(n, to)
           \/ Leave(n) \/ LinkDead(n) \/ Destroy(n)
    PROVE  Thins /\ OrdersKept
<1> DEFINE b == body[n]
<1>1. to_zone' = to_zone /\ prompt' = prompt /\ clock' >= clock
  <2>1. to_zone' = to_zone /\ prompt' = prompt /\ clock' \in {clock, clock + 1}
    BY DEF CompleteConnect, Play, Save, UpdateWho, DoZoneSuccess, Leave, LinkDead, Destroy, bounds
  <2> QED
    BY <2>1, IdsFinite DEF Typed, BoundsOK
<1>2. OrdersKept
  BY <1>1 DEF OrdersKept
<1>3. Way' => Way
  <2>1. player' = player \/ player' = [player EXCEPT !.at = "camped", !.zone = NoZone, !.body = 0]
    BY DEF CompleteConnect, Play, Save, UpdateWho, DoZoneSuccess, Leave, LinkDead, Destroy, world
  <2>2. player \in Players
    BY DEF Typed, PlayerOK
  <2> QED
    BY <2>1, <2>2 DEF Way, Players
<1>4. Good(b) /\ b.zone \in Zones /\ b.zone # NoZone /\ b.data \in Nat
  <2>1. body[n].state # "none"
    BY DEF CompleteConnect, Play, Save, UpdateWho, DoZoneSuccess, Leave, LinkDead, Destroy, Plays
  <2> QED
    BY <2>1, Present, HandoffAssumption
<1>5. CASE CompleteConnect(n)
  <2> DEFINE r == [b EXCEPT !.state = "playing", !.loaded = TRUE]
  <2>1. body' = [body EXCEPT ![n] = r] /\ db' = db /\ b.state = "connecting"
    BY <1>5 DEF CompleteConnect
  <2> HIDE DEF b
  <2>2. r.zone = b.zone /\ r.data = b.data
    BY <1>4 DEF Good, Objects
  <2> HIDE DEF r
  <2> QED
    BY <1>1, <1>2, <1>3, <1>4, <2>1, <2>2, OneThins DEF b
<1>6. CASE Play(n)
  <2> DEFINE r == [b EXCEPT !.data = clock + 1]
  <2>1. body' = [body EXCEPT ![n] = r] /\ db' = db /\ b.state = "playing" /\ clock' = clock + 1
    BY <1>6 DEF Play, Plays
  <2> HIDE DEF b
  <2>2. r.zone = b.zone /\ r.data = clock' /\ r.state = b.state
    BY <1>4, <2>1 DEF Good, Objects
  <2> HIDE DEF r
  <2> QED
    BY <1>1, <1>2, <1>3, <1>4, <2>1, <2>2, OneThins DEF b
<1>7. CASE Save(n)
  <2>1. body' = body /\ db' = Saved(b) /\ UNCHANGED bounds
    BY <1>7 DEF Save
  <2>2. db' = db \/ db'.data = b.data
    BY <1>4, <2>1, SavedRow
  <2>3. n \in Alive
    BY <1>4 DEF Alive
  <2> QED
    BY <1>1, <1>2, <1>3, <2>1, <2>2, <2>3 DEF Thins
<1>8. CASE UpdateWho(n)
  BY <1>2, <1>3, <1>8, CalmThins DEF UpdateWho
<1>9. CASE \E to \in Zones : DoZoneSuccess(n, to)
  <2>1. PICK to \in Zones : DoZoneSuccess(n, to)
    BY <1>9
  <2> DEFINE r == [b EXCEPT !.dest = to]
  <2>2. body' = [body EXCEPT ![n] = r] /\ db'.data = b.data
    BY <2>1 DEF DoZoneSuccess
  <2> HIDE DEF b
  <2>3. r.zone = b.zone /\ r.data = b.data /\ r.state = b.state
    BY <1>4 DEF Good, Objects
  <2> HIDE DEF r
  <2> QED
    BY <1>1, <1>2, <1>3, <1>4, <2>2, <2>3, OneThins DEF b
<1>10. CASE Leave(n) \/ LinkDead(n)
  <2>1. PICK s \in {"leaving", "linkdead"} :
           /\ body' = [body EXCEPT ![n].state = s] /\ (s = "leaving" \/ b.state # "leaving")
           /\ db' = db
    BY <1>10 DEF Leave, LinkDead
  <2> DEFINE r == [b EXCEPT !.state = s]
  <2>2. body' = [body EXCEPT ![n] = r]
    BY <2>1
  <2> HIDE DEF b
  <2>3. r.zone = b.zone /\ r.data = b.data /\ r.state = s
    BY <1>4 DEF Good, Objects
  <2> HIDE DEF r
  <2> QED
    BY <1>1, <1>2, <1>3, <1>4, <2>1, <2>2, <2>3, OneThins DEF b
<1>11. CASE Destroy(n)
  <2>1. body' = [body EXCEPT ![n] = NoBody] /\ db' = Saved(b) /\ NoBody.zone = NoZone
    BY <1>11 DEF Destroy, NoBody
  <2>2. db' = db \/ db'.data = b.data
    BY <1>4, <2>1, SavedRow
  <2> HIDE DEF b
  <2> QED
    BY <1>1, <1>2, <1>3, <1>4, <2>1, <2>2, OneThins DEF b
<1> QED
  BY <1>5, <1>6, <1>7, <1>8, <1>9, <1>10, <1>11

\* The orders: what is found is kicked.
LEMMA OrderThins ==
    ASSUME Typed, NEW z \in Zones, IncClient(z) \/ DropClient(z)
    PROVE  /\ Thins
           /\ \E n \in Found(z) : n # 0 => body'[n].state = "leaving"
           /\ \A y \in Zones \ {z} : to_zone'[y] = to_zone[y]
<1>1. PICK n \in Found(z) : Kick(n)
  BY DEF IncClient, DropClient
<1>2. UNCHANGED bounds /\ made' = made /\ Got(z) /\ clock' >= clock /\ prompt' = prompt
  BY IdsFinite DEF IncClient, DropClient, bounds, Typed, BoundsOK
<1>3. /\ player' \in {player, Out}
      /\ \A k \in Bodies \ {n} : body'[k] = body[k]
      /\ n # 0 => /\ body'[n].zone = body[n].zone /\ body'[n].state = "leaving"
                  /\ body'[n].data = body[n].data
                  /\ db' = db \/ db'.data = body[n].data
      /\ n = 0 => UNCHANGED <<body, db, player>>
  BY <1>1, <1>2, Kicked
<1>4. Way' => Way
  BY <1>3 DEF Way, Out
<1>5. \A y \in Zones \ {z} : to_zone'[y] = to_zone[y]
  BY <1>2 DEF Got, Typed, Links
<1>6. CASE n = 0
  BY <1>2, <1>3, <1>4, <1>5, <1>6, CalmThins
<1>7. CASE n # 0
  <2>1. n \in Alive
    BY <1>7, FoundHere DEF Alive
  <2>2. Thins
    BY <1>2, <1>3, <1>4, <1>7, <2>1 DEF Thins
  <2> QED
    BY <1>3, <1>5, <1>7, <2>2
<1> QED
  BY <1>6, <1>7

\* A client that stays in the zone where another one is kicked is the newest: the one that
\* was kicked was on its way out already.
LEMMA OrderGhosts ==
    ASSUME Typed, Typed', Ghosts, NEW z \in Zones, IncClient(z) \/ DropClient(z)
    PROVE  Ghosts'
<1>1. Thins /\ \A y \in Zones \ {z} : to_zone'[y] = to_zone[y]
  BY OrderThins
<1>2. PICK g \in Found(z) : g # 0 => body'[g].state = "leaving"
  BY OrderThins
<1> SUFFICES ASSUME NEW n \in Alive', Doomed(n)
             PROVE  Doomed(n)' \/ ((\A m \in Alive' : m <= n) /\ ~Way')
  BY <1>1, GhostsThin
<1>3. /\ n \in Bodies /\ body'[n].zone = body[n].zone /\ body[n].zone # NoZone /\ n \in Alive
      /\ body[n].state = "leaving" => body'[n].state = "leaving"
      /\ body[n].zone \in Zones
  <2>1. n \in Bodies /\ body'[n].zone # NoZone
    BY DEF Alive
  <2>2. body[n].zone \in Zones \cup {NoZone}
    BY <2>1 DEF Typed, BodiesOK, Objects
  <2> QED
    BY <1>1, <2>1, <2>2 DEF Thins, Alive
<1>4. CASE body[n].state = "leaving"
  BY <1>3, <1>4 DEF Doomed
<1>5. CASE body[n].state # "leaving" /\ body[n].zone # z
  <2>1. Orders(to_zone[body[n].zone])
    BY <1>5 DEF Doomed
  <2>2. to_zone'[body'[n].zone] = to_zone[body[n].zone]
    BY <1>1, <1>3, <1>5
  <2> QED
    BY <2>1, <2>2 DEF Doomed, Orders
<1>6. CASE body[n].state # "leaving" /\ body[n].zone = z
  <2>1. g # 0 /\ g \in Bodies /\ body[g].zone = z /\ g \in Alive
    <3>1. In(z) # {}
      BY <1>3, <1>6 DEF In
    <3> QED
      BY <3>1, FoundHere DEF Alive
  <2>2. CASE g = n
    BY <1>2, <2>1, <2>2 DEF Doomed
  <2>3. CASE g # n
    <3>1. (\A m \in Alive : m <= n) /\ ~Way
      BY <1>3, <1>6, <2>1, <2>3 DEF Ghosts, OneStays, Way
    <3>2. \A m \in Alive' : m \in Alive
      BY <1>1 DEF Thins, Alive
    <3> QED
      BY <1>1, <3>1, <3>2 DEF Thins
  <2> QED
    BY <2>2, <2>3
<1> QED
  BY <1>4, <1>5, <1>6

\* EnterWorld sends every zone an order.
LEMMA EnterWorldGhosts ==
    ASSUME Typed, Typed', Ghosts, EnterWorld
    PROVE  Ghosts'
<1> USE DEF EnterWorld
<1>1. body' = body
  OBVIOUS
<1>2. \A z \in Zones : Orders(to_zone'[z])
  <2> DEFINE c == [type |-> "IncClient", id |-> player.id]
             a == AcceptEntrance(0)
  <2>1. PICK ask \in BOOLEAN :
          to_zone' = [z \in Zones |-> IF z # db.zone THEN Append(to_zone[z], Drop)
                                      ELSE to_zone[z] \o <<c>> \o (IF ask THEN <<a>> ELSE <<>>)]
    OBVIOUS
  <2>2. Drop.type = "DropClient" /\ c.type = "IncClient"
    BY DEF Drop
  <2> HIDE DEF c, a
  <2> SUFFICES ASSUME NEW z \in Zones PROVE Orders(to_zone'[z])
    OBVIOUS
  <2>3. to_zone[z] \in Seq(Messages)
    BY DEF Typed, Links
  <2> DEFINE s == to_zone[z]
             i == Len(s) + 1
  <2>4. i \in Nat /\ s \in Seq(Messages)
    BY <2>3
  <2>5. CASE z # db.zone
    <3>1. to_zone'[z] = Append(s, Drop)
      BY <2>1, <2>5
    <3> HIDE DEF s
    <3>2. i \in DOMAIN Append(s, Drop) /\ Append(s, Drop)[i] = Drop
      BY <2>4
    <3> QED
      BY <2>2, <3>1, <3>2 DEF Orders
  <2>6. CASE z = db.zone
    <3> DEFINE rest == IF ask THEN <<a>> ELSE <<>>
    <3>1. to_zone'[z] = s \o <<c>> \o rest
      BY <2>1, <2>6
    <3> HIDE DEF s
    <3>2. i \in DOMAIN (s \o <<c>> \o rest) /\ (s \o <<c>> \o rest)[i] = c
      <4>1. CASE ask
        BY <2>4, <4>1
      <4>2. CASE ~ask
        BY <2>4, <4>2
      <4> QED
        BY <4>1, <4>2
    <3> QED
      BY <2>2, <3>1, <3>2 DEF Orders
  <2> QED
    BY <2>5, <2>6
<1>3. \A n \in Alive' : Doomed(n)'
  <2> SUFFICES ASSUME NEW n \in Alive' PROVE Orders(to_zone'[body'[n].zone])
    BY DEF Doomed
  <2>1. body'[n].zone \in Zones
    BY DEF Alive, Typed, BodiesOK, Objects
  <2> QED
    BY <1>2, <2>1
<1>4. OneStays'
  <2> SUFFICES ASSUME NEW n \in Alive', NEW k \in Alive', body'[n].zone = body'[k].zone, n # k
               PROVE  body'[n].state = "leaving"
    BY DEF OneStays
  <2>1. n \in Alive /\ k \in Alive /\ n \in Bodies /\ k \in Bodies /\ body[n].zone = body[k].zone
    BY <1>1 DEF Alive
  <2>2. body[n].state = "leaving" \/ body[k].state = "leaving"
    BY <2>1 DEF Ghosts, OneStays
  <2>3. body[k].state = "leaving" => body[n].state = "leaving"
    BY <2>1 DEF Rested
  <2> QED
    BY <1>1, <2>2, <2>3
<1> QED
  BY <1>3, <1>4 DEF Ghosts, AllDoomed, GhostDoomed

\* Whoever arrives in a zone finds its clients on their way out, or the one that stays: the
\* orders to drop all of them are ahead.
LEMMA ArrivalGhosts ==
    ASSUME Typed, Typed', Ghosts, NEW z \in Zones, ZoneEntry(z)
    PROVE  Ghosts'
<1>1. PICK g \in Found(z) : Comes(z, g)
  BY ZoneEntryTyped
<1>2. Way /\ ~Way'
  <2>1. Way
    BY DEF ZoneEntry, Way
  <2>2. player' = Out \/ player'.at = "inzone"
    BY <1>1 DEF Comes
  <2> QED
    BY <2>1, <2>2 DEF Way, Out
<1>3. to_zone' = to_zone /\ made \in Nat
  BY IdsFinite DEF ZoneEntry, Typed, BoundsOK
<1>4. \A n \in Alive : Doomed(n) /\ n \in Bodies /\ n \in Nat /\ n <= made
  BY <1>2 DEF Ghosts, AllDoomed, Way, Alive, Typed, BodiesOK, Bodies
<1> DEFINE new == made + 1
           Old(n) == n \in Alive /\ body'[n].zone = body[n].zone /\ n < new
                     /\ (body[n].state = "leaving" => body'[n].state = "leaving")
<1>5. g # 0 => g \in Bodies /\ g \in Alive /\ body[g].zone = z
  BY <1>1, FoundHere DEF Alive
<1>6. \A n \in Alive' : Old(n) \/ (n = new /\ made' # made /\ body'[n].zone = z)
  <2> SUFFICES ASSUME NEW n \in Alive', ~(n = new /\ made' # made /\ body'[n].zone = z) PROVE Old(n)
    OBVIOUS
  <2>1. n # new \/ made' = made
    BY <1>1 DEF Alive, Comes
  <2>2. n \in Bodies /\ body'[n].zone # NoZone
    BY DEF Alive
  <2>3. CASE n = g
    <3>1. n \in Alive /\ body'[n].zone = body[n].zone /\ body'[n].state = "leaving"
      BY <1>1, <1>5, <2>2, <2>3 DEF Comes, Bodies
    <3> QED
      BY <1>3, <1>4, <3>1
  <2>4. CASE n # g
    <3>1. body'[n] = body[n]
      BY <1>1, <2>1, <2>2, <2>4 DEF Comes
    <3>2. n \in Alive
      BY <2>2, <3>1 DEF Alive
    <3> QED
      BY <1>3, <1>4, <3>1, <3>2
  <2> QED
    BY <2>3, <2>4
<1>7. \A n \in Alive' : Old(n) /\ body'[n].zone = z => body'[n].state = "leaving"
  <2> SUFFICES ASSUME NEW n \in Alive', Old(n), body'[n].zone = z PROVE body'[n].state = "leaving"
    OBVIOUS
  <2>1. n \in Alive /\ n \in Bodies /\ body[n].zone = z
    BY <1>4
  <2>2. g # 0
    <3>1. In(z) # {}
      BY <2>1 DEF In
    <3> QED
      BY <3>1, FoundHere
  <2>3. CASE n = g
    BY <1>1, <2>2, <2>3 DEF Comes
  <2>4. CASE n # g
    <3>1. body[n].state = "leaving"
      BY <1>2, <1>5, <2>1, <2>2, <2>4 DEF Ghosts, OneStays, Way
    <3> QED
      BY <3>1
  <2> QED
    BY <2>3, <2>4
<1>8. OneStays'
  <2> SUFFICES ASSUME NEW n \in Alive', NEW k \in Alive', body'[n].zone = body'[k].zone, n # k
               PROVE  \/ body'[n].state = "leaving"
                      \/ body'[k].state = "leaving" /\ (\A m \in Alive' : m <= n) /\ ~Way'
    BY DEF OneStays, Way
  <2>1. CASE Old(n) /\ Old(k)
    <3>1. body[n].state = "leaving"
      BY <1>2, <2>1 DEF Ghosts, OneStays, Way
    <3> QED
      BY <2>1, <3>1
  <2>2. CASE Old(n) /\ ~Old(k)
    BY <1>6, <1>7, <2>2
  <2>3. CASE ~Old(n)
    <3>1. n = new /\ body'[n].zone = z /\ Old(k)
      BY <1>6, <2>3
    <3>2. body'[k].state = "leaving"
      BY <1>7, <3>1
    <3>3. \A m \in Alive' : m <= n
      BY <1>3, <1>4, <1>6, <3>1
    <3> QED
      BY <1>2, <3>2, <3>3
  <2> QED
    BY <2>1, <2>2, <2>3
<1>9. GhostDoomed'
  <2> SUFFICES ASSUME NEW n \in Alive', NEW k \in Alive', n < k PROVE Doomed(n)'
    BY DEF GhostDoomed
  <2>1. k <= new /\ n # new
    BY <1>3, <1>4, <1>6
  <2>2. Old(n) /\ Doomed(n)
    BY <1>4, <1>6, <2>1
  <2>3. CASE body[n].state = "leaving"
    BY <2>2, <2>3 DEF Doomed
  <2>4. CASE Orders(to_zone[body[n].zone])
    <3>1. to_zone'[body'[n].zone] = to_zone[body[n].zone]
      BY <1>3, <2>2
    <3> QED
      BY <2>4, <3>1 DEF Doomed, Orders
  <2> QED
    BY <2>2, <2>3, <2>4 DEF Doomed
<1>10. AllDoomed'
  BY <1>2 DEF AllDoomed, Way
<1> QED
  BY <1>8, <1>9, <1>10 DEF Ghosts

\* On prompt links nobody is left when the player arrives.
LEMMA ArrivalAlone ==
    ASSUME Typed, Typed', Ghosts, Alone, NEW z \in Zones, ZoneEntry(z)
    PROVE  Alone' /\ (prompt => db'.data >= db.data)
<1>1. PICK g \in Found(z) : Comes(z, g)
  BY ZoneEntryTyped
<1>2. prompt' = prompt /\ clock' = clock /\ clock \in Int /\ db.data \in Nat
  BY IdsFinite DEF ZoneEntry, Typed, BoundsOK, Rows
<1> SUFFICES ASSUME prompt PROVE Alone' /\ db'.data >= db.data
  BY <1>2 DEF Alone
<1>3. Alive = {}
  <2> SUFFICES ASSUME NEW n \in Alive PROVE FALSE
    OBVIOUS
  <2>1. Doomed(n)
    BY DEF ZoneEntry, Ghosts, AllDoomed
  <2>2. Settled
    BY DEF ZoneEntry
  <2>3. n \in Bodies /\ body[n].zone \in Zones
    BY DEF Alive, Typed, BodiesOK, Objects
  <2>4. to_zone[body[n].zone] = <<>> /\ body[n].state # "leaving"
    BY <2>2, <2>3 DEF Settled, Quiet
  <2>5. ~Orders(<<>>)
    BY DEF Orders
  <2> QED
    BY <2>1, <2>4, <2>5 DEF Doomed
<1>4. g = 0
  BY <1>1, <1>3, FoundHere DEF Alive
<1>5. db' = db
  BY <1>1, <1>4 DEF Comes
<1>6. \A n \in Alive' : n = made + 1 /\ body'[n].data = db'.data
  <2> SUFFICES ASSUME NEW n \in Alive' PROVE n = made + 1 /\ body'[n].data = db'.data
    OBVIOUS
  <2>1. n \in Bodies /\ body'[n].zone # NoZone /\ n # 0
    BY DEF Alive, Bodies
  <2>2. body'[n] # body[n]
    BY <1>3, <2>1 DEF Alive
  <2> QED
    BY <1>1, <1>4, <2>1, <2>2 DEF Comes
<1>7. clock >= db.data
  BY DEF Alone
<1> QED
  BY <1>2, <1>5, <1>6, <1>7 DEF Alone

-------------------------------------------------------------------------------
(* The ids in use. *)

\* An id in a message was given out by the list l.
Given(l, m) == m.type \in {"IncClient", "ChangeWID"} => m.id < l.next
AllGiven(l, s) == \A i \in DOMAIN s : Given(l, s[i])

\* A message more, a message less, a newer list.
LEMMA GivenSaid ==
    ASSUME NEW s \in Seq(Messages), NEW m \in Messages, NEW l, AllGiven(l, s), Given(l, m)
    PROVE  AllGiven(l, Append(s, m))
<1> SUFFICES ASSUME NEW i \in DOMAIN Append(s, m) PROVE Given(l, Append(s, m)[i])
  BY DEF AllGiven
<1>1. CASE i \in DOMAIN s
  <2>1. Append(s, m)[i] = s[i]
    BY <1>1
  <2> QED
    BY <1>1, <2>1 DEF AllGiven
<1>2. CASE i \notin DOMAIN s
  <2>1. Append(s, m)[i] = m
    BY <1>2
  <2> QED
    BY <2>1
<1> QED
  BY <1>1, <1>2

\* Ids of messages have been given out, whichever message is taken, ...
LEMMA GivenHeard ==
    ASSUME NEW s \in Seq(Messages), s # <<>>, NEW l, AllGiven(l, s)
    PROVE  AllGiven(l, Tail(s)) /\ Given(l, Head(s))
<1>1. \A i \in DOMAIN Tail(s) : Tail(s)[i] = s[i + 1] /\ i + 1 \in DOMAIN s
  OBVIOUS
<1>2. Head(s) = s[1] /\ 1 \in DOMAIN s
  OBVIOUS
<1> QED
  BY <1>1, <1>2 DEF AllGiven

\* ... and whatever the list adds.
LEMMA GivenGrows ==
    ASSUME NEW s \in Seq(Messages), NEW l, NEW r, l.next \in Int, r.next \in Int, r.next >= l.next,
           AllGiven(l, s)
    PROVE  AllGiven(r, s)
<1> SUFFICES ASSUME NEW i \in DOMAIN s, s[i].type \in {"IncClient", "ChangeWID"} PROVE s[i].id < r.next
  BY DEF AllGiven, Given
<1>1. s[i].id < l.next
  BY DEF AllGiven, Given
<1>2. s[i] \in Messages
  OBVIOUS
<1>3. s[i].id \in Ids
  BY <1>2, MessageTyped
<1> QED
  BY <1>1, <1>3, IdsFinite DEF Ids

\* What is said, with ids that were given out.
LEMMA GivenSay ==
    ASSUME NEW link \in Links, NEW y \in Zones, NEW m \in Messages, NEW l, Given(l, m),
           \A z \in Zones : AllGiven(l, link[z])
    PROVE  \A z \in Zones : AllGiven(l, Say(link, y, m)[z])
<1> SUFFICES ASSUME NEW z \in Zones PROVE AllGiven(l, Say(link, y, m)[z])
  OBVIOUS
<1>1. link[z] \in Seq(Messages)
  BY DEF Links
<1>2. CASE y = z
  BY <1>1, <1>2, SayTyped, GivenSaid
<1>3. CASE y # z
  BY <1>3, SayTyped
<1> QED
  BY <1>2, <1>3

\* A message that names no entry.
LEMMA GivenOther ==
    \A l : /\ Given(l, Drop) /\ \A r : Given(l, AcceptEntrance(r))
           /\ \A y, z, r : Given(l, ZoneToZone(y, z, r))
BY DEF Given, Drop, AcceptEntrance, ZoneToZone

\* Issued, in parts.
IdsGiven == \A n \in Bodies : body[n].id < list.next
EntrantsGiven == \A z \in Zones : auth[z] < list.next
LinksGiven == \A z \in Zones : AllGiven(list, to_zone[z])

\* Issued, in its three parts.
LEMMA IssuedParts == Issued <=> IdsGiven /\ EntrantsGiven /\ LinksGiven
BY DEF Issued, IdsGiven, EntrantsGiven, LinksGiven, AllGiven, Given

\* Types of what the parts compare.
LEMMA IdTypes ==
    ASSUME Typed, Typed'
    PROVE  /\ list.next \in Nat /\ list.next > 0 /\ player.id \in Nat /\ list'.next \in Nat
           /\ \A n \in Bodies : body[n].id \in Nat /\ body'[n].id \in Nat
           /\ \A z \in Zones : /\ auth[z] \in Nat /\ auth'[z] \in Nat
                                /\ to_zone[z] \in Seq(Messages) /\ to_zone'[z] \in Seq(Messages)
<1>1. list.next \in Nat /\ list.next > 0 /\ list'.next \in Nat
  BY IdsFinite DEF Typed, Sound, Lists
<1>2. player.id \in Nat
  BY IdsFinite DEF Typed, PlayerOK, Players
<1>3. \A n \in Bodies : body[n].id \in Nat /\ body'[n].id \in Nat
  <2>1. \A n \in Bodies : body[n].id \in 0 .. MaxLogins /\ body'[n].id \in 0 .. MaxLogins
    BY DEF Typed, BodiesOK, Objects
  <2> QED
    BY <2>1, IdsFinite
<1>4. \A z \in Zones : auth[z] \in Nat /\ auth'[z] \in Nat
  BY IdsFinite DEF Typed
<1>5. \A z \in Zones : to_zone[z] \in Seq(Messages) /\ to_zone'[z] \in Seq(Messages)
  BY DEF Typed, Links
<1> QED
  BY <1>1, <1>2, <1>3, <1>4, <1>5

\* Ids stay in use, or get into use.
LEMMA IdsStay ==
    ASSUME Typed, Typed', Issued, list'.next >= list.next,
           \A n \in Bodies : \/ body'[n].id \in {0, body[n].id} \/ body'[n].id < list.next
                             \/ \E z \in Zones : body'[n].id = auth[z],
           \A z \in Zones : auth'[z] \in {0, auth[z]} \/ auth'[z] < list.next
    PROVE  IdsGiven' /\ EntrantsGiven'
<1>1. /\ list.next \in Nat /\ list.next > 0 /\ list'.next \in Nat
      /\ \A n \in Bodies : body[n].id \in Nat /\ body'[n].id \in Nat
      /\ \A z \in Zones : auth[z] \in Nat /\ auth'[z] \in Nat
  BY IdTypes
<1>2. IdsGiven /\ EntrantsGiven
  BY IssuedParts
<1>3. IdsGiven'
  <2> SUFFICES ASSUME NEW n \in Bodies PROVE body'[n].id < list.next
    BY <1>1 DEF IdsGiven
  <2>1. body[n].id < list.next /\ \A z \in Zones : auth[z] < list.next
    BY <1>2 DEF IdsGiven, EntrantsGiven
  <2> QED
    BY <1>1, <2>1
<1>4. EntrantsGiven'
  <2> SUFFICES ASSUME NEW z \in Zones PROVE auth'[z] < list.next
    BY <1>1 DEF EntrantsGiven
  <2>1. auth[z] < list.next
    BY <1>2 DEF EntrantsGiven
  <2> QED
    BY <1>1, <2>1
<1> QED
  BY <1>3, <1>4

\* Links that lose messages, as the list grows.
LEMMA LinksStay ==
    ASSUME Typed, Typed', Issued, list'.next >= list.next,
           \A z \in Zones : AllGiven(list, to_zone'[z])
    PROVE  LinksGiven'
<1> SUFFICES ASSUME NEW z \in Zones PROVE AllGiven(list', to_zone'[z])
  BY DEF LinksGiven
<1>1. list.next \in Int /\ list'.next \in Int /\ to_zone'[z] \in Seq(Messages)
  BY IdTypes
<1> QED
  BY <1>1, GivenGrows

\* Links whose messages are those there were, or fewer of one zone's.
LEMMA LinksFewer ==
    ASSUME Typed, Issued, NEW z \in Zones,
           to_zone' = to_zone \/ (to_zone[z] # <<>> /\ Got(z)) \/ to_zone' = [to_zone EXCEPT ![z] = <<>>]
    PROVE  /\ \A y \in Zones : AllGiven(list, to_zone'[y])
           /\ to_zone[z] # <<>> => Given(list, Head(to_zone[z]))
<1>1. \A y \in Zones : AllGiven(list, to_zone[y]) /\ to_zone[y] \in Seq(Messages)
  BY IssuedParts DEF LinksGiven, Typed, Links
<1>2. CASE to_zone' = to_zone
  BY <1>1, <1>2, GivenHeard
<1>3. CASE to_zone[z] # <<>> /\ Got(z)
  <2>1. \A y \in Zones : to_zone'[y] = IF y = z THEN Tail(to_zone[z]) ELSE to_zone[y]
    BY <1>3 DEF Got, Typed, Links
  <2> QED
    BY <1>1, <1>3, <2>1, GivenHeard
<1>4. CASE to_zone' = [to_zone EXCEPT ![z] = <<>>]
  <2>1. \A y \in Zones : to_zone'[y] = IF y = z THEN <<>> ELSE to_zone[y]
    BY <1>4 DEF Typed, Links
  <2>2. AllGiven(list, <<>>)
    BY DEF AllGiven
  <2> QED
    BY <1>1, <2>1, <2>2, GivenHeard
<1> QED
  BY <1>2, <1>3, <1>4

\* A step that gives nobody an id.
LEMMA IssuedSame ==
    ASSUME Typed, Typed', Issued, list'.next >= list.next,
           \A n \in Bodies : body'[n].id \in {0, body[n].id},
           \A z \in Zones : auth'[z] \in {0, auth[z]} \/ auth'[z] < list.next,
           \A z \in Zones : AllGiven(list, to_zone'[z])
    PROVE  Issued'
<1>1. IdsGiven' /\ EntrantsGiven'
  BY IdsStay
<1>2. LinksGiven'
  BY LinksStay
<1> QED
  BY <1>1, <1>2 DEF Issued, IdsGiven, EntrantsGiven, LinksGiven, AllGiven, Given

\* The steps that hand an id on keep Issued, ...
LEMMA EnterWorldGiven == ASSUME Typed, Typed', Issued, EnterWorld PROVE Issued'
<1> USE DEF EnterWorld
<1>1. list'.next >= list.next
  BY EnterWorldTyped
<1> DEFINE c == [type |-> "IncClient", id |-> player.id]
           a == AcceptEntrance(0)
<1>2. c \in Messages /\ Given(list, c) /\ a \in Messages /\ Given(list, a) /\ Drop \in Messages /\ Given(list, Drop)
  <2>1. player.id \in Ids /\ player.id < list.next
    BY PlayerHas DEF Has
  <2>2. c \in Messages /\ a \in Messages /\ Drop \in Messages
    BY <2>1, SaidTyped
  <2>3. Given(list, c)
    BY <2>1 DEF Given
  <2>4. Given(list, a) /\ Given(list, Drop)
    BY GivenOther
  <2> QED
    BY <2>2, <2>3, <2>4
<1>3. PICK ask \in BOOLEAN :
          to_zone' = [z \in Zones |-> IF z # db.zone THEN Append(to_zone[z], Drop)
                                      ELSE to_zone[z] \o <<c>> \o (IF ask THEN <<a>> ELSE <<>>)]
  OBVIOUS
<1> HIDE DEF c, a
<1>4. ASSUME NEW z \in Zones PROVE AllGiven(list, to_zone'[z])
  <2> DEFINE s == to_zone[z]
  <2>1. s \in Seq(Messages) /\ AllGiven(list, s)
    BY IssuedParts DEF LinksGiven, Typed, Links
  <2>2. to_zone'[z] \in {Append(s, Drop), s \o <<c>> \o <<a>>, s \o <<c>> \o <<>>}
    BY <1>3
  <2> HIDE DEF s
  <2>3. s \o <<c>> \o <<a>> = Append(Append(s, c), a) /\ s \o <<c>> \o <<>> = Append(s, c)
        /\ Append(s, c) \in Seq(Messages)
    BY <1>2, <2>1
  <2>4. AllGiven(list, Append(s, Drop)) /\ AllGiven(list, Append(s, c))
    BY <1>2, <2>1, GivenSaid
  <2>5. AllGiven(list, Append(Append(s, c), a))
    BY <1>2, <2>3, <2>4, GivenSaid
  <2> QED
    BY <2>2, <2>3, <2>4, <2>5
<1> QED
  BY <1>1, <1>4, IssuedSame

LEMMA ClientUpdateGiven == ASSUME Typed, Typed', Issued, NEW z \in Zones, ClientUpdate(z) PROVE Issued'
<1>1. list'.next >= list.next
  BY ClientUpdateTyped
<1>2. body' = body /\ auth' = auth
  BY DEF ClientUpdate
<1>3. IdsGiven' /\ EntrantsGiven'
  BY <1>1, <1>2, IdsStay
<1>4. CASE to_zone' = to_zone
  BY <1>1, <1>2, <1>4, LinksFewer, IssuedSame
<1>5. CASE to_zone' # to_zone
  <2> DEFINE m == [type |-> "ChangeWID", id |-> list.next]
  <2>1. to_zone' = [y \in Zones |-> Append(to_zone[y], m)]
        /\ list.next <= MaxLogins /\ list' = Recreate(list, z, Head(to_world[z]).remove)
    BY <1>5 DEF ClientUpdate
  <2>2. Head(to_world[z]).remove \in 0 .. 2
    BY TookTyped, MessageTyped DEF ClientUpdate, FromZone
  <2>3. list'.next = list.next + 1 /\ list.next \in Int /\ list.next \in Ids
    <3>1. list'.next = list.next + 1
      BY <2>1, <2>2, RecreateSound DEF Typed
    <3> QED
      BY <2>1, <3>1, IdsFinite DEF Typed, Sound, Lists, Ids
  <2>4. m \in Messages /\ Given(list', m)
    <3>1. m \in Messages
      BY <2>3, SaidTyped
    <3>2. list.next < list'.next
      BY <2>3
    <3> QED
      BY <3>1, <3>2 DEF Given
  <2>5. \A y \in Zones : to_zone'[y] = Append(to_zone[y], m)
    BY <2>1
  <2> HIDE DEF m
  <2>6. \A y \in Zones : AllGiven(list, to_zone[y]) /\ to_zone[y] \in Seq(Messages)
    BY IssuedParts DEF LinksGiven, Typed, Links
  <2>7. \A y \in Zones : AllGiven(list', to_zone[y])
    <3>1. list.next \in Int /\ list'.next \in Int
      BY <2>3
    <3> QED
      BY <1>1, <2>6, <3>1, GivenGrows
  <2>8. \A y \in Zones : AllGiven(list', to_zone'[y])
    BY <2>4, <2>5, <2>6, <2>7, GivenSaid
  <2> QED
    BY <1>3, <2>8 DEF Issued, IdsGiven, EntrantsGiven, AllGiven, Given
<1> QED
  BY <1>4, <1>5

LEMMA RouteGiven == ASSUME Typed, Typed', Issued, NEW z \in Zones, RouteZoneToZone(z) PROVE Issued'
<1> DEFINE m == Head(to_world[z])
           yes == ZoneToZone(z, m.to, 1)
           no == ZoneToZone(z, m.to, 0)
<1>1. m \in Messages /\ m.from \in Zones /\ m.to \in Zones /\ m.type = "ZoneToZoneRequest"
  BY TookTyped, MessageTyped DEF RouteZoneToZone, FromZone
<1>2. yes \in Messages /\ no \in Messages /\ Given(list, yes) /\ Given(list, no) /\ Given(list, m)
  <2>1. Given(list, m)
    BY <1>1 DEF Given
  <2> QED
    BY <1>1, <2>1, SaidTyped, GivenOther
<1>3. \/ to_zone' = Say(to_zone, m.from, m)
      \/ to_zone' = Say(Say(to_zone, z, yes), m.to, yes)
      \/ to_zone' = Say(to_zone, z, no)
  BY DEF RouteZoneToZone
<1>4. list' = list /\ body' = body /\ auth' = auth
  BY DEF RouteZoneToZone
<1> HIDE DEF yes, no, m
<1>5. to_zone \in Links /\ Say(to_zone, z, yes) \in Links /\ \A y \in Zones : AllGiven(list, to_zone[y])
  BY <1>2, SayTyped, IssuedParts DEF Typed, LinksGiven
<1>6. \A y \in Zones : AllGiven(list, Say(to_zone, z, yes)[y])
  BY <1>2, <1>5, GivenSay
<1>7. \A y \in Zones : AllGiven(list, to_zone'[y])
  BY <1>1, <1>2, <1>3, <1>5, <1>6, GivenSay
<1> QED
  BY <1>4, <1>7, Kept, IssuedSame

\* Ids come from the world, and into the clients from what it has said.
LEMMA ZoneGiven ==
    ASSUME Typed, Typed', Issued, NEW z \in Zones, IncClient(z) \/ ChangeWID(z) \/ ZoneEntry(z)
    PROVE  Issued'
<1>1. list'.next >= list.next /\ (to_zone' = to_zone \/ (to_zone[z] # <<>> /\ Got(z)))
  BY Kept DEF IncClient, ChangeWID, ZoneEntry, world, ToZone
<1>2. (\A y \in Zones : AllGiven(list, to_zone'[y])) /\ (to_zone[z] # <<>> => Given(list, Head(to_zone[z])))
  BY <1>1, LinksFewer
<1>3. CASE IncClient(z)
  <2>1. to_zone[z] # <<>> /\ Head(to_zone[z]).type = "IncClient"
    BY <1>3 DEF IncClient, ToZone
  <2>2. auth' = [auth EXCEPT ![z] = Head(to_zone[z]).id] /\ Head(to_zone[z]).id < list.next
    BY <1>2, <1>3, <2>1 DEF IncClient, Given
  <2>3. \A y \in Zones : auth'[y] = auth[y] \/ auth'[y] < list.next
    BY <2>2 DEF Typed
  <2>4. \A n \in Bodies : body'[n].id = body[n].id
    <3>1. PICK g \in Found(z) : Kick(g)
      BY <1>3 DEF IncClient
    <3>2. body' = body \/ body' = [body EXCEPT ![g].state = "leaving"]
      BY <3>1 DEF Kick
    <3> QED
      BY <3>2 DEF Typed, BodiesOK, Objects
  <2> QED
    BY <1>1, <1>2, <2>3, <2>4, IssuedSame
<1>4. CASE ChangeWID(z)
  <2>1. to_zone[z] # <<>> /\ Head(to_zone[z]).type = "ChangeWID" /\ auth' = auth
    BY <1>4 DEF ChangeWID, ToZone
  <2> DEFINE id == Head(to_zone[z]).id
  <2>2. id < list.next
    BY <1>2, <2>1 DEF Given
  <2>3. PICK g \in Found(z) : body' = IF g = 0 THEN body ELSE [body EXCEPT ![g].id = id]
    BY <1>4 DEF ChangeWID
  <2> HIDE DEF id
  <2>4. \A n \in Bodies : body'[n].id \in {body[n].id, id}
    BY <2>3 DEF Typed, BodiesOK, Objects
  <2>5. IdsGiven' /\ EntrantsGiven'
    BY <1>1, <2>1, <2>2, <2>4, IdsStay
  <2>6. LinksGiven'
    BY <1>1, <1>2, LinksStay
  <2> QED
    BY <2>5, <2>6 DEF Issued, IdsGiven, EntrantsGiven, LinksGiven, AllGiven, Given
<1>5. CASE ZoneEntry(z)
  <2>1. PICK g \in Found(z), saved \in Rows : \E rest :
          /\ rest = body \/ rest = [body EXCEPT ![g].state = "leaving"]
          /\ \/ body' = rest
             \/ body' = [rest EXCEPT ![made + 1] =
                           [zone |-> z, state |-> "connecting", data |-> saved.data, dest |-> z,
                            id |-> auth[z], loaded |-> FALSE]]
    <3>1. PICK g \in Found(z), saved \in Rows :
              /\ db' = saved /\ (saved = db \/ (g # 0 /\ saved.data = body[g].data))
              /\ \/ /\ auth[z] = 0 /\ player' = Out /\ made' = made
                    /\ g = 0 => body' = body
                    /\ g # 0 => body' = [body EXCEPT ![g].state = "leaving"]
                 \/ /\ auth[z] # 0 /\ made' = made + 1
                    /\ player' = [player EXCEPT !.at = "inzone", !.body = made + 1]
                    /\ \E rest : /\ g = 0 => rest = body
                                 /\ g # 0 => rest = [body EXCEPT ![g].state = "leaving"]
                                 /\ body' = [rest EXCEPT ![made + 1] =
                                       [zone |-> z, state |-> "connecting", data |-> saved.data, dest |-> z,
                                        id |-> auth[z], loaded |-> FALSE]]
      BY <1>5, Arrives
    <3>2. CASE made' = made /\ auth[z] = 0
      <4>1. body' = body \/ body' = [body EXCEPT ![g].state = "leaving"]
        BY <3>1, <3>2
      <4> QED
        BY <4>1
    <3>3. CASE auth[z] # 0
      <4>1. PICK rest : /\ g = 0 => rest = body
                        /\ g # 0 => rest = [body EXCEPT ![g].state = "leaving"]
                        /\ body' = [rest EXCEPT ![made + 1] =
                                       [zone |-> z, state |-> "connecting", data |-> saved.data, dest |-> z,
                                        id |-> auth[z], loaded |-> FALSE]]
        BY <3>1, <3>3
      <4>2. rest = body \/ rest = [body EXCEPT ![g].state = "leaving"]
        BY <4>1
      <4> QED
        BY <4>1, <4>2
    <3> QED
      BY <3>1, <3>2, <3>3
  <2>2. \A n \in Bodies : body'[n].id \in {body[n].id, auth[z]}
    <3>1. PICK rest :
          /\ rest = body \/ rest = [body EXCEPT ![g].state = "leaving"]
          /\ \/ body' = rest
             \/ body' = [rest EXCEPT ![made + 1] =
                           [zone |-> z, state |-> "connecting", data |-> saved.data, dest |-> z,
                            id |-> auth[z], loaded |-> FALSE]]
      BY <2>1
    <3>2. /\ \A n \in Bodies : rest[n].id = body[n].id
          /\ DOMAIN rest = Bodies
      BY <3>1 DEF Typed, BodiesOK, Objects
    <3> QED
      BY <3>1, <3>2
  <2>3. auth' = auth
    BY <1>5 DEF ZoneEntry
  <2>4. IdsGiven' /\ EntrantsGiven'
    BY <1>1, <2>2, <2>3, IdsStay
  <2>5. LinksGiven'
    BY <1>1, <1>2, LinksStay
  <2> QED
    BY <2>4, <2>5 DEF Issued, IdsGiven, EntrantsGiven, LinksGiven, AllGiven, Given
<1> QED
  BY <1>3, <1>4, <1>5

\* What is left: the ids of the clients stay, or they are gone.
LEMMA OtherGiven ==
    ASSUME Typed, Typed', Issued, list'.next >= list.next,
           \/ CLEAdd \/ HandleSendLoginInfoPacket \/ Quit
           \/ \E i \in Ids : CheckStale(i)
           \/ \E z \in Zones : \/ Clearance(z) \/ DropClient(z) \/ AcceptWorldEntrance(z)
                               \/ ZoneChangeReply(z) \/ ZoneChangeRequest(z) \/ Crash(z)
           \/ \E n \in Bodies : \/ CompleteConnect(n) \/ Play(n) \/ Save(n) \/ UpdateWho(n)
                                \/ \E to \in Zones : DoZoneSuccess(n, to)
                                \/ Leave(n) \/ LinkDead(n) \/ Destroy(n)
    PROVE  Issued'
<1>1. \A z \in Zones : auth'[z] \in {0, auth[z]}
  <2>1. auth' = auth \/ \E z \in Zones : auth' = [auth EXCEPT ![z] = 0]
    BY DEF CLEAdd, HandleSendLoginInfoPacket, Quit, CheckStale, Clearance, DropClient, AcceptWorldEntrance,
       ZoneChangeReply, ZoneChangeRequest, Crash, CompleteConnect, Play, Save, UpdateWho, DoZoneSuccess,
       Leave, LinkDead, Destroy, world
  <2> QED
    BY <2>1 DEF Typed
<1>2. \A n \in Bodies : body'[n].id \in {0, body[n].id}
  <2>1. \/ body' = body
        \/ \E z \in Zones : DropClient(z) \/ ZoneChangeReply(z) \/ Crash(z)
        \/ \E n \in Bodies : \/ CompleteConnect(n) \/ Play(n) \/ Leave(n) \/ LinkDead(n) \/ Destroy(n)
                             \/ \E to \in Zones : DoZoneSuccess(n, to)
    BY DEF CLEAdd, HandleSendLoginInfoPacket, Quit, CheckStale, Clearance, AcceptWorldEntrance,
       ZoneChangeRequest, Save, UpdateWho, world
  <2>2. body \in [Bodies -> Objects]
    BY DEF Typed, BodiesOK
  <2>3. CASE \E z \in Zones : DropClient(z) \/ ZoneChangeReply(z)
    <3>1. body' = body \/ \E g, s : body' = [body EXCEPT ![g].state = s]
                       \/ \E d : body' = [body EXCEPT ![g].dest = d, ![g].state = s]
      BY <2>3 DEF DropClient, ZoneChangeReply, Kick
    <3>2. CASE body' = body
      BY <3>2
    <3>3. CASE body' # body
      <4>1. PICK g, s : body' = [body EXCEPT ![g].state = s]
                        \/ \E d : body' = [body EXCEPT ![g].dest = d, ![g].state = s]
        BY <3>1, <3>3
      <4>2. CASE body' = [body EXCEPT ![g].state = s]
        <5>1. \A n \in Bodies : body'[n].id = body[n].id
          BY <2>2, <4>2 DEF Objects
        <5> QED
          BY <5>1
      <4>3. CASE \E d : body' = [body EXCEPT ![g].dest = d, ![g].state = s]
        <5>1. PICK d : body' = [body EXCEPT ![g].dest = d, ![g].state = s]
          BY <4>3
        <5>2. \A n \in Bodies : body'[n].id = body[n].id
          BY <2>2, <5>1 DEF Objects
        <5> QED
          BY <5>2
      <4> QED
        BY <4>1, <4>2, <4>3
    <3> QED
      BY <3>2, <3>3
  <2>4. CASE \E z \in Zones : Crash(z)
    BY <2>2, <2>4 DEF Crash, NoBody
  <2>5. CASE \E n \in Bodies : CompleteConnect(n) \/ Play(n) \/ (\E to \in Zones : DoZoneSuccess(n, to))
    <3>1. \E n \in Bodies : \/ body' = [body EXCEPT ![n].state = "playing", ![n].loaded = TRUE]
                            \/ body' = [body EXCEPT ![n].data = clock + 1]
                            \/ \E to \in Zones : body' = [body EXCEPT ![n].dest = to]
      BY <2>5 DEF CompleteConnect, Play, DoZoneSuccess
    <3> QED
      BY <2>2, <3>1 DEF Objects
  <2>6. CASE \E n \in Bodies : Leave(n) \/ LinkDead(n) \/ Destroy(n)
    <3>1. \E n \in Bodies : \/ body' = [body EXCEPT ![n].state = "leaving"]
                            \/ body' = [body EXCEPT ![n].state = "linkdead"]
                            \/ body' = [body EXCEPT ![n] = NoBody]
      BY <2>6 DEF Leave, LinkDead, Destroy
    <3> QED
      BY <2>2, <3>1 DEF Objects, NoBody
  <2> QED
    BY <2>1, <2>3, <2>4, <2>5, <2>6
<1>3. \A z \in Zones : AllGiven(list, to_zone'[z])
  <2>1. \/ to_zone' = to_zone
        \/ \E z \in Zones : (to_zone[z] # <<>> /\ Got(z)) \/ to_zone' = [to_zone EXCEPT ![z] = <<>>]
    BY DEF CLEAdd, HandleSendLoginInfoPacket, Quit, CheckStale, Clearance, DropClient, AcceptWorldEntrance,
       ZoneChangeReply, ZoneChangeRequest, Crash, CompleteConnect, Play, Save, UpdateWho, DoZoneSuccess,
       Leave, LinkDead, Destroy, world, ToZone
  <2>2. CASE to_zone' = to_zone
    BY <2>2, IssuedParts DEF LinksGiven
  <2>3. CASE to_zone' # to_zone
    BY <2>1, <2>3, LinksFewer
  <2> QED
    BY <2>2, <2>3
<1> QED
  BY <1>1, <1>2, <1>3, IssuedSame

\* ... and so does every other.
LEMMA NextIssued == ASSUME Typed, Issued, [Next]_vars PROVE Issued'
<1>1. Typed' /\ list'.next >= list.next
  BY NextTyped
<1>2. CASE Next
  BY <1>1, <1>2, EnterWorldGiven, ClientUpdateGiven, RouteGiven, ZoneGiven, OtherGiven DEF Next
<1>3. CASE UNCHANGED vars
  BY <1>3 DEF vars, Issued
<1> QED
  BY <1>2, <1>3

-------------------------------------------------------------------------------
(* What the world hears of the one client on prompt links. *)

\* Client lists on a link, when something is said or heard.
LEMMA SpokenSaid ==
    ASSUME NEW s \in Seq(Messages), NEW m \in Messages
    PROVE  Spoken(Append(s, m)) = Spoken(s) \cup (IF m.type = "ClientList" THEN {m} ELSE {})
<1>1. /\ DOMAIN Append(s, m) = 1 .. Len(s) + 1 /\ DOMAIN s = 1 .. Len(s) /\ Len(s) \in Nat
      /\ \A i \in 1 .. Len(s) : Append(s, m)[i] = s[i]
      /\ Append(s, m)[Len(s) + 1] = m
  OBVIOUS
<1>2. ASSUME NEW x PROVE x \in Spoken(Append(s, m)) <=>
                         x \in Spoken(s) \cup (IF m.type = "ClientList" THEN {m} ELSE {})
  <2>1. x \in Spoken(s) <=> \E i \in 1 .. Len(s) : s[i].type = "ClientList" /\ x = s[i]
    BY <1>1 DEF Spoken
  <2>2. x \in Spoken(Append(s, m)) <=>
        \E i \in 1 .. Len(s) + 1 : Append(s, m)[i].type = "ClientList" /\ x = Append(s, m)[i]
    BY <1>1 DEF Spoken
  <2>3. \A i \in 1 .. Len(s) + 1 : i \in 1 .. Len(s) \/ i = Len(s) + 1
    BY <1>1
  <2>4. \A i \in 1 .. Len(s) : i \in 1 .. Len(s) + 1
    BY <1>1
  <2>5. Len(s) + 1 \in 1 .. Len(s) + 1
    BY <1>1
  <2> QED
    BY <1>1, <2>1, <2>2, <2>3, <2>4, <2>5
<1> QED
  BY <1>2

\* What a zone says of clients, when its first message is taken.
LEMMA SpokenHeard ==
    ASSUME NEW s \in Seq(Messages), s # <<>>
    PROVE  /\ Spoken(Tail(s)) \subseteq Spoken(s)
           /\ Spoken(s) \subseteq Spoken(Tail(s)) \cup {Head(s)}
           /\ Head(s).type # "ClientList" => Spoken(Tail(s)) = Spoken(s)
           /\ Head(s).type = "ClientList" => Head(s) \in Spoken(s)
<1>1. /\ DOMAIN Tail(s) = 1 .. Len(s) - 1 /\ DOMAIN s = 1 .. Len(s) /\ Len(s) \in Nat /\ Len(s) > 0
      /\ \A i \in 1 .. Len(s) - 1 : Tail(s)[i] = s[i + 1]
      /\ Head(s) = s[1]
  OBVIOUS
<1>2. Spoken(Tail(s)) \subseteq Spoken(s)
  <2> SUFFICES ASSUME NEW i \in 1 .. Len(s) - 1, Tail(s)[i].type = "ClientList" PROVE Tail(s)[i] \in Spoken(s)
    BY <1>1 DEF Spoken
  <2>1. i + 1 \in 1 .. Len(s)
    BY <1>1
  <2> QED
    BY <1>1, <2>1 DEF Spoken
<1>3. ASSUME NEW i \in 1 .. Len(s), s[i].type = "ClientList"
      PROVE  s[i] \in Spoken(Tail(s)) \/ (i = 1 /\ s[i] = Head(s))
  <2>1. CASE i = 1
    BY <1>1, <2>1
  <2>2. CASE i # 1
    <3>1. i - 1 \in 1 .. Len(s) - 1 /\ (i - 1) + 1 = i
      BY <1>1, <2>2
    <3>2. Tail(s)[i - 1] = s[i]
      BY <1>1, <3>1
    <3> QED
      BY <1>1, <1>3, <3>1, <3>2 DEF Spoken
  <2> QED
    BY <2>1, <2>2
<1>4. \A x \in Spoken(s) : \E i \in 1 .. Len(s) : s[i].type = "ClientList" /\ x = s[i]
  BY <1>1 DEF Spoken
<1>5. Head(s).type = "ClientList" => Head(s) \in Spoken(s)
  <2>1. 1 \in 1 .. Len(s)
    BY <1>1
  <2> QED
    BY <1>1, <2>1 DEF Spoken
<1>6. Spoken(s) \subseteq Spoken(Tail(s)) \cup {Head(s)}
  BY <1>3, <1>4
<1>7. ASSUME Head(s).type # "ClientList" PROVE Spoken(Tail(s)) = Spoken(s)
  <2>1. ASSUME NEW x \in Spoken(s) PROVE x \in Spoken(Tail(s))
    <3>1. PICK i \in 1 .. Len(s) : s[i].type = "ClientList" /\ x = s[i]
      BY <1>4
    <3> QED
      BY <1>3, <1>7, <3>1
  <2> QED
    BY <1>2, <2>1
<1> QED
  BY <1>2, <1>5, <1>6, <1>7

\* The id that is on its way, when something is said or heard.
LEMMA NamedSaid ==
    ASSUME NEW s \in Seq(Messages), NEW m \in Messages, NEW id, NEW e, Named(Append(s, m), id, e)
    PROVE  IF m.type = "ChangeWID" THEN e = m.id ELSE Named(s, id, e)
<1> DEFINE t == Append(s, m)
<1>1. /\ DOMAIN t = 1 .. Len(s) + 1 /\ DOMAIN s = 1 .. Len(s) /\ Len(s) \in Nat
      /\ \A i \in 1 .. Len(s) : t[i] = s[i]
      /\ t[Len(s) + 1] = m
  OBVIOUS
<1>2. /\ \A i \in 1 .. Len(s) + 1 : i \in 1 .. Len(s) \/ i = Len(s) + 1
      /\ \A i \in 1 .. Len(s) : i \in 1 .. Len(s) + 1 /\ Len(s) + 1 > i
      /\ Len(s) + 1 \in 1 .. Len(s) + 1
  BY <1>1
<1> HIDE DEF t
<1>3. CASE e = id /\ \A i \in 1 .. Len(s) + 1 : t[i].type # "ChangeWID"
  BY <1>1, <1>2, <1>3 DEF Named
<1>4. CASE \E i \in 1 .. Len(s) + 1 : /\ t[i].type = "ChangeWID" /\ t[i].id = e
                                     /\ \A j \in 1 .. Len(s) + 1 : j > i => t[j].type # "ChangeWID"
  <2>1. PICK i \in 1 .. Len(s) + 1 : /\ t[i].type = "ChangeWID" /\ t[i].id = e
                                     /\ \A j \in 1 .. Len(s) + 1 : j > i => t[j].type # "ChangeWID"
    BY <1>4
  <2>2. CASE i = Len(s) + 1
    BY <1>1, <2>1, <2>2
  <2>3. CASE i # Len(s) + 1
    <3>1. i \in 1 .. Len(s) /\ m.type # "ChangeWID"
      BY <1>1, <1>2, <2>1, <2>3
    <3>2. s[i].type = "ChangeWID" /\ s[i].id = e /\ \A j \in 1 .. Len(s) : j > i => s[j].type # "ChangeWID"
      BY <1>1, <1>2, <2>1, <3>1
    <3> QED
      BY <1>1, <3>1, <3>2 DEF Named
  <2> QED
    BY <2>2, <2>3
<1>5. Named(t, id, e)
  BY DEF t
<1> QED
  BY <1>1, <1>3, <1>4, <1>5 DEF Named

\* The name a client will have, when a message before is taken or heard.
LEMMA NamedHeard ==
    ASSUME NEW s \in Seq(Messages), s # <<>>, NEW id, NEW e,
           \/ Head(s).type # "ChangeWID" /\ Named(Tail(s), id, e)
           \/ Head(s).type = "ChangeWID" /\ Named(Tail(s), Head(s).id, e)
    PROVE  Named(s, id, e)
<1> DEFINE t == Tail(s)
<1>1. /\ DOMAIN t = 1 .. Len(s) - 1 /\ DOMAIN s = 1 .. Len(s) /\ Len(s) \in Nat /\ Len(s) > 0
      /\ \A i \in 1 .. Len(s) - 1 : t[i] = s[i + 1]
      /\ Head(s) = s[1]
  OBVIOUS
<1>2. \A j \in 1 .. Len(s) : j = 1 \/ (j - 1 \in 1 .. Len(s) - 1 /\ s[j] = t[j - 1])
  <2> SUFFICES ASSUME NEW j \in 1 .. Len(s), j # 1 PROVE j - 1 \in 1 .. Len(s) - 1 /\ s[j] = t[j - 1]
    OBVIOUS
  <2>1. j - 1 \in 1 .. Len(s) - 1 /\ (j - 1) + 1 = j
    BY <1>1
  <2> QED
    BY <1>1, <2>1
<1>3. \A i \in 1 .. Len(s) - 1 : i + 1 \in 1 .. Len(s)
  BY <1>1
<1>4. 1 \in 1 .. Len(s)
  BY <1>1
<1> HIDE DEF t
<1>5. PICK h : Named(t, h, e) /\ (IF s[1].type = "ChangeWID" THEN h = s[1].id ELSE h = id)
  BY <1>1 DEF t
<1>6. CASE e = h /\ \A i \in 1 .. Len(s) - 1 : t[i].type # "ChangeWID"
  <2>1. \A j \in 1 .. Len(s) : j > 1 => s[j].type # "ChangeWID"
    BY <1>1, <1>2, <1>6
  <2>2. CASE s[1].type = "ChangeWID"
    BY <1>1, <1>4, <1>5, <1>6, <2>1, <2>2 DEF Named
  <2>3. CASE s[1].type # "ChangeWID"
    BY <1>1, <1>5, <1>6, <2>1, <2>3 DEF Named
  <2> QED
    BY <2>2, <2>3
<1>7. CASE \E i \in 1 .. Len(s) - 1 : /\ t[i].type = "ChangeWID" /\ t[i].id = e
                                     /\ \A j \in 1 .. Len(s) - 1 : j > i => t[j].type # "ChangeWID"
  <2>1. PICK i \in 1 .. Len(s) - 1 : /\ t[i].type = "ChangeWID" /\ t[i].id = e
                                     /\ \A j \in 1 .. Len(s) - 1 : j > i => t[j].type # "ChangeWID"
    BY <1>7
  <2>2. i + 1 \in 1 .. Len(s) /\ s[i + 1].type = "ChangeWID" /\ s[i + 1].id = e
    BY <1>1, <1>3, <2>1
  <2>3. \A j \in 1 .. Len(s) : j > i + 1 => s[j].type # "ChangeWID"
    <3> SUFFICES ASSUME NEW j \in 1 .. Len(s), j > i + 1 PROVE s[j].type # "ChangeWID"
      OBVIOUS
    <3>1. j # 1 /\ j - 1 > i
      BY <1>1
    <3> QED
      BY <1>2, <2>1, <3>1
  <2> QED
    BY <1>1, <2>2, <2>3 DEF Named
<1> QED
  BY <1>1, <1>5, <1>6, <1>7 DEF Named

\* The id of a client, or on its way to it, was given out.
LEMMA NamedGiven ==
    ASSUME Typed, Issued, NEW n \in Bodies, NEW z \in Zones, NEW e, Named(to_zone[z], body[n].id, e)
    PROVE  e < list.next
BY IssuedParts DEF IdsGiven, LinksGiven, AllGiven, Given, Named

\* Links that carry only some messages.
LEMMA OnlySaid ==
    ASSUME NEW s \in Seq(Messages), NEW m \in Messages, NEW types, Only(s, types), m.type \in types
    PROVE  Only(Append(s, m), types)
<1> SUFFICES ASSUME NEW i \in DOMAIN Append(s, m) PROVE Append(s, m)[i].type \in types
  BY DEF Only
<1>1. CASE i \in DOMAIN s
  <2>1. Append(s, m)[i] = s[i]
    BY <1>1
  <2> QED
    BY <1>1, <2>1 DEF Only
<1>2. CASE i \notin DOMAIN s
  <2>1. Append(s, m)[i] = m
    BY <1>2
  <2> QED
    BY <2>1
<1> QED
  BY <1>1, <1>2

\* A link with messages of some types keeps to them.
LEMMA OnlyHeard ==
    ASSUME NEW s \in Seq(Messages), s # <<>>, NEW types, Only(s, types)
    PROVE  Only(Tail(s), types) /\ Head(s).type \in types
<1>1. \A i \in DOMAIN Tail(s) : Tail(s)[i] = s[i + 1] /\ i + 1 \in DOMAIN s
  OBVIOUS
<1>2. Head(s) = s[1] /\ 1 \in DOMAIN s
  OBVIOUS
<1> QED
  BY <1>1, <1>2 DEF Only

\* On all links at once.
LEMMA SaySpoken ==
    ASSUME NEW link \in Links, NEW y \in Zones, NEW m \in Messages, NEW z \in Zones
    PROVE  /\ m.type # "ClientList" => Spoken(Say(link, y, m)[z]) = Spoken(link[z])
           /\ z # y => Spoken(Say(link, y, m)[z]) = Spoken(link[z])
           /\ z = y /\ m.type = "ClientList" => Spoken(Say(link, y, m)[z]) = Spoken(link[z]) \cup {m}
<1>1. link[z] \in Seq(Messages)
  BY DEF Links
<1>2. CASE y = z
  <2>1. Say(link, y, m)[z] = Append(link[z], m)
    BY <1>2, SayTyped
  <2> QED
    BY <1>1, <1>2, <2>1, SpokenSaid
<1>3. CASE y # z
  <2>1. Say(link, y, m)[z] = link[z]
    BY <1>3, SayTyped
  <2> QED
    BY <1>3, <2>1
<1> QED
  BY <1>2, <1>3

\* A message that names nobody leaves the names as they are.
LEMMA SayNamed ==
    ASSUME NEW link \in Links, NEW y \in Zones, NEW m \in Messages, m.type # "ChangeWID", NEW z \in Zones,
           NEW id, NEW e, Named(Say(link, y, m)[z], id, e)
    PROVE  Named(link[z], id, e)
<1>1. link[z] \in Seq(Messages)
  BY DEF Links
<1>2. CASE y = z
  <2>1. Named(Append(link[z], m), id, e)
    BY <1>2, SayTyped
  <2> QED
    BY <1>1, <2>1, NamedSaid
<1>3. CASE y # z
  BY <1>3, SayTyped
<1> QED
  BY <1>2, <1>3

\* Seated: whoever has a client is in a zone.
Seated == player.body # 0 => player.at = "inzone"

\* Nothing is said or heard that a client list or an id is in, and the entries of others
\* than the player stay.
Steady ==
    /\ \A y \in Zones : Spoken(to_world'[y]) = Spoken(to_world[y])
    /\ \A y \in Zones : \A id, e : Named(to_zone'[y], id, e) => Named(to_zone[y], id, e)
    /\ \A e \in Ids : e < list.next /\ Apart(e) => list'.entry[e] = list.entry[e] /\ Apart(e)'

\* What a step may do to what is known of a client.
LEMMA HeardKept ==
    ASSUME Typed, Typed', Issued, NEW n \in Alive, body'[n].zone = body[n].zone, Heard(n, body[n].zone),
           \A y \in Zones : y = body[n].zone \/ Spoken(to_world'[y]) \subseteq Spoken(to_world[y]),
           body'[n].state = "connecting" => body[n].state = "connecting" /\ (Silent => Silent'),
           body'[n].state = "playing" =>
              /\ body[n].state = "playing"
              /\ Spoken(to_world'[body[n].zone]) \subseteq Spoken(to_world[body[n].zone])
              /\ \A e \in Ids : Named(to_zone'[body[n].zone], body'[n].id, e) =>
                    \/ Known(e, body[n].zone)' /\ Apart(e)'
                    \/ /\ Named(to_zone[body[n].zone], body[n].id, e)
                       /\ e < list.next /\ Known(e, body[n].zone) /\ Apart(e)
                             => Known(e, body[n].zone)' /\ Apart(e)'
    PROVE  Heard(n, body[n].zone)'
<1> DEFINE z == body[n].zone
<1>1. n \in Bodies /\ z \in Zones
  BY DEF Alive, Typed, BodiesOK, Objects
<1>2. body'[n].zone = z
  OBVIOUS
<1>3. \A y \in Zones \ {z} : Spoken(to_world'[y]) = {}
  BY DEF Heard
<1>4. body'[n].state = "connecting" => Silent'
  BY DEF Heard
<1>5. ASSUME body'[n].state = "playing"
      PROVE  /\ \A m \in Spoken(to_world'[z]) : m.remove = 0
             /\ \A e \in Ids : Named(to_zone'[z], body'[n].id, e) => Known(e, z)' /\ Apart(e)'
  <2>1. /\ \A m \in Spoken(to_world[z]) : m.remove = 0
        /\ \A e \in Ids : Named(to_zone[z], body[n].id, e) => Known(e, z) /\ Apart(e)
    BY <1>5 DEF Heard
  <2>2. \A m \in Spoken(to_world'[z]) : m.remove = 0
    BY <1>5, <2>1
  <2>3. ASSUME NEW e \in Ids, Named(to_zone'[z], body'[n].id, e) PROVE Known(e, z)' /\ Apart(e)'
    <3>1. CASE Named(to_zone[z], body[n].id, e)
      <4>1. e < list.next
        BY <1>1, <3>1, NamedGiven
      <4>2. Known(e, z) /\ Apart(e)
        BY <2>1, <3>1
      <4> QED
        BY <1>5, <2>3, <4>1, <4>2
    <3>2. CASE ~Named(to_zone[z], body[n].id, e)
      BY <1>5, <2>3, <3>2
    <3> QED
      BY <3>1, <3>2
  <2> QED
    BY <2>2, <2>3
<1>6. Heard(n, z)' <=> /\ \A y \in Zones \ {z'} : Spoken(to_world'[y]) = {}
                       /\ body'[n].state = "connecting" => Silent'
                       /\ body'[n].state = "playing" =>
                             /\ \A m \in Spoken(to_world'[z']) : m.remove = 0
                             /\ \A e \in Ids : Named(to_zone'[z'], body'[n].id, e) => Known(e, z)' /\ Apart(e)'
  BY DEF Heard
<1> QED
  BY <1>2, <1>3, <1>4, <1>5, <1>6 DEF Heard, Known

\* What has been heard of every client, on prompt links.
Spoke == \A n \in Alive : Heard(n, body[n].zone)

\* Steps that keep the clients, or make nobody one.
Stays == \A n \in Alive' : n \in Alive /\ body'[n].zone = body[n].zone

\* Where clients become no more, those that play stay where they are.
LEMMA ThinsStays == ASSUME Typed, Typed', Thins PROVE Stays
BY DEF Thins, Stays, Alive, Typed, BodiesOK

\* What the zone has said of the one client still stands.
LEMMA SteadyHeard ==
    ASSUME Typed, Typed', Issued, Spoke, Stays, Steady,
           \A n \in Alive' : /\ body'[n].state \in {"connecting", "playing"} =>
                                   body'[n].state = body[n].state /\ body'[n].id = body[n].id
                             /\ body'[n].state = "connecting" => (Silent => Silent')
    PROVE  Spoke'
<1> SUFFICES ASSUME NEW n \in Alive' PROVE Heard(n, body[n].zone)'
  BY DEF Spoke
<1>1. n \in Alive /\ n \in Bodies /\ body'[n].zone = body[n].zone /\ body[n].zone \in Zones
  BY DEF Stays, Alive, Typed, BodiesOK, Objects
<1>2. PICK z \in Zones : z = body[n].zone
  BY <1>1
<1>3. Heard(n, body[n].zone)
  BY <1>1 DEF Spoke
<1>4. \A y \in Zones : Spoken(to_world'[y]) = Spoken(to_world[y])
  BY DEF Steady
<1>5. body'[n].state = "playing" =>
         \A e \in Ids : Named(to_zone'[z], body'[n].id, e) =>
             /\ Named(to_zone[z], body[n].id, e)
             /\ e < list.next /\ Known(e, z) /\ Apart(e) => Known(e, z)' /\ Apart(e)'
  <2> SUFFICES ASSUME body'[n].state = "playing", NEW e \in Ids, Named(to_zone'[z], body'[n].id, e)
               PROVE  /\ Named(to_zone[z], body[n].id, e)
                      /\ e < list.next /\ Known(e, z) /\ Apart(e) => Known(e, z)' /\ Apart(e)'
    OBVIOUS
  <2>1. Named(to_zone[z], body[n].id, e)
    BY DEF Steady
  <2>2. ASSUME e < list.next, Known(e, z), Apart(e) PROVE Known(e, z)' /\ Apart(e)'
    <3>1. list'.entry[e] = list.entry[e] /\ Apart(e)'
      BY <2>2 DEF Steady
    <3> QED
      BY <1>4, <2>2, <3>1 DEF Known
  <2> QED
    BY <2>1, <2>2
<1>6. \A e \in Ids : Known(e, z)' => Known(e, body[n].zone)'
  BY <1>1, <1>2 DEF Known
<1>7. \A e \in Ids : Known(e, body[n].zone) => Known(e, z)
  BY <1>2
<1> QED
  BY <1>1, <1>2, <1>3, <1>4, <1>5, <1>6, <1>7, HeardKept

\* Links that stay silent.
LEMMA SilentLinks ==
    ASSUME Typed, Silent,
           \/ to_world' = to_world
           \/ \E z \in Zones : to_world[z] # <<>> /\ Took(z)
           \/ \E z \in Zones, r \in {-1, 0, 1} : to_world' = Say(to_world, z, AcceptEntrance(r))
           \/ \E z \in Zones : to_world' = [to_world EXCEPT ![z] = <<>>],
           \/ to_zone' = to_zone
           \/ \E z \in Zones : to_zone[z] # <<>> /\ Got(z)
           \/ \E z \in Zones : to_zone' = [to_zone EXCEPT ![z] = <<>>]
    PROVE  Silent'
<1> DEFINE W == {"AcceptWorldEntrance"}
           Z == {"IncClient", "DropClient", "AcceptWorldEntrance"}
<1>1. \A y \in Zones : /\ to_world[y] \in Seq(Messages) /\ Only(to_world[y], W)
                       /\ to_zone[y] \in Seq(Messages) /\ Only(to_zone[y], Z)
  BY DEF Typed, Links, Silent
<1>2. \A types : Only(<<>>, types)
  BY DEF Only
<1>3. ASSUME NEW y \in Zones PROVE Only(to_world'[y], W)
  <2>1. CASE \E z \in Zones : to_world[z] # <<>> /\ Took(z)
    <3>1. PICK z \in Zones : to_world[z] # <<>> /\ Took(z)
      BY <2>1
    <3>2. to_world'[y] = IF y = z THEN Tail(to_world[z]) ELSE to_world[y]
      BY <3>1 DEF Took, Typed, Links
    <3> QED
      BY <1>1, <3>1, <3>2, OnlyHeard
  <2>2. CASE \E z \in Zones, r \in {-1, 0, 1} : to_world' = Say(to_world, z, AcceptEntrance(r))
    <3>1. PICK z \in Zones, r \in {-1, 0, 1} : to_world' = Say(to_world, z, AcceptEntrance(r))
      BY <2>2
    <3>2. AcceptEntrance(r) \in Messages /\ AcceptEntrance(r).type \in W
      BY SaidTyped DEF AcceptEntrance
    <3>3. y = z => to_world'[y] = Append(to_world[y], AcceptEntrance(r))
      <4>1. to_world \in Links
        BY DEF Typed
      <4> QED
        BY <3>1, <3>2, <4>1, SayTyped
    <3>4. y # z => to_world'[y] = to_world[y]
      <4>1. to_world \in Links
        BY DEF Typed
      <4> QED
        BY <3>1, <3>2, <4>1, SayTyped
    <3>5. Only(Append(to_world[y], AcceptEntrance(r)), W)
      <4>1. to_world[y] \in Seq(Messages) /\ Only(to_world[y], W)
        BY <1>1
      <4> HIDE DEF W
      <4> QED
        BY <3>2, <4>1, OnlySaid
    <3>6. Only(to_world[y], W)
      BY <1>1
    <3> QED
      BY <3>3, <3>4, <3>5, <3>6
  <2>3. CASE \E z \in Zones : to_world' = [to_world EXCEPT ![z] = <<>>]
    <3>1. to_world'[y] \in {<<>>, to_world[y]}
      BY <2>3 DEF Typed, Links
    <3> QED
      BY <1>1, <1>2, <3>1
  <2> QED
    BY <1>1, <2>1, <2>2, <2>3
<1>4. ASSUME NEW y \in Zones PROVE Only(to_zone'[y], Z)
  <2>1. CASE \E z \in Zones : to_zone[z] # <<>> /\ Got(z)
    <3>1. PICK z \in Zones : to_zone[z] # <<>> /\ Got(z)
      BY <2>1
    <3>2. to_zone'[y] = IF y = z THEN Tail(to_zone[z]) ELSE to_zone[y]
      BY <3>1 DEF Got, Typed, Links
    <3> QED
      BY <1>1, <3>1, <3>2, OnlyHeard
  <2>2. CASE \E z \in Zones : to_zone' = [to_zone EXCEPT ![z] = <<>>]
    <3>1. to_zone'[y] \in {<<>>, to_zone[y]}
      BY <2>2 DEF Typed, Links
    <3> QED
      BY <1>1, <1>2, <3>1
  <2> QED
    BY <1>1, <2>1, <2>2
<1> QED
  BY <1>3, <1>4 DEF Silent

\* On silent links nothing else is heard.
LEMMA SilentHeads ==
    ASSUME Typed, Silent, NEW z \in Zones
    PROVE  /\ to_world[z] # <<>> => Head(to_world[z]).type = "AcceptWorldEntrance"
           /\ to_zone[z] # <<>> => Head(to_zone[z]).type \in {"IncClient", "DropClient", "AcceptWorldEntrance"}
<1>1. to_world[z] \in Seq(Messages) /\ to_zone[z] \in Seq(Messages)
  BY DEF Typed, Links
<1> QED
  BY <1>1, OnlyHeard DEF Silent

\* Something is heard that no client list and no id is in.
LEMMA HeardSteady ==
    ASSUME Typed, NEW z \in Zones
    PROVE  /\ \A t : FromZone(z, t) /\ t # "ClientList" /\ Took(z) =>
                 \A y \in Zones : Spoken(to_world'[y]) = Spoken(to_world[y])
           /\ \A t : ToZone(z, t) /\ t # "ChangeWID" /\ Got(z) =>
                 \A y \in Zones : \A id, e : Named(to_zone'[y], id, e) => Named(to_zone[y], id, e)
<1>1. \A y \in Zones : to_world[y] \in Seq(Messages) /\ to_zone[y] \in Seq(Messages)
  BY DEF Typed, Links
<1>2. ASSUME NEW t, FromZone(z, t), t # "ClientList", Took(z), NEW y \in Zones
      PROVE  Spoken(to_world'[y]) = Spoken(to_world[y])
  <2>1. to_world'[y] = IF y = z THEN Tail(to_world[z]) ELSE to_world[y]
    BY <1>2 DEF Took, Typed, Links
  <2>2. to_world[z] # <<>> /\ Head(to_world[z]).type # "ClientList"
    BY <1>2 DEF FromZone
  <2>3. Spoken(Tail(to_world[z])) = Spoken(to_world[z])
    BY <1>1, <2>2, SpokenHeard
  <2> QED
    BY <2>1, <2>3
<1>3. ASSUME NEW t, ToZone(z, t), t # "ChangeWID", Got(z), NEW y \in Zones, NEW id, NEW e,
             Named(to_zone'[y], id, e)
      PROVE  Named(to_zone[y], id, e)
  <2>1. to_zone'[y] = IF y = z THEN Tail(to_zone[z]) ELSE to_zone[y]
    BY <1>3 DEF Got, Typed, Links
  <2>2. to_zone[z] # <<>> /\ Head(to_zone[z]).type # "ChangeWID"
    BY <1>3 DEF ToZone
  <2>3. CASE y = z
    <3>1. Named(Tail(to_zone[z]), id, e)
      BY <1>3, <2>1, <2>3
    <3> QED
      BY <1>1, <2>2, <2>3, <3>1, NamedHeard
  <2>4. CASE y # z
    BY <1>3, <2>1, <2>4
  <2> QED
    BY <2>3, <2>4
<1> QED
  BY <1>2, <1>3

\* A step after which every client that is left goes, or is told to.
LEMMA GoneHeard ==
    ASSUME Typed, Typed', Spoke, Stays,
           \A n \in Alive' : /\ body'[n].state \notin {"connecting", "playing"}
                             /\ \A y \in Zones : y = body[n].zone \/ Spoken(to_world'[y]) \subseteq Spoken(to_world[y])
    PROVE  Spoke'
<1> SUFFICES ASSUME NEW n \in Alive' PROVE Heard(n, body[n].zone)'
  BY DEF Spoke
<1>1. n \in Alive /\ body'[n].zone = body[n].zone
  BY DEF Stays
<1>2. \A y \in Zones \ {body[n].zone} : Spoken(to_world[y]) = {}
  BY <1>1 DEF Spoke, Heard
<1>3. \A y \in Zones \ {body'[n].zone} : Spoken(to_world'[y]) = {}
  BY <1>1, <1>2
<1> QED
  BY <1>3 DEF Heard

\* What the world does to the entry of the player who is connected to it leaves the others.
LEMMA EntriesSteady ==
    ASSUME Typed, list' = list \/ (player.at \notin {"out", "inzone"}
                                   /\ \E s \in Levels : list' = SetOnline(list, player.id, s)),
           \/ player'.at \in {"out", "inzone"} \/ player' = player
           \/ player.at \notin {"out", "inzone"} /\ player'.id = player.id
    PROVE  \A e \in Ids : e < list.next /\ Apart(e) => list'.entry[e] = list.entry[e] /\ Apart(e)'
<1> SUFFICES ASSUME NEW e \in Ids, Apart(e) PROVE list'.entry[e] = list.entry[e] /\ Apart(e)'
  OBVIOUS
<1>1. Apart(e)'
  BY DEF Apart
<1>2. CASE list' = list
  BY <1>1, <1>2
<1>3. CASE player.at \notin {"out", "inzone"} /\ \E s \in Levels : list' = SetOnline(list, player.id, s)
  <2>1. Has(list, player.id) /\ player.id \in Ids /\ player.id # e
    BY <1>3, PlayerHas DEF Apart
  <2>2. Sound(list)
    BY DEF Typed
  <2> QED
    BY <1>1, <1>3, <2>1, <2>2, SetOnlineSound
<1> QED
  BY <1>2, <1>3

\* The player and the world: logging in, going, and the answer of a zone.
LEMMA WorldHeard ==
    ASSUME Typed, Typed', Issued, Spoke, Stays,
           CLEAdd \/ HandleSendLoginInfoPacket \/ Quit \/ \E z \in Zones : Clearance(z)
    PROVE  Spoke'
<1>1. body' = body /\ to_zone' = to_zone
  BY DEF CLEAdd, HandleSendLoginInfoPacket, Quit, Clearance
<1>2. to_world' = to_world \/ \E z \in Zones : FromZone(z, "AcceptWorldEntrance") /\ Took(z)
  BY DEF CLEAdd, HandleSendLoginInfoPacket, Quit, Clearance
<1>3. \A y \in Zones : Spoken(to_world'[y]) = Spoken(to_world[y])
  BY <1>2, HeardSteady
<1>4. \A e \in Ids : e < list.next /\ Apart(e) => list'.entry[e] = list.entry[e] /\ Apart(e)'
  <2>1. CASE CLEAdd
    <3>1. Sound(list) /\ list' = NewEntry(list, TRUE) /\ list.next <= MaxLogins /\ list.next \in Nat
      BY <2>1, IdsFinite DEF CLEAdd, Typed, Sound, Lists
    <3>2. \A e \in Ids \ {list.next} : list'.entry[e] = list.entry[e]
      BY <3>1, NewEntrySound
    <3>3. player'.id = list.next
      BY <2>1 DEF CLEAdd, Out
    <3>4. \A e \in Ids : e < list.next => e # list.next
      BY <3>1, IdsFinite DEF Ids
    <3>5. \A e \in Ids : e # list.next => Apart(e)'
      BY <3>3 DEF Apart
    <3> QED
      BY <3>2, <3>4, <3>5
  <2>2. CASE HandleSendLoginInfoPacket
    <3>1. /\ player.at \notin {"out", "inzone"}
          /\ list' = list \/ \E s \in Levels : list' = SetOnline(list, player.id, s)
          /\ player' = Out \/ player' = [player EXCEPT !.at = "passing"] \/ player' = [player EXCEPT !.at = "select"]
      BY <2>2 DEF HandleSendLoginInfoPacket, Levels, Never, InZone, Online, CharSelect
    <3>2. player'.at = "out" \/ player'.id = player.id
      BY <3>1 DEF Out, Typed, PlayerOK, Players
    <3> QED
      BY <3>1, <3>2, EntriesSteady
  <2>3. CASE Quit
    <3>1. player'.at = "out" /\ (list' = list \/ (player.at \in {"select", "passing"} /\ list' = SetOnline(list, player.id, Offline)))
      BY <2>3 DEF Quit, Out
    <3>2. Offline \in Levels
      BY DEF Levels, Never, InZone, Offline
    <3> QED
      BY <3>1, <3>2, EntriesSteady
  <2>4. CASE \E z \in Zones : Clearance(z)
    <3>1. \/ list' = list /\ player' = player
          \/ player.at = "asking" /\ list' = SetOnline(list, player.id, Zoning) /\ player' = [player EXCEPT !.at = "cleared"]
          \/ player.at = "asking" /\ list' = list /\ player' = [player EXCEPT !.at = "select", !.zone = NoZone]
      BY <2>4 DEF Clearance
    <3>2. Zoning \in Levels
      BY DEF Levels, Never, InZone, Zoning
    <3>3. player' = player \/ (player.at = "asking" /\ player'.id = player.id)
      BY <3>1 DEF Typed, PlayerOK, Players
    <3> QED
      BY <3>1, <3>2, <3>3, EntriesSteady
  <2> QED
    BY <2>1, <2>2, <2>3, <2>4
<1>5. Steady
  BY <1>1, <1>3, <1>4 DEF Steady
<1>6. Silent => Silent'
  <2> SUFFICES ASSUME Silent PROVE Silent'
    OBVIOUS
  <2>1. to_world' = to_world \/ \E z \in Zones : to_world[z] # <<>> /\ Took(z)
    BY <1>2 DEF FromZone
  <2> QED
    BY <1>1, <2>1, SilentLinks
<1> QED
  BY <1>1, <1>5, <1>6, SteadyHeard

\* Entering the world: only orders are sent.
LEMMA EnterWorldHeard ==
    ASSUME Typed, Typed', Issued, Spoke, EnterWorld
    PROVE  Spoke'
<1> USE DEF EnterWorld
<1> DEFINE c == [type |-> "IncClient", id |-> player.id]
           a == AcceptEntrance(0)
<1>1. /\ c \in Messages /\ a \in Messages /\ Drop \in Messages
      /\ c.type = "IncClient" /\ a.type = "AcceptWorldEntrance" /\ Drop.type = "DropClient"
  <2>1. player.id \in Ids
    BY PlayerHas
  <2>2. c \in Messages /\ a \in Messages /\ Drop \in Messages
    BY <2>1, SaidTyped
  <2>3. c.type = "IncClient" /\ a.type = "AcceptWorldEntrance" /\ Drop.type = "DropClient"
    BY DEF AcceptEntrance, Drop
  <2> QED
    BY <2>2, <2>3
<1>2. PICK ask \in BOOLEAN :
          to_zone' = [z \in Zones |-> IF z # db.zone THEN Append(to_zone[z], Drop)
                                      ELSE to_zone[z] \o <<c>> \o (IF ask THEN <<a>> ELSE <<>>)]
  OBVIOUS
<1>3. body' = body /\ to_world' = to_world
  OBVIOUS
<1>4. \A e \in Ids : e < list.next /\ Apart(e) => list'.entry[e] = list.entry[e] /\ Apart(e)'
  <2>1. player.at \notin {"out", "inzone"} /\ (list' = list \/ list' = SetOnline(list, player.id, Zoning))
    OBVIOUS
  <2>2. Zoning \in Levels
    BY DEF Levels, Never, InZone, Zoning
  <2>3. player'.id = player.id
    BY DEF Typed, PlayerOK, Players
  <2> QED
    BY <2>1, <2>2, <2>3, EntriesSteady
<1> HIDE DEF c, a, EnterWorld
<1>5. ASSUME NEW z \in Zones
      PROVE  /\ \A id, e : Named(to_zone'[z], id, e) => Named(to_zone[z], id, e)
             /\ \A types : /\ {"IncClient", "DropClient", "AcceptWorldEntrance"} \subseteq types
                           /\ Only(to_zone[z], types)
                           => Only(to_zone'[z], types)
  <2> DEFINE s == to_zone[z]
  <2>1. s \in Seq(Messages)
    BY DEF Typed, Links
  <2>2. to_zone'[z] \in {Append(s, Drop), s \o <<c>> \o <<a>>, s \o <<c>> \o <<>>}
    BY <1>2
  <2> HIDE DEF s
  <2>3. s \o <<c>> \o <<a>> = Append(Append(s, c), a) /\ s \o <<c>> \o <<>> = Append(s, c)
        /\ Append(s, c) \in Seq(Messages)
    BY <1>1, <2>1
  <2>4. to_zone'[z] \in {Append(s, Drop), Append(Append(s, c), a), Append(s, c)}
    BY <2>2, <2>3
  <2>5. ASSUME NEW id, NEW e, Named(to_zone'[z], id, e) PROVE Named(s, id, e)
    <3>1. CASE to_zone'[z] = Append(s, Drop)
      <4>1. Named(Append(s, Drop), id, e)
        BY <2>5, <3>1
      <4> QED
        BY <1>1, <2>1, <4>1, NamedSaid
    <3>2. Named(Append(s, c), id, e) => Named(s, id, e)
      <4> SUFFICES ASSUME Named(Append(s, c), id, e) PROVE Named(s, id, e)
        OBVIOUS
      <4> QED
        BY <1>1, <2>1, NamedSaid
    <3>3. CASE to_zone'[z] = Append(Append(s, c), a)
      <4>1. Named(Append(Append(s, c), a), id, e)
        BY <2>5, <3>3
      <4>2. Named(Append(s, c), id, e)
        BY <1>1, <2>3, <4>1, NamedSaid
      <4> QED
        BY <3>2, <4>2
    <3>4. CASE to_zone'[z] = Append(s, c)
      BY <2>5, <3>2, <3>4
    <3> QED
      BY <2>4, <3>1, <3>3, <3>4
  <2>6. ASSUME NEW types, {"IncClient", "DropClient", "AcceptWorldEntrance"} \subseteq types, Only(s, types)
        PROVE  Only(to_zone'[z], types)
    <3>1. c.type \in types /\ a.type \in types /\ Drop.type \in types
      BY <1>1, <2>6
    <3>2. Only(Append(s, Drop), types) /\ Only(Append(s, c), types)
      BY <1>1, <2>1, <2>6, <3>1, OnlySaid
    <3>3. Only(Append(Append(s, c), a), types)
      BY <1>1, <2>3, <3>1, <3>2, OnlySaid
    <3> QED
      BY <2>4, <3>2, <3>3
  <2> QED
    BY <2>5, <2>6 DEF s
<1>6. Silent => Silent'
  BY <1>3, <1>5 DEF Silent
<1>7. Steady
  BY <1>3, <1>4, <1>5 DEF Steady
<1>8. Stays
  BY <1>3 DEF Stays, Alive
<1> QED
  BY <1>3, <1>6, <1>7, <1>8, SteadyHeard

\* A stale entry is nobody's who plays.
LEMMA CheckStaleHeard ==
    ASSUME Typed, Typed', Issued, Spoke, NEW i \in Ids, CheckStale(i)
    PROVE  Spoke'
<1> SUFFICES ASSUME NEW n \in Alive' PROVE Heard(n, body[n].zone)'
  BY DEF Spoke
<1>1. UNCHANGED <<player, body, to_zone, to_world>> /\ Quiet /\ ~KeptAlive(i)
  BY DEF CheckStale
<1>2. n \in Alive /\ n \in Bodies /\ body'[n] = body[n] /\ body[n].zone \in Zones
  BY <1>1 DEF Alive, Typed, BodiesOK, Objects
<1>3. Heard(n, body[n].zone)
  BY <1>2 DEF Spoke
<1>4. \A e \in Ids \ {i} : list'.entry[e] = list.entry[e]
  <2>1. Sound(list) /\ list.entry[i] # NoEntry
    BY DEF Typed, CheckStale, NoEntry
  <2>2. Has(list, i)
    BY <2>1, MadeBefore
  <2>3. \A e \in Ids \ {i} : SetOnline(list, i, Offline).entry[e] = list.entry[e]
    <3>1. Offline \in Levels
      BY DEF Levels, Never, InZone, Offline
    <3> QED
      BY <2>1, <2>2, <3>1, SetOnlineSound
  <2>4. SetOnline(list, i, Offline) \in Lists
    <3>1. Offline \in Levels
      BY DEF Levels, Never, InZone, Offline
    <3> QED
      BY <2>1, <2>2, <3>1, SetOnlineSound DEF Sound
  <2>5. list' = [SetOnline(list, i, Offline) EXCEPT !.entry[i] = NoEntry]
    BY DEF CheckStale
  <2> QED
    BY <2>3, <2>4, <2>5 DEF Lists
<1>5. ASSUME body[n].state = "playing", NEW e \in Ids, Named(to_zone'[body[n].zone], body'[n].id, e)
      PROVE  /\ Named(to_zone[body[n].zone], body[n].id, e)
             /\ Known(e, body[n].zone) /\ Apart(e) => Known(e, body[n].zone)' /\ Apart(e)'
  <2>1. Named(to_zone[body[n].zone], body[n].id, e)
    BY <1>1, <1>2, <1>5
  <2>2. e = body[n].id
    <3>1. to_zone[body[n].zone] = <<>>
      BY <1>1, <1>2 DEF Quiet
    <3>2. ASSUME Named(<<>>, body[n].id, e) PROVE e = body[n].id
      BY <3>2 DEF Named
    <3> QED
      BY <2>1, <3>1, <3>2
  <2>3. e # i
    BY <1>1, <1>2, <1>5, <2>2 DEF KeptAlive
  <2> QED
    BY <1>1, <1>2, <1>4, <2>1, <2>3 DEF Known, Apart
<1>6. Silent => Silent'
  BY <1>1 DEF Silent
<1> QED
  BY <1>1, <1>2, <1>3, <1>5, <1>6, HeardKept

\* The death of another zone.
LEMMA CrashHeard ==
    ASSUME Typed, Typed', Issued, Spoke, Stays, NEW z \in Zones, Crash(z)
    PROVE  Spoke'
<1> SUFFICES ASSUME NEW n \in Alive' PROVE Heard(n, body[n].zone)'
  BY DEF Spoke
<1>1. n \in Alive /\ n \in Bodies /\ body'[n] = body[n] /\ body[n].zone \in Zones /\ body[n].zone # z
  <2>1. n \in Bodies /\ body'[n].zone # NoZone
    BY DEF Alive
  <2>2. n \notin In(z) /\ body'[n] = body[n]
    BY <2>1 DEF Crash, NoBody
  <2> QED
    BY <2>1, <2>2 DEF In, Alive, Typed, BodiesOK, Objects
<1>2. Heard(n, body[n].zone)
  BY <1>1 DEF Spoke
<1>3. \A y \in Zones \ {z} : to_world'[y] = to_world[y] /\ to_zone'[y] = to_zone[y]
  BY DEF Crash, Typed, Links
<1>4. Spoken(to_world'[z]) = {}
  <2>1. to_world'[z] = <<>>
    BY DEF Crash, Typed, Links
  <2> QED
    BY <2>1 DEF Spoken
<1>5. \A e \in Ids : list.entry[e].server # z => list'.entry[e] = list.entry[e]
  BY DEF Crash, RemoveZone, Typed, Sound, Lists
<1>6. \A e : Apart(e) => Apart(e)'
  BY DEF Apart, Crash, Out
<1>7. Silent => Silent'
  <2> SUFFICES ASSUME Silent PROVE Silent'
    OBVIOUS
  <2>1. to_world' = [to_world EXCEPT ![z] = <<>>] /\ to_zone' = [to_zone EXCEPT ![z] = <<>>]
    BY DEF Crash
  <2> QED
    BY <2>1, SilentLinks
<1>8. \A e \in Ids : Named(to_zone'[body[n].zone], body'[n].id, e) =>
          /\ Named(to_zone[body[n].zone], body[n].id, e)
          /\ Known(e, body[n].zone) => Known(e, body[n].zone)'
  BY <1>1, <1>3, <1>5 DEF Known
<1>9. \A y \in Zones : Spoken(to_world'[y]) \subseteq Spoken(to_world[y])
  BY <1>3, <1>4
<1> QED
  BY <1>1, <1>2, <1>6, <1>7, <1>8, <1>9, HeardKept

\* The character has one client.
One == \A n, k \in Alive : n = k

\* An entry made again for a client that is in the zone.
LEMMA RecreateHere ==
    ASSUME NEW l, Sound(l), l.next <= MaxLogins, NEW z \in Zones
    PROVE  Recreate(l, z, 0).entry[l.next].server = z /\ Recreate(l, z, 0).entry[l.next].online = InZone
<1> DEFINE f == NewEntry(l, FALSE)
<1>1. Recreate(l, z, 0) = Update(f, l.next, z, InZone)
  BY DEF Recreate, NewStatuses, InZone, Zoning
<1>2. Sound(f) /\ f.next = l.next + 1 /\ l.next \in Ids /\ l.next < f.next
  <2>1. l.next \in 1 .. MaxLogins + 1
    BY DEF Sound, Lists
  <2>2. Sound(f) /\ f.next = l.next + 1
    BY NewEntrySound
  <2> HIDE DEF f
  <2> QED
    BY <2>1, <2>2, IdsFinite DEF Ids
<1> HIDE DEF f
<1>3. Has(f, l.next)
  BY <1>2 DEF Has
<1>4. InZone \in Levels /\ ~(InZone < Zoning) /\ \A old : Raised(old, InZone) = InZone
  BY DEF Levels, Never, InZone, Zoning, Raised, Online
<1>5. Update(f, l.next, z, InZone).entry[l.next].server = z
      /\ Update(f, l.next, z, InZone).entry[l.next].online = InZone
  BY <1>2, <1>3, <1>4, UpdateSound
<1> QED
  BY <1>1, <1>5

\* What the zone says of a client that plays puts its entry in the zone, or a new one that
\* the client is told.
LEMMA ClientUpdateHeard ==
    ASSUME Typed, Typed', Issued, Spoke, NEW z \in Zones, ClientUpdate(z)
    PROVE  Spoke'
<1> SUFFICES ASSUME NEW n \in Alive' PROVE Heard(n, body[n].zone)'
  BY DEF Spoke
<1> DEFINE m == Head(to_world[z])
<1>1. /\ body' = body /\ player' = player /\ to_world[z] # <<>> /\ m.type = "ClientList"
      /\ to_world' = [to_world EXCEPT ![z] = Tail(@)] /\ Took(z)
  BY DEF ClientUpdate, FromZone, Took
<1>2. n \in Alive /\ n \in Bodies /\ body'[n] = body[n] /\ body[n].zone \in Zones
  BY <1>1 DEF Alive, Typed, BodiesOK, Objects
<1>3. Heard(n, body[n].zone)
  BY <1>2 DEF Spoke
<1>4. m \in Messages /\ m.id \in Ids /\ m.remove \in 0 .. 2 /\ to_world[z] \in Seq(Messages)
  <2>1. m \in Messages
    BY <1>1, TookTyped
  <2> QED
    BY <1>1, <2>1, MessageTyped DEF Typed, Links
<1>5. /\ m \in Spoken(to_world[z]) /\ Spoken(Tail(to_world[z])) \subseteq Spoken(to_world[z])
      /\ Spoken(to_world[z]) \subseteq Spoken(Tail(to_world[z])) \cup {m}
  BY <1>1, <1>4, SpokenHeard
<1>6. \A y \in Zones : to_world'[y] = IF y = z THEN Tail(to_world[z]) ELSE to_world[y]
  BY <1>1 DEF Typed, Links
<1>7. body[n].zone = z
  BY <1>2, <1>3, <1>5 DEF Heard
<1>8. ~Silent
  BY <1>1, SilentHeads
<1>9. body[n].state = "playing" => m.remove = 0
  BY <1>3, <1>5, <1>7 DEF Heard
<1>10. Sound(list)
  BY DEF Typed
<1>11. InZone \in Levels /\ ~(InZone < Zoning) /\ \A old : Raised(old, InZone) = InZone
  BY DEF Levels, Never, InZone, Zoning, Raised, Online
<1>12. ASSUME body[n].state = "playing", NEW e \in Ids, Named(to_zone'[z], body'[n].id, e)
       PROVE  \/ Known(e, z)' /\ Apart(e)'
              \/ /\ Named(to_zone[z], body[n].id, e)
                 /\ Known(e, z) /\ Apart(e) => Known(e, z)' /\ Apart(e)'
  <2>1. CASE list.entry[m.id].listed
    <3>1. list' = Update(list, m.id, z, InZone) /\ to_zone' = to_zone
      BY <1>9, <1>12, <2>1 DEF ClientUpdate
    <3>2. Has(list, m.id)
      <4>1. list.entry[m.id] # NoEntry
        BY <2>1 DEF NoEntry
      <4> QED
        BY <1>4, <1>10, <4>1, MadeBefore
    <3>3. /\ list'.entry[m.id].server = z /\ list'.entry[m.id].online = InZone
          /\ \A j \in Ids \ {m.id} : list'.entry[j] = list.entry[j]
      BY <1>4, <1>10, <1>11, <3>1, <3>2, UpdateSound
    <3>4. Named(to_zone[z], body[n].id, e)
      BY <1>2, <1>12, <3>1
    <3>5. Apart(e) => Apart(e)'
      BY <1>1 DEF Apart
    <3>6. CASE e = m.id
      BY <3>3, <3>4, <3>5, <3>6 DEF Known
    <3>7. CASE e # m.id
      <4>1. \A x \in Spoken(to_world[z]) : x.id = e => x \in Spoken(to_world'[z])
        BY <1>5, <1>6, <3>7
      <4>2. list'.entry[e] = list.entry[e]
        BY <3>3, <3>7
      <4>3. Known(e, z) => Known(e, z)'
        BY <4>1, <4>2 DEF Known
      <4> QED
        BY <3>4, <3>5, <4>3
    <3> QED
      BY <3>6, <3>7
  <2>2. CASE ~list.entry[m.id].listed
    <3> DEFINE w == [type |-> "ChangeWID", id |-> list.next]
    <3>1. /\ list.next <= MaxLogins /\ list' = Recreate(list, z, 0)
          /\ to_zone' = [y \in Zones |-> Append(to_zone[y], w)]
      BY <1>9, <1>12, <2>2 DEF ClientUpdate
    <3>2. list'.entry[list.next].server = z /\ list'.entry[list.next].online = InZone
      BY <1>10, <3>1, RecreateHere
    <3>3. list.next \in Ids
      BY <1>10, <3>1, IdsFinite DEF Sound, Lists, Ids
    <3>4. w \in Messages /\ w.type = "ChangeWID" /\ w.id = list.next
      BY <3>3, SaidTyped
    <3>5. to_zone'[z] = Append(to_zone[z], w) /\ to_zone[z] \in Seq(Messages)
      BY <3>1 DEF Typed, Links
    <3> HIDE DEF w
    <3>6. e = list.next
      <4>1. Named(Append(to_zone[z], w), body'[n].id, e)
        BY <1>12, <3>5
      <4> QED
        BY <3>4, <3>5, <4>1, NamedSaid
    <3>7. Known(e, z)'
      BY <3>2, <3>6 DEF Known
    <3>8. Apart(e)'
      <4>1. CASE player.at = "out"
        BY <1>1, <4>1 DEF Apart
      <4>2. CASE player.at # "out"
        <5>1. player.id < list.next
          BY <4>2, PlayerHas DEF Has
        <5>2. player.id # list.next
          BY <3>3, <5>1, IdsFinite DEF Ids
        <5> QED
          BY <1>1, <3>6, <5>2 DEF Apart
      <4> QED
        BY <4>1, <4>2
    <3> QED
      BY <3>7, <3>8
  <2> QED
    BY <2>1, <2>2
<1>13. \A e \in Ids : Named(to_zone'[body[n].zone], body'[n].id, e) /\ body[n].state = "playing" =>
          \/ Known(e, body[n].zone)' /\ Apart(e)'
          \/ /\ Named(to_zone[body[n].zone], body[n].id, e)
             /\ Known(e, body[n].zone) /\ Apart(e) => Known(e, body[n].zone)' /\ Apart(e)'
  BY <1>1, <1>2, <1>7, <1>12 DEF Known
<1>14. \A y \in Zones : Spoken(to_world'[y]) \subseteq Spoken(to_world[y])
  BY <1>5, <1>6
<1> HIDE DEF m
<1> QED
  BY <1>2, <1>3, <1>8, <1>13, <1>14, HeardKept

\* Requests to zone and their answers name no entry.
LEMMA RouteHeard ==
    ASSUME Typed, Typed', Issued, Spoke, Stays, NEW z \in Zones, RouteZoneToZone(z)
    PROVE  Spoke'
<1> DEFINE m == Head(to_world[z])
           yes == ZoneToZone(z, m.to, 1)
           no == ZoneToZone(z, m.to, 0)
<1>1. m \in Messages /\ m.from \in Zones /\ m.to \in Zones /\ m.type = "ZoneToZoneRequest"
  BY TookTyped, MessageTyped DEF RouteZoneToZone, FromZone
<1>2. /\ yes \in Messages /\ no \in Messages
      /\ yes.type # "ChangeWID" /\ no.type # "ChangeWID" /\ m.type # "ChangeWID"
  BY <1>1, SaidTyped DEF ZoneToZone
<1>3. \/ to_zone' = Say(to_zone, m.from, m)
      \/ to_zone' = Say(Say(to_zone, z, yes), m.to, yes)
      \/ to_zone' = Say(to_zone, z, no)
  BY DEF RouteZoneToZone
<1>4. list' = list /\ body' = body /\ player' = player /\ FromZone(z, "ZoneToZoneRequest") /\ Took(z)
  BY DEF RouteZoneToZone
<1> HIDE DEF yes, no, m
<1>5. to_zone \in Links /\ Say(to_zone, z, yes) \in Links
  BY <1>2, SayTyped DEF Typed
<1>6. ASSUME NEW y \in Zones, NEW id, NEW e, Named(to_zone'[y], id, e) PROVE Named(to_zone[y], id, e)
  <2>1. CASE to_zone' = Say(to_zone, m.from, m)
    <3>1. Named(Say(to_zone, m.from, m)[y], id, e)
      BY <1>6, <2>1
    <3> QED
      BY <1>1, <1>2, <1>5, <3>1, SayNamed
  <2>2. CASE to_zone' = Say(Say(to_zone, z, yes), m.to, yes)
    <3>1. Named(Say(Say(to_zone, z, yes), m.to, yes)[y], id, e)
      BY <1>6, <2>2
    <3>2. Named(Say(to_zone, z, yes)[y], id, e)
      BY <1>1, <1>2, <1>5, <3>1, SayNamed
    <3> QED
      BY <1>2, <1>5, <3>2, SayNamed
  <2>3. CASE to_zone' = Say(to_zone, z, no)
    <3>1. Named(Say(to_zone, z, no)[y], id, e)
      BY <1>6, <2>3
    <3> QED
      BY <1>2, <1>5, <3>1, SayNamed
  <2> QED
    BY <1>3, <2>1, <2>2, <2>3
<1>7. \A y \in Zones : Spoken(to_world'[y]) = Spoken(to_world[y])
  BY <1>4, HeardSteady
<1>8. Steady
  BY <1>4, <1>6, <1>7 DEF Steady, Apart
<1>9. ~Silent
  BY <1>4, SilentHeads DEF FromZone
<1> QED
  BY <1>4, <1>8, <1>9, SteadyHeard

\* A zone hears something and answers with something that names no entry.
LEMMA AnswerHeard ==
    ASSUME Typed, Typed', Issued, Spoke, Stays, NEW z \in Zones,
           AcceptWorldEntrance(z) \/ ZoneChangeRequest(z)
    PROVE  Spoke'
<1>1. list' = list /\ body' = body /\ player' = player
  BY DEF AcceptWorldEntrance, ZoneChangeRequest, world
<1>2. \A y \in Zones : \A id, e : Named(to_zone'[y], id, e) => Named(to_zone[y], id, e)
  BY HeardSteady DEF AcceptWorldEntrance, ZoneChangeRequest
<1>3. \E m \in Messages : m.type # "ClientList" /\ to_world' = Say(to_world, z, m)
  <2>1. CASE AcceptWorldEntrance(z)
    <3>1. PICK r \in {1} \cup (IF MayRefuse[prompt] THEN {-1} ELSE {}) : to_world' = Say(to_world, z, AcceptEntrance(r))
      BY <2>1 DEF AcceptWorldEntrance
    <3>2. r \in {-1, 0, 1}
      OBVIOUS
    <3>3. AcceptEntrance(r) \in Messages /\ AcceptEntrance(r).type # "ClientList"
      BY <3>2, SaidTyped DEF AcceptEntrance
    <3> QED
      BY <3>1, <3>3
  <2>2. CASE ZoneChangeRequest(z)
    <3> DEFINE h == Head(to_zone[z])
    <3>1. h \in Messages /\ h.type = "ZoneToZoneRequest"
      BY <2>2, TookTyped DEF ZoneChangeRequest, ToZone
    <3>2. PICK r \in {1} \cup (IF MayRefuse[prompt] THEN {-1} ELSE {}) : to_world' = Say(to_world, z, [h EXCEPT !.response = r])
      BY <2>2 DEF ZoneChangeRequest
    <3>3. r \in {-1, 0, 1}
      OBVIOUS
    <3> HIDE DEF h
    <3>4. [h EXCEPT !.response = r] \in Messages
      BY <3>1, <3>3, MessageTyped
    <3>5. [h EXCEPT !.response = r].type # "ClientList"
      BY <3>1 DEF Messages
    <3> QED
      BY <3>2, <3>4, <3>5
  <2> QED
    BY <2>1, <2>2
<1>4. \A y \in Zones : Spoken(to_world'[y]) = Spoken(to_world[y])
  <2>1. to_world \in Links
    BY DEF Typed
  <2> QED
    BY <1>3, <2>1, SaySpoken
<1>5. Steady
  BY <1>1, <1>2, <1>4 DEF Steady, Apart
<1>6. Silent => Silent'
  <2> SUFFICES ASSUME Silent PROVE Silent'
    OBVIOUS
  <2>1. CASE AcceptWorldEntrance(z)
    <3>1. to_zone[z] # <<>> /\ Got(z)
      BY <2>1 DEF AcceptWorldEntrance, ToZone
    <3>2. \E r \in {-1, 0, 1} : to_world' = Say(to_world, z, AcceptEntrance(r))
      BY <2>1 DEF AcceptWorldEntrance
    <3> QED
      BY <3>1, <3>2, SilentLinks
  <2>2. CASE ZoneChangeRequest(z)
    BY <2>2, SilentHeads DEF ZoneChangeRequest, ToZone
  <2> QED
    BY <2>1, <2>2
<1> QED
  BY <1>1, <1>5, <1>6, SteadyHeard

\* An order to drop a client.
LEMMA OrderHeard ==
    ASSUME Typed, Typed', Issued, Spoke, Stays, NEW z \in Zones, IncClient(z) \/ DropClient(z)
    PROVE  Spoke'
<1>1. PICK g \in Found(z) : Kick(g)
  BY DEF IncClient, DropClient
<1>2. list' = list /\ to_world' = to_world /\ made' = made /\ to_zone[z] # <<>> /\ Got(z)
  BY DEF IncClient, DropClient, bounds, ToZone
<1>3. \A y \in Zones : \A id, e : Named(to_zone'[y], id, e) => Named(to_zone[y], id, e)
  BY HeardSteady DEF IncClient, DropClient
<1>4. \A n \in Bodies : body'[n] = body[n] \/ body'[n].state = "leaving"
  <2>1. /\ \A k \in Bodies \ {g} : body'[k] = body[k]
        /\ g # 0 => body'[g].state = "leaving"
        /\ g = 0 => body' = body
    BY <1>1, <1>2, Kicked
  <2> QED
    BY <2>1
<1>5. \A e : Apart(e) => Apart(e)'
  <2>1. player' \in {player, Out}
    BY <1>1, <1>2, Kicked
  <2> QED
    BY <2>1 DEF Apart, Out
<1>6. Steady
  BY <1>2, <1>3, <1>5 DEF Steady
<1>7. Silent => Silent'
  BY <1>2, SilentLinks
<1>8. \A n \in Alive' : n \in Bodies
  BY DEF Alive
<1> QED
  BY <1>4, <1>6, <1>7, <1>8, SteadyHeard

\* The id of a new entry reaches the client of the zone, whoever that is.
LEMMA ChangeWIDHeard ==
    ASSUME Typed, Typed', Issued, Spoke, One, Stays, NEW z \in Zones, ChangeWID(z)
    PROVE  Spoke'
<1> SUFFICES ASSUME NEW n \in Alive' PROVE Heard(n, body[n].zone)'
  BY DEF Spoke
<1> DEFINE s == to_zone[z]
           id == Head(s).id
<1>1. n \in Alive /\ n \in Bodies /\ body'[n].zone = body[n].zone /\ body[n].zone \in Zones /\ n # 0
  BY DEF Stays, Alive, Typed, BodiesOK, Objects, Bodies
<1>2. Heard(n, body[n].zone)
  BY <1>1 DEF Spoke
<1>3. list' = list /\ player' = player /\ to_world' = to_world /\ s # <<>> /\ Head(s).type = "ChangeWID"
  BY DEF ChangeWID, world, ToZone
<1>4. s \in Seq(Messages) /\ \A y \in Zones : to_zone'[y] = IF y = z THEN Tail(s) ELSE to_zone[y]
  BY DEF ChangeWID, Got, Typed, Links
<1>5. ~Silent
  BY <1>3, SilentHeads
<1>6. PICK g \in Found(z) : body' = IF g = 0 THEN body ELSE [body EXCEPT ![g].id = id]
  BY DEF ChangeWID
<1>7. g # 0 => g \in Bodies /\ body[g].zone = z /\ g \in Alive /\ g = n
  <2> SUFFICES ASSUME g # 0 PROVE g \in Bodies /\ body[g].zone = z /\ g \in Alive /\ g = n
    OBVIOUS
  <2>1. g \in Bodies /\ body[g].zone = z /\ z # NoZone
    BY FoundHere
  <2> QED
    BY <1>1, <2>1 DEF Alive, One
<1> HIDE DEF id, s
<1>8. body'[n].state = body[n].state /\ body'[n].id = IF g = 0 THEN body[n].id ELSE id
  BY <1>1, <1>6, <1>7 DEF Typed, BodiesOK, Objects
<1>9. g = 0 => body[n].zone # z
  <2> SUFFICES ASSUME g = 0 PROVE n \notin In(z)
    BY <1>1 DEF In
  <2> QED
    BY FoundHere
<1>10. \A e \in Ids : Named(to_zone'[body[n].zone], body'[n].id, e) => Named(to_zone[body[n].zone], body[n].id, e)
  <2> SUFFICES ASSUME NEW e \in Ids, Named(to_zone'[body[n].zone], body'[n].id, e)
               PROVE  Named(to_zone[body[n].zone], body[n].id, e)
    OBVIOUS
  <2>1. CASE g = 0
    BY <1>1, <1>4, <1>8, <1>9, <2>1
  <2>2. CASE g # 0
    <3>1. Named(Tail(s), Head(s).id, e)
      BY <1>1, <1>4, <1>7, <1>8, <2>2 DEF id
    <3>2. Named(s, body[n].id, e)
      BY <1>3, <1>4, <3>1, NamedHeard
    <3> QED
      BY <1>7, <2>2, <3>2 DEF s
  <2> QED
    BY <2>1, <2>2
<1>11. \A e \in Ids : Known(e, body[n].zone) /\ Apart(e) => Known(e, body[n].zone)' /\ Apart(e)'
  BY <1>1, <1>3 DEF Known, Apart
<1> QED
  BY <1>1, <1>2, <1>3, <1>5, <1>8, <1>10, <1>11, HeardKept

\* The answer to a request to zone sends the client away, or leaves it.
LEMMA ReplyHeard ==
    ASSUME Typed, Typed', Issued, Spoke, One, Stays, NEW z \in Zones, ZoneChangeReply(z)
    PROVE  Spoke'
<1> DEFINE m == Head(to_zone[z])
           allowed == m.response > 0
           dest == IF allowed THEN m.to ELSE z
<1>1. list' = list /\ to_zone[z] # <<>> /\ m.type = "ZoneToZoneRequest"
  BY DEF ZoneChangeReply, ToZone
<1>2. PICK g \in Found(z) :
          IF g = 0 THEN UNCHANGED <<body, db, to_world, player>>
          ELSE /\ body' = [body EXCEPT ![g].dest = dest,
                              ![g].state = IF allowed /\ body[g].state = "playing" THEN "told" ELSE @]
               /\ to_world' = IF allowed THEN Say(to_world, z, Who(g, 1)) ELSE to_world
               /\ ~allowed => player' = player
  BY DEF ZoneChangeReply
<1>3. \A y \in Zones : \A id, e : Named(to_zone'[y], id, e) => Named(to_zone[y], id, e)
  BY HeardSteady DEF ZoneChangeReply
<1>4. ~Silent
  BY <1>1, SilentHeads
<1>5. \A n \in Alive' : n \in Bodies /\ n \in Alive /\ body'[n].zone = body[n].zone
  BY DEF Stays, Alive
<1>6. g # 0 => g \in Bodies /\ body[g].zone = z /\ g \in Alive
  <2> SUFFICES ASSUME g # 0 PROVE g \in Bodies /\ body[g].zone = z /\ g \in Alive
    OBVIOUS
  <2>1. g \in Bodies /\ body[g].zone = z /\ z # NoZone
    BY FoundHere
  <2> QED
    BY <2>1 DEF Alive
<1> HIDE DEF dest, allowed, m
<1>7. CASE g = 0 \/ ~allowed
  <2>1. player' = player /\ to_world' = to_world
    BY <1>2, <1>7
  <2>2. \A n \in Bodies : body'[n].state = body[n].state /\ body'[n].id = body[n].id
    BY <1>2, <1>6, <1>7 DEF Typed, BodiesOK, Objects
  <2>3. Steady
    BY <1>1, <1>3, <2>1 DEF Steady, Apart
  <2> QED
    BY <1>4, <1>5, <2>2, <2>3, SteadyHeard
<1>8. CASE g # 0 /\ allowed
  <2>1. \A n \in Alive' : n = g
    BY <1>5, <1>6, <1>8 DEF One
  <2>2. body[g].state # "connecting"
    <3>1. Heard(g, body[g].zone)
      BY <1>6, <1>8 DEF Spoke
    <3> QED
      BY <1>4, <3>1 DEF Heard
  <2>3. body'[g].state \notin {"connecting", "playing"}
    <3>1. body'[g].state = IF body[g].state = "playing" THEN "told" ELSE body[g].state
      <4>1. g \in Bodies /\ body \in [Bodies -> Objects]
        BY <1>6, <1>8 DEF Typed, BodiesOK
      <4> QED
        BY <1>2, <1>8, <4>1 DEF Objects
    <3> QED
      BY <2>2, <3>1
  <2>4. \A y \in Zones : y = body[g].zone \/ Spoken(to_world'[y]) \subseteq Spoken(to_world[y])
    <3>1. Who(g, 1) \in Messages
      <4>1. body[g].id \in Ids
        BY <1>6, <1>8 DEF Typed, BodiesOK, Good, NoBody, Alive
      <4> QED
        BY <1>6, <1>8, <4>1, SaidTyped
    <3>2. to_world' = Say(to_world, z, Who(g, 1)) /\ to_world \in Links
      BY <1>2, <1>8 DEF Typed
    <3> QED
      BY <1>6, <1>8, <3>1, <3>2, SaySpoken
  <2> QED
    BY <2>1, <2>3, <2>4, GoneHeard
<1> QED
  BY <1>7, <1>8

\* Whoever comes into a zone on prompt links comes when everything has been said.
LEMMA ArrivalHeard ==
    ASSUME Typed, Typed', Ghosts, prompt, NEW z \in Zones, ZoneEntry(z)
    PROVE  Spoke'
<1>1. PICK g \in Found(z) : Comes(z, g)
  BY ZoneEntryTyped
<1>2. Settled /\ to_world' = to_world /\ to_zone' = to_zone
  BY DEF ZoneEntry
<1>3. Alive = {}
  <2> SUFFICES ASSUME NEW n \in Alive PROVE FALSE
    OBVIOUS
  <2>1. Doomed(n)
    BY DEF ZoneEntry, Ghosts, AllDoomed
  <2>2. n \in Bodies /\ body[n].zone \in Zones
    BY DEF Alive, Typed, BodiesOK, Objects
  <2>3. to_zone[body[n].zone] = <<>> /\ body[n].state # "leaving"
    BY <1>2, <2>2 DEF Settled, Quiet
  <2>4. ~Orders(<<>>)
    BY DEF Orders
  <2> QED
    BY <2>1, <2>3, <2>4 DEF Doomed
<1>4. g = 0
  BY <1>1, <1>3, FoundHere DEF Alive
<1>5. \A n \in Alive' : body'[n].state = "connecting"
  <2> SUFFICES ASSUME NEW n \in Alive' PROVE body'[n].state = "connecting"
    OBVIOUS
  <2>1. n \in Bodies /\ body'[n].zone # NoZone /\ n # 0
    BY DEF Alive, Bodies
  <2>2. body'[n] # body[n]
    BY <1>3, <2>1 DEF Alive
  <2> QED
    BY <1>1, <1>4, <2>1, <2>2 DEF Comes
<1>6. \A y \in Zones : to_world'[y] = <<>> /\ to_zone'[y] = <<>>
  BY <1>2 DEF Settled, Quiet
<1>7. Spoken(<<>>) = {} /\ \A types : Only(<<>>, types)
  BY DEF Spoken, Only
<1>8. Silent'
  BY <1>6, <1>7 DEF Silent
<1>9. \A y \in Zones : Spoken(to_world'[y]) = {}
  BY <1>6, <1>7
<1> SUFFICES ASSUME NEW n \in Alive' PROVE Heard(n, body[n].zone)'
  BY DEF Spoke
<1> QED
  BY <1>5, <1>8, <1>9 DEF Heard

\* A client that is connected is the only one, and its entry is what the zone says first.
LEMMA ConnectHeard ==
    ASSUME Typed, Typed', Spoke, Seated, One, Stays, NEW n \in Bodies, CompleteConnect(n)
    PROVE  Spoke'
<1> DEFINE z == body[n].zone
           w == Who(n, 0)
<1>1. player.body = n /\ body[n].state = "connecting" /\ to_zone' = to_zone /\ player' = player /\ list' = list
      /\ body' = [body EXCEPT ![n].state = "playing", ![n].loaded = TRUE] /\ to_world' = Say(to_world, z, w)
  BY DEF CompleteConnect, world
<1>2. z \in Zones /\ body[n].id \in Ids
  BY <1>1, Present
<1>3. n \in Alive /\ n # 0
  BY <1>2, HandoffAssumption DEF Alive, Bodies
<1>4. w \in Messages /\ w.type = "ClientList" /\ w.id = body[n].id /\ w.remove = 0
  <2>1. w \in Messages
    BY <1>2, SaidTyped
  <2> QED
    BY <2>1 DEF Who
<1>5. Silent /\ \A y \in Zones \ {z} : Spoken(to_world[y]) = {}
  BY <1>1, <1>3 DEF Spoke, Heard
<1>6. to_world \in Links
  BY DEF Typed
<1>7. body'[n].state = "playing" /\ body'[n].zone = z /\ body'[n].id = body[n].id
  BY <1>1 DEF Typed, BodiesOK, Objects
<1> HIDE DEF w
<1>8. Spoken(to_world[z]) = {}
  BY <1>2, <1>5 DEF Silent, Only, Spoken
<1>9. Spoken(to_world'[z]) = {w}
  BY <1>1, <1>2, <1>4, <1>6, <1>8, SaySpoken
<1>10. \A y \in Zones \ {z} : Spoken(to_world'[y]) = {}
  BY <1>1, <1>2, <1>4, <1>5, <1>6, SaySpoken
<1>11. ASSUME NEW e \in Ids, Named(to_zone'[z], body'[n].id, e) PROVE Known(e, z)' /\ Apart(e)'
  <2>1. Only(to_zone[z], {"IncClient", "DropClient", "AcceptWorldEntrance"})
    BY <1>2, <1>5 DEF Silent
  <2>2. e = body[n].id
    BY <1>1, <1>7, <1>11, <2>1 DEF Named, Only
  <2>3. Known(e, z)'
    BY <1>4, <1>7, <1>9, <2>2 DEF Known
  <2>4. Apart(e)'
    BY <1>1, <1>3 DEF Apart, Seated
  <2> QED
    BY <2>3, <2>4
<1>12. Heard(n, z)'
  <2>1. \A y \in Zones \ {z'} : Spoken(to_world'[y]) = {}
    BY <1>7, <1>10
  <2>2. \A m \in Spoken(to_world'[z']) : m.remove = 0
    BY <1>4, <1>7, <1>9
  <2>3. \A e \in Ids : Named(to_zone'[z'], body'[n].id, e) => Known(e, z)' /\ Apart(e)'
    BY <1>7, <1>11
  <2> QED
    BY <1>7, <2>1, <2>2, <2>3 DEF Heard
<1>13. \A k \in Alive' : k = n
  BY <1>3 DEF Stays, One
<1> QED
  BY <1>12, <1>13 DEF Spoke

\* A client that plays is listed again.
LEMMA UpdateWhoHeard ==
    ASSUME Typed, Typed', Spoke, One, Stays, NEW n \in Bodies, UpdateWho(n)
    PROVE  Spoke'
<1> DEFINE z == body[n].zone
           w == Who(n, 0)
<1>1. body[n].state = "playing" /\ to_zone' = to_zone /\ player' = player /\ list' = list /\ body' = body
      /\ to_world' = Say(to_world, z, w)
  BY DEF UpdateWho, Plays, world
<1>2. z \in Zones /\ body[n].id \in Ids
  BY <1>1, Present
<1>3. n \in Alive
  BY <1>2, HandoffAssumption DEF Alive
<1>4. w \in Messages /\ w.type = "ClientList" /\ w.remove = 0
  <2>1. w \in Messages
    BY <1>2, SaidTyped
  <2> QED
    BY <2>1 DEF Who
<1>5. /\ \A y \in Zones \ {z} : Spoken(to_world[y]) = {}
      /\ \A m \in Spoken(to_world[z]) : m.remove = 0
      /\ \A e \in Ids : Named(to_zone[z], body[n].id, e) => Known(e, z) /\ Apart(e)
  BY <1>1, <1>3 DEF Spoke, Heard
<1>6. to_world \in Links
  BY DEF Typed
<1> HIDE DEF w
<1>7. Spoken(to_world'[z]) = Spoken(to_world[z]) \cup {w}
  <2> HIDE DEF z
  <2> QED
    BY <1>1, <1>2, <1>4, <1>6, SaySpoken
<1>8. \A y \in Zones \ {z} : Spoken(to_world'[y]) = {}
  BY <1>1, <1>2, <1>4, <1>5, <1>6, SaySpoken
<1>9. \A e \in Ids : Known(e, z) /\ Apart(e) => Known(e, z)' /\ Apart(e)'
  BY <1>1, <1>7 DEF Known, Apart
<1>10. Heard(n, z)'
  <2>1. \A y \in Zones \ {z'} : Spoken(to_world'[y]) = {}
    BY <1>1, <1>8
  <2>2. \A m \in Spoken(to_world'[z']) : m.remove = 0
    BY <1>1, <1>4, <1>5, <1>7
  <2>3. \A e \in Ids : Named(to_zone'[z'], body'[n].id, e) => Known(e, z)' /\ Apart(e)'
    BY <1>1, <1>5, <1>9
  <2> QED
    BY <1>1, <2>1, <2>2, <2>3 DEF Heard
<1>11. \A k \in Alive' : k = n
  BY <1>3 DEF Stays, One
<1> QED
  BY <1>10, <1>11 DEF Spoke

\* A client asks to zone.
LEMMA DoZoneHeard ==
    ASSUME Typed, Typed', Issued, Spoke, One, Stays, NEW n \in Bodies, NEW to \in Zones, DoZoneSuccess(n, to)
    PROVE  Spoke'
<1> DEFINE z == body[n].zone
           m == ZoneToZone(z, to, 0)
<1>1. body[n].state = "playing" /\ to_zone' = to_zone /\ player' = player /\ list' = list
      /\ body' = [body EXCEPT ![n].dest = to] /\ to_world' = Say(to_world, z, m)
  BY DEF DoZoneSuccess, Plays, world
<1>2. z \in Zones /\ m \in Messages /\ m.type # "ClientList"
  BY <1>1, Present, SaidTyped DEF ZoneToZone
<1>3. n \in Alive
  BY <1>2, HandoffAssumption DEF Alive
<1>4. \A k \in Bodies : body'[k].state = body[k].state /\ body'[k].id = body[k].id
  BY <1>1 DEF Typed, BodiesOK, Objects
<1> HIDE DEF m, z
<1>5. \A y \in Zones : Spoken(to_world'[y]) = Spoken(to_world[y])
  <2>1. to_world \in Links
    BY DEF Typed
  <2> QED
    BY <1>1, <1>2, <2>1, SaySpoken
<1>6. Steady
  BY <1>1, <1>5 DEF Steady, Apart
<1>7. \A k \in Alive' : k \in Bodies /\ k = n
  BY <1>3 DEF Stays, One, Alive
<1> QED
  BY <1>1, <1>4, <1>6, <1>7, SteadyHeard

\* A client plays, is saved or loses its line: nothing is said.
LEMMA QuietHeard ==
    ASSUME Typed, Typed', Issued, Spoke, Stays,
           \/ \E n \in Bodies : Play(n) \/ Save(n) \/ LinkDead(n)
           \/ UNCHANGED vars
    PROVE  Spoke'
<1>1. list' = list /\ player' = player /\ to_zone' = to_zone /\ to_world' = to_world
  BY DEF Play, Save, LinkDead, world, vars
<1>2. \A k \in Bodies : body'[k].state \in {body[k].state, "linkdead"} /\ body'[k].id = body[k].id
  <2>1. body \in [Bodies -> Objects]
    BY DEF Typed, BodiesOK
  <2>2. CASE \E n \in Bodies : Play(n)
    BY <2>1, <2>2 DEF Play, Objects
  <2>3. CASE \E n \in Bodies : LinkDead(n)
    BY <2>1, <2>3 DEF LinkDead, Objects
  <2>4. CASE body' = body
    BY <2>4
  <2> QED
    BY <2>2, <2>3, <2>4 DEF Save, vars
<1>3. Steady
  BY <1>1 DEF Steady, Apart
<1>4. Silent => Silent'
  BY <1>1 DEF Silent
<1>5. \A k \in Alive' : k \in Bodies
  BY DEF Alive
<1> QED
  BY <1>2, <1>3, <1>4, <1>5, SteadyHeard

\* A client goes.
LEMMA GoesHeard ==
    ASSUME Typed, Typed', Spoke, One, Stays, NEW n \in Bodies, Leave(n) \/ Destroy(n)
    PROVE  Spoke'
<1>1. n \in Alive
  <2>1. body[n].state # "none"
    BY DEF Leave, Destroy, Plays
  <2> QED
    BY <2>1, Present, HandoffAssumption DEF Alive
<1>2. \A k \in Alive' : k = n
  BY <1>1 DEF Stays, One
<1>3. CASE Leave(n)
  <2>1. body'[n].state = "leaving" /\ to_world' = to_world
    BY <1>3 DEF Leave, Typed, BodiesOK, Objects
  <2> QED
    BY <1>2, <2>1, GoneHeard
<1>4. CASE Destroy(n)
  <2>1. body'[n].zone = NoZone
    BY <1>4 DEF Destroy, Typed, BodiesOK, NoBody
  <2>2. Alive' = {}
    BY <1>2, <2>1 DEF Alive
  <2> QED
    BY <2>2 DEF Spoke
<1> QED
  BY <1>3, <1>4

\* Whoever has a client is in a zone.
LEMMA NextSeated == ASSUME Typed, Seated, Next PROVE Seated'
<1>1. player \in Players /\ Out.body = 0
  BY DEF Typed, PlayerOK, Out
<1>2. SUFFICES player' = player \/ player'.body = 0 \/ player'.at = "inzone"
  BY DEF Seated
<1>3. CASE CLEAdd \/ HandleSendLoginInfoPacket \/ EnterWorld \/ Quit
  BY <1>1, <1>3 DEF CLEAdd, HandleSendLoginInfoPacket, EnterWorld, Quit, Out, Players, Seated
<1>4. CASE \E i \in Ids : CheckStale(i)
  BY <1>4 DEF CheckStale
<1>5. CASE \E z \in Zones : ClientUpdate(z) \/ Clearance(z) \/ RouteZoneToZone(z)
  BY <1>1, <1>5 DEF ClientUpdate, Clearance, RouteZoneToZone, Players, Seated
<1>6. CASE \E z \in Zones : IncClient(z) \/ DropClient(z)
  BY <1>1, <1>6 DEF IncClient, DropClient, Kick, WithoutBody
<1>7. CASE \E z \in Zones : AcceptWorldEntrance(z) \/ ChangeWID(z) \/ ZoneChangeRequest(z)
  BY <1>7 DEF AcceptWorldEntrance, ChangeWID, ZoneChangeRequest, world
<1>8. CASE \E z \in Zones : ZoneChangeReply(z)
  BY <1>1, <1>8 DEF ZoneChangeReply, Players
<1>9. CASE \E z \in Zones : ZoneEntry(z)
  BY <1>1, <1>9 DEF ZoneEntry, Players
<1>10. CASE \E z \in Zones : Crash(z)
  BY <1>1, <1>10 DEF Crash
<1>11. CASE \E n \in Bodies : CompleteConnect(n) \/ Play(n) \/ Save(n) \/ UpdateWho(n) \/ LinkDead(n) \/ Destroy(n)
  BY <1>11 DEF CompleteConnect, Play, Save, UpdateWho, LinkDead, Destroy, world
<1>12. CASE \E n \in Bodies : \E to \in Zones : DoZoneSuccess(n, to)
  BY <1>12 DEF DoZoneSuccess, world
<1>13. CASE \E n \in Bodies : Leave(n)
  BY <1>1, <1>13 DEF Leave, Players
<1> QED
  BY <1>3, <1>4, <1>5, <1>6, <1>7, <1>8, <1>9, <1>10, <1>11, <1>12, <1>13 DEF Next

\* On prompt links the list follows the client.
LEMMA NextHeard ==
    ASSUME Typed, Typed', Issued, Ghosts, One, Seated, Spoke, prompt, Next
    PROVE  Spoke'
<1>1. CASE CLEAdd \/ HandleSendLoginInfoPacket \/ Quit \/ \E z \in Zones : Clearance(z)
  BY <1>1, WorldThins, ThinsStays, WorldHeard
<1>2. CASE EnterWorld
  BY <1>2, EnterWorldHeard
<1>3. CASE \E i \in Ids : CheckStale(i)
  BY <1>3, CheckStaleHeard
<1>4. ASSUME NEW z \in Zones, ClientUpdate(z) \/ RouteZoneToZone(z) PROVE Spoke'
  BY <1>4, RouteThins, ThinsStays, ClientUpdateHeard, RouteHeard
<1>5. ASSUME NEW z \in Zones, IncClient(z) \/ DropClient(z) PROVE Spoke'
  BY <1>5, OrderThins, ThinsStays, OrderHeard
<1>6. ASSUME NEW z \in Zones, AcceptWorldEntrance(z) \/ ZoneChangeRequest(z) PROVE Spoke'
  BY <1>6, AnswerThins, ThinsStays, AnswerHeard
<1>7. ASSUME NEW z \in Zones, ChangeWID(z) PROVE Spoke'
  BY <1>7, ChangeWIDThins, ThinsStays, ChangeWIDHeard
<1>8. ASSUME NEW z \in Zones, ZoneChangeReply(z) PROVE Spoke'
  BY <1>8, ReplyThins, ThinsStays, ReplyHeard
<1>9. ASSUME NEW z \in Zones, ZoneEntry(z) PROVE Spoke'
  BY <1>9, ArrivalHeard
<1>10. ASSUME NEW z \in Zones, Crash(z) PROVE Spoke'
  BY <1>10, CrashThins, ThinsStays, CrashHeard
<1>11. ASSUME NEW n \in Bodies,
              \/ CompleteConnect(n) \/ Play(n) \/ Save(n) \/ UpdateWho(n)
              \/ \E to \in Zones : DoZoneSuccess(n, to)
              \/ Leave(n) \/ LinkDead(n) \/ Destroy(n)
       PROVE  Spoke'
  <2>1. Stays
    BY <1>11, ClientThins, ThinsStays
  <2>2. CASE CompleteConnect(n) \/ UpdateWho(n)
    BY <2>1, <2>2, ConnectHeard, UpdateWhoHeard
  <2>3. CASE Play(n) \/ Save(n) \/ LinkDead(n)
    BY <2>1, <2>3, QuietHeard
  <2>4. CASE \E to \in Zones : DoZoneSuccess(n, to)
    BY <2>1, <2>4, DoZoneHeard
  <2>5. CASE Leave(n) \/ Destroy(n)
    BY <2>1, <2>5, GoesHeard
  <2> QED
    BY <1>11, <2>2, <2>3, <2>4, <2>5
<1> QED
  BY <1>1, <1>2, <1>3, <1>4, <1>5, <1>6, <1>7, <1>8, <1>9, <1>10, <1>11 DEF Next

\* Every step keeps ListFollows.
LEMMA NextFollows ==
    ASSUME Typed, Typed', Issued, Ghosts, Alone, ListFollows, [Next]_vars
    PROVE  ListFollows'
<1>1. Seated /\ (prompt => Spoke)
  BY DEF ListFollows, Seated, Spoke
<1>2. CASE UNCHANGED vars
  <2>1. UNCHANGED <<list, player, body, to_zone, to_world, prompt>>
    BY <1>2 DEF vars
  <2>2. Seated'
    BY <1>1, <2>1 DEF Seated
  <2>3. Stays
    BY <2>1 DEF Stays, Alive
  <2>4. prompt' => Spoke'
    BY <1>1, <1>2, <2>1, <2>3, QuietHeard
  <2> QED
    BY <2>2, <2>4 DEF ListFollows, Seated, Spoke
<1>3. CASE Next
  <2>1. Seated'
    BY <1>1, <1>3, NextSeated
  <2>2. ASSUME prompt' PROVE Spoke'
    <3>1. prompt
      <4>1. prompt' = prompt
        BY <1>3 DEF Next, CLEAdd, HandleSendLoginInfoPacket, EnterWorld, Quit, CheckStale, ClientUpdate,
           Clearance, RouteZoneToZone, IncClient, DropClient, AcceptWorldEntrance, ChangeWID, ZoneChangeReply,
           ZoneChangeRequest, ZoneEntry, Crash, CompleteConnect, Play, Save, UpdateWho, DoZoneSuccess, Leave,
           LinkDead, Destroy, bounds
      <4> QED
        BY <2>2, <4>1
    <3>2. One
      BY <3>1 DEF Alone, One
    <3> QED
      BY <1>1, <1>3, <3>1, <3>2, NextHeard
  <2> QED
    BY <2>1, <2>2 DEF ListFollows, Seated, Spoke
<1> QED
  BY <1>2, <1>3

-------------------------------------------------------------------------------
(* The invariant. *)

\* The parts of Inductive, as the steps keep them.
IInv == Typed /\ Ghosts /\ Alone /\ Issued /\ ListFollows

\* The clients and their data.
LEMMA NextClients ==
    ASSUME Typed, Typed', Ghosts, Alone, [Next]_vars
    PROVE  Ghosts' /\ Alone' /\ (prompt => db'.data >= db.data)
<1>1. CASE Thins /\ OrdersKept
  BY <1>1, GhostsKept, AloneThin
<1>2. CASE EnterWorld
  <2>1. body' = body /\ db' = db /\ clock' = clock /\ prompt' = prompt
    BY <1>2 DEF EnterWorld, bounds
  <2>2. Alone'
    BY <2>1 DEF Alone, Alive
  <2>3. db'.data >= db.data
    BY <2>1 DEF Typed, Rows
  <2> QED
    BY <1>2, <2>2, <2>3, EnterWorldGhosts
<1>3. CASE \E z \in Zones : IncClient(z) \/ DropClient(z)
  <2>1. PICK z \in Zones : IncClient(z) \/ DropClient(z)
    BY <1>3
  <2> QED
    BY <2>1, OrderThins, OrderGhosts, AloneThin
<1>4. CASE \E z \in Zones : ZoneEntry(z)
  <2>1. PICK z \in Zones : ZoneEntry(z)
    BY <1>4
  <2> QED
    BY <2>1, ArrivalGhosts, ArrivalAlone
<1>5. CASE UNCHANGED vars
  <2>1. body' = body /\ db' = db /\ UNCHANGED bounds /\ player' = player /\ to_zone' = to_zone
    BY <1>5 DEF vars, bounds
  <2>2. Thins /\ OrdersKept
    BY <2>1, CalmThins DEF Way, OrdersKept
  <2> QED
    BY <1>1, <2>2
<1>6. CASE Next
  BY <1>1, <1>2, <1>3, <1>4, <1>6, WorldThins, ClientUpdateThins, RouteThins, AnswerThins,
     ChangeWIDThins, ReplyThins, CrashThins, ClientThins DEF Next
<1> QED
  BY <1>5, <1>6

\* Every step keeps the whole.
LEMMA NextKeeps ==
    ASSUME IInv, [Next]_vars
    PROVE  IInv' /\ (prompt => db'.data >= db.data)
<1>1. Typed'
  BY NextTyped DEF IInv
<1>2. Ghosts' /\ Alone' /\ (prompt => db'.data >= db.data)
  BY <1>1, NextClients DEF IInv
<1>3. Issued'
  BY NextIssued DEF IInv
<1>4. ListFollows'
  BY <1>1, NextFollows DEF IInv
<1> QED
  BY <1>1, <1>2, <1>3, <1>4 DEF IInv

\* The parts of the invariant, as the module states it.
LEMMA IInvIs == IInv <=> Inductive
BY Parts DEF IInv, Ghosts, Inductive

\* The inductive invariant holds in every reachable state.
THEOREM SpecInductive == Spec => []Inductive
<1>1. Init => IInv
  <2> SUFFICES ASSUME Init PROVE IInv
    OBVIOUS
  <2>1. Alive = {}
    BY DEF Init, Alive, NoBody
  <2>2. clock = 0 /\ db.data = 0
    BY DEF Init
  <2>3. Ghosts /\ Alone
    BY <2>1, <2>2 DEF Ghosts, OneStays, AllDoomed, GhostDoomed, Alone
  <2>4. Issued /\ ListFollows
    <3>1. \A z \in Zones : to_zone[z] = <<>> /\ auth[z] = 0
      BY DEF Init
    <3>2. \A n \in Bodies : body[n].id = 0
      BY DEF Init, NoBody
    <3>3. list.next = 1 /\ player.body = 0
      BY DEF Init, Out
    <3>4. Issued
      BY <3>1, <3>2, <3>3 DEF Issued
    <3> QED
      BY <2>1, <3>3, <3>4 DEF ListFollows
  <2> QED
    BY <2>3, <2>4, InitTyped DEF IInv
<1>2. IInv /\ [Next]_vars => IInv'
  BY NextKeeps
<1>3. IInv => Inductive
  BY IInvIs
<1> QED
  BY <1>1, <1>2, <1>3, PTL DEF Spec

\* Type correctness.
THEOREM TypeCorrect == Spec => []TypeOK
<1>1. Inductive => TypeOK
  BY DEF Inductive
<1> QED
  BY <1>1, SpecInductive, PTL

\* numplayers and every zone's player count are what the entries say, whatever updates,
\* stale entries and deaths of zones come in whatever order.
THEOREM CountsTrue == Spec => []PlayersCounted
<1>1. Inductive => PlayersCounted
  BY DEF Inductive, PlayersCounted
<1> QED
  BY <1>1, SpecInductive, PTL

\* Of any number of clients of a character every one but the newest goes or has an order to
\* drop it on its way to it.
THEOREM GhostsGo == Spec => []GhostDoomed
<1>1. Inductive => GhostDoomed
  BY DEF Inductive
<1> QED
  BY <1>1, SpecInductive, PTL

\* On prompt links a character is in one zone.
THEOREM OneZonePrompt == Spec => []OneZoneIfPrompt
<1>1. Inductive => OneZoneIfPrompt
  BY DEF Inductive, Alone, OneZoneIfPrompt, OneZone
<1> QED
  BY <1>1, SpecInductive, PTL

\* On prompt links, once nothing is in flight, the world has every client that plays in its
\* zone, whatever entries were stale, made again or taken over by other zones before.
THEOREM WorldFollows == Spec => []WorldKnows
<1>1. Inductive => WorldKnows
  <2> SUFFICES ASSUME Inductive, prompt, Quiet, NEW n \in Bodies, body[n].state = "playing"
               PROVE  /\ body[n].id \in Ids
                      /\ list.entry[body[n].id].server = body[n].zone
                      /\ list.entry[body[n].id].online = InZone
    BY DEF WorldKnows
  <2> DEFINE z == body[n].zone
             e == body[n].id
  <2>1. Typed /\ ListFollows
    BY IInvIs DEF IInv
  <2>2. z \in Zones /\ e \in Ids
    BY <2>1, Present
  <2>3. Heard(n, z)
    BY <2>1, <2>2, HandoffAssumption DEF ListFollows, Alive
  <2>4. to_zone[z] = <<>> /\ to_world[z] = <<>>
    BY <2>2 DEF Quiet
  <2>5. Named(<<>>, e, e) /\ Spoken(<<>>) = {}
    BY DEF Named, Spoken
  <2>6. Named(to_zone[z], body[n].id, e) /\ Spoken(to_world[z]) = {}
    BY <2>4, <2>5
  <2>7. Known(e, z)
    BY <2>2, <2>3, <2>6 DEF Heard
  <2> QED
    BY <2>2, <2>6, <2>7 DEF Known
<1> QED
  BY <1>1, SpecInductive, PTL

\* On prompt links what is stored is never overwritten by something older.
THEOREM NothingRolledBack == Spec => NoRollback
<1>1. IInv /\ [Next]_vars => [prompt => db'.data >= db.data]_vars
  BY NextKeeps
<1>2. Inductive => IInv
  BY IInvIs
<1> QED
  BY <1>1, <1>2, SpecInductive, PTL DEF Spec, NoRollback

===============================================================================
