------------------------------ MODULE MCServicesProofs -----------------------------
(***************************************************************************)
(* Proofs about the services: a data bucket, for any processes, parts,     *)
(* values and times; the task scheduler, for any number of workers,        *)
(* callers and tasks; a servertalk link, for any number of connections and *)
(* messages and any way in which TCP cuts the frames into pieces; and the  *)
(* three of them side by side.                                             *)
(***************************************************************************)
EXTENDS MCServices, SequenceTheorems, WellFoundedInduction, TLAPS

-------------------------------------------------------------------------------
(* A data bucket: its types. *)

\* No row, no handler and no value have their types.
LEMMA Constants ==
    /\ NoParts \in [Parts -> Nat] /\ Nothing \in Values /\ NoRow \in Rows
    /\ NoRow.id = 0 /\ NoRow.value = Nothing /\ NoRow.expires = 0
    /\ Idle \in [op : {"none", "set", "delete"}, read : Rows, part : Parts \cup {0}, expires : Nat]
    /\ Idle.op = "none"
<1>1. NoParts \in [Parts -> Nat]
  BY DEF NoParts
<1>2. Nothing \in Values
  BY <1>1 DEF Nothing, Values, NoParts
<1>3. NoRow \in Rows /\ NoRow.id = 0 /\ NoRow.value = Nothing /\ NoRow.expires = 0
  BY <1>2 DEF NoRow, Rows
<1> QED BY <1>1, <1>2, <1>3 DEF Idle

\* Written and merged values are values, ...
LEMMA ValueTypes ==
    ASSUME NEW v \in Values, NEW part \in Parts, NEW n \in Nat \ {0}
    PROVE  /\ Given(n) \subseteq Values
           /\ Merged(v, part, n) \in Values
<1>1. ASSUME NEW w \in Given(n) PROVE w \in Values
  <2>1. /\ w \in [plain : {0, n}, part : [Parts -> {0, n}], fixed : SUBSET Parts]
        /\ IF w.plain # 0 THEN w.part = NoParts ELSE \A i \in w.fixed : w.part[i] # 0
    BY DEF Given
  <2>2. w.part \in [Parts -> Nat] /\ w.plain \in Nat
    BY <2>1
  <2>3. w \in [plain : Nat, part : [Parts -> Nat], fixed : SUBSET Parts]
    BY <2>1, <2>2
  <2> QED BY <2>1, <2>3 DEF Values
<1> DEFINE object == IF v.plain # 0 THEN Nothing ELSE v
           parts == [object.part EXCEPT ![part] = n]
           merged == [plain |-> object.plain, part |-> parts, fixed |-> object.fixed]
<1>2. /\ object \in [plain : Nat, part : [Parts -> Nat], fixed : SUBSET Parts] /\ object.plain = 0
      /\ \A i \in object.fixed : object.part[i] # 0
  BY Constants DEF Values, Nothing
<1>3. Merged(v, part, n) = [object EXCEPT !.part[part] = n]
  BY DEF Merged
<1> HIDE DEF object
<1>4. Merged(v, part, n) = merged
  BY <1>2, <1>3
<1>5. parts \in [Parts -> Nat] /\ \A i \in object.fixed : parts[i] # 0
  BY <1>2
<1> HIDE DEF parts
<1>6. merged \in [plain : Nat, part : [Parts -> Nat], fixed : SUBSET Parts]
  BY <1>2, <1>5
<1>7. merged \in Values
  BY <1>2, <1>5, <1>6 DEF Values
<1> QED BY <1>1, <1>4, <1>7

\* ... also without a part.
LEMMA WithoutTypes ==
    ASSUME NEW v \in Values, NEW part
    PROVE  Without(v, part) \in Values
<1> DEFINE parts == [v.part EXCEPT ![part] = 0]
<1>0. v \in [plain : Nat, part : [Parts -> Nat], fixed : SUBSET Parts]
      /\ (IF v.plain # 0 THEN v.part = NoParts ELSE \A i \in v.fixed : v.part[i] # 0)
  BY DEF Values
<1>1. Without(v, part) = [plain |-> v.plain, part |-> parts, fixed |-> v.fixed \ {part}]
  BY DEF Without
<1>2. parts \in [Parts -> Nat]
  BY <1>0
<1>3. v.part = NoParts => parts = NoParts
  BY DEF NoParts
<1>4. v.plain = 0 => \A i \in v.fixed \ {part} : parts[i] # 0
  BY <1>0
<1> DEFINE without == [plain |-> v.plain, part |-> parts, fixed |-> v.fixed \ {part}]
<1> HIDE DEF parts
<1>5. without \in [plain : Nat, part : [Parts -> Nat], fixed : SUBSET Parts]
  BY <1>0, <1>2
<1>6. IF without.plain # 0 THEN without.part = NoParts ELSE \A i \in without.fixed : without.part[i] # 0
  BY <1>0, <1>3, <1>4
<1> QED BY <1>1, <1>5, <1>6 DEF Values

\* What GetData returns, caches and writes has its type.
LEMMA GetDataTypes ==
    ASSUME TypeOK, NEW p \in Processes, NEW ignore_misses \in BOOLEAN
    PROVE  LET g == GetData(p, ignore_misses)
           IN g.read \in Rows /\ g.cache \in Seq(Rows) /\ g.row \in Rows
<1>1. row \in Rows /\ cache[p] \in Seq(Rows) /\ NoRow \in Rows
  BY Constants DEF TypeOK
<1>2. cache[p] # <<>> => Head(cache[p]) \in Rows
  BY <1>1
<1>3. <<>> \in Seq(Rows) /\ <<NoRow>> \in Seq(Rows) /\ <<row>> \in Seq(Rows)
  BY <1>1
<1> QED BY <1>1, <1>2, <1>3, Zenon DEF GetData

Handlers == [op : {"none", "set", "delete"}, read : Rows, part : Parts \cup {0}, expires : Nat]

\* The types hold in the beginning.
THEOREM TypeInitially == Init => TypeOK
BY Constants DEF Init, TypeOK

\* What a handler that ends with `Got' does to the types.
LEMMA GotTypes ==
    ASSUME TypeOK, NEW p \in Processes, NEW ignore_misses \in BOOLEAN, Got(p, GetData(p, ignore_misses))
    PROVE  row' \in Rows /\ cache' \in [Processes -> Seq(Rows)]
<1> DEFINE g == GetData(p, ignore_misses)
<1>1. g.cache \in Seq(Rows) /\ g.row \in Rows
  BY GetDataTypes
<1>2. row' = g.row /\ cache' = [cache EXCEPT ![p] = g.cache]
  BY DEF Got
<1> QED BY <1>1, <1>2, Zenon DEF TypeOK

\* What a handler writes is a value.
LEMMA WrittenTypes ==
    ASSUME NEW v \in Values, NEW part \in Parts \cup {0}, NEW n \in Nat \ {0}, NEW whole \in Given(n)
    PROVE  Written(v, part, whole, n) \in Values
<1>1. CASE part = 0
  BY <1>1 DEF Written, Given, Values
<1>2. CASE part # 0
  BY <1>2, ValueTypes DEF Written
<1> QED BY <1>1, <1>2

\* What is read of a row is a value.
LEMMA LiveTypes == TypeOK => \A r \in Rows : Live(r) \in Values
BY Constants DEF Live, Rows

\* Every step of the bucket keeps the types.
THEOREM TypeStep == TypeOK /\ [Next]_vars => TypeOK'
<1> SUFFICES ASSUME TypeOK, [Next]_vars PROVE TypeOK'
  OBVIOUS
<1>t. /\ row \in Rows /\ store \in Rows /\ last_id \in Nat /\ now \in Nat /\ writes \in Nat
      /\ cache \in [Processes -> Seq(Rows)] /\ busy \in [Processes -> Handlers] /\ present \subseteq Processes
  BY DEF TypeOK, Handlers
<1>q. ASSUME /\ row' \in Rows /\ store' \in Rows /\ last_id' \in Nat /\ now' \in Nat /\ writes' \in Nat
             /\ cache' \in [Processes -> Seq(Rows)] /\ busy' \in [Processes -> Handlers]
             /\ present' \subseteq Processes
      PROVE  TypeOK'
  BY <1>q DEF TypeOK, Handlers, Rows, Values
<1>0. Idle \in Handlers /\ NoRow \in Rows /\ <<>> \in Seq(Rows)
  BY Constants DEF Handlers
<1>1. ASSUME NEW p \in Processes, Get(p) PROVE TypeOK'
  <2>1. Got(p, GetData(p, FALSE)) /\ UNCHANGED <<last_id, present, busy, now, writes, store>>
    BY <1>1 DEF Get
  <2> QED BY <2>1, GotTypes, <1>t, <1>q
<1>2. ASSUME NEW p \in Processes, SetData(p) PROVE TypeOK'
  <2> DEFINE g == GetData(p, TRUE)
  <2>1. PICK part \in Parts \cup {0}, expires \in {0, now} :
           busy' = [busy EXCEPT ![p] = [op |-> "set", read |-> g.read, part |-> part, expires |-> expires]]
    BY <1>2 DEF SetData
  <2>2. Got(p, g) /\ UNCHANGED <<last_id, present, now, writes, store>>
    BY <1>2 DEF SetData
  <2>3. g.read \in Rows
    BY GetDataTypes
  <2> HIDE DEF g
  <2>4. [op |-> "set", read |-> g.read, part |-> part, expires |-> expires] \in Handlers
    BY <2>3, <1>t DEF Handlers
  <2>5. busy' \in [Processes -> Handlers]
    BY <2>1, <2>4, <1>t
  <2> QED BY <2>2, <2>5, GotTypes, <1>t, <1>q DEF g
<1>3. ASSUME NEW p \in Processes, Store(p) PROVE TypeOK'
  <2> DEFINE b == busy[p]
             n == writes + 1
  <2>0. PICK whole \in Given(n) :
           LET new == [id |-> IF b.read.id # 0 THEN b.read.id ELSE last_id + 1,
                       value |-> Written(b.read.value, b.part, whole, n), expires |-> b.expires]
           IN /\ store' = Asked(b, whole, n)
              /\ \/ UNCHANGED <<cache, row, last_id>>
                 \/ /\ cache' = [cache EXCEPT ![p] = IF @ = <<>> THEN @ ELSE <<new>> \o Tail(@)]
                    /\ Update(new) /\ UNCHANGED last_id
                 \/ /\ cache' = [cache EXCEPT ![p] = Append(Found(p), new)]
                    /\ row' = new /\ last_id' = last_id + 1
    BY <1>3 DEF Store
  <2> DEFINE new == [id |-> IF b.read.id # 0 THEN b.read.id ELSE last_id + 1,
                     value |-> Written(b.read.value, b.part, whole, n), expires |-> b.expires]
  <2>1. b \in Handlers /\ n \in Nat \ {0}
    BY <1>t
  <2>2. b.read \in Rows /\ b.expires \in Nat /\ b.read.id \in Nat /\ b.read.value \in Values /\ b.part \in Parts \cup {0}
    BY <2>1 DEF Handlers, Rows
  <2>3. Written(b.read.value, b.part, whole, n) \in Values /\ Written(Live(store), b.part, whole, n) \in Values
    BY <2>1, <2>2, <1>t, WrittenTypes, LiveTypes
  <2>4. new \in Rows /\ Asked(b, whole, n) \in Rows
    BY <2>2, <2>3, <1>t DEF Rows, Asked
  <2>5. /\ store' = Asked(b, whole, n) /\ writes' = n /\ busy' = [busy EXCEPT ![p] = Idle] /\ UNCHANGED <<present, now>>
        /\ \/ /\ cache' = [cache EXCEPT ![p] = IF @ = <<>> THEN @ ELSE <<new>> \o Tail(@)]
              /\ Update(new) /\ UNCHANGED last_id
           \/ UNCHANGED <<cache, row, last_id>>
           \/ /\ cache' = [cache EXCEPT ![p] = Append(Found(p), new)]
              /\ row' = new /\ last_id' = last_id + 1
    BY <2>0, <1>3 DEF Store
  <2> HIDE DEF b, n, new
  <2>6. cache[p] \in Seq(Rows)
    BY <1>t
  <2>7. Found(p) \in Seq(Rows) /\ Append(Found(p), new) \in Seq(Rows)
    BY <2>4, <2>6 DEF Found
  <2>8. (IF cache[p] = <<>> THEN cache[p] ELSE <<new>> \o Tail(cache[p])) \in Seq(Rows)
    BY <2>4, <2>6
  <2>9. cache' \in [Processes -> Seq(Rows)]
    BY <2>5, <2>7, <2>8, <1>t, Zenon
  <2>10. row' \in Rows /\ last_id' \in Nat
    BY <2>5, <2>4, <1>t DEF Update
  <2>11. busy' \in [Processes -> Handlers]
    BY <2>5, <1>0, <1>t
  <2> QED BY <2>1, <2>4, <2>5, <2>9, <2>10, <2>11, <1>t, <1>q
<1>4. ASSUME NEW p \in Processes, Delete(p) PROVE TypeOK'
  BY <1>4, <1>0, <1>t, <1>q DEF Delete
<1>5. ASSUME NEW p \in Processes, DeletePart(p) PROVE TypeOK'
  <2> DEFINE g == GetData(p, FALSE)
  <2>1. PICK part \in Parts :
           busy' = [busy EXCEPT ![p] = IF g.read.value.part[part] = 0 THEN @
                                       ELSE [op |-> "delete", read |-> g.read, part |-> part, expires |-> 0]]
    BY <1>5 DEF DeletePart
  <2>2. Got(p, g) /\ UNCHANGED <<last_id, present, now, writes, store>>
    BY <1>5 DEF DeletePart
  <2>3. g.read \in Rows
    BY GetDataTypes
  <2> HIDE DEF g
  <2>4. [op |-> "delete", read |-> g.read, part |-> part, expires |-> 0] \in Handlers
    BY <2>3 DEF Handlers
  <2>5. busy' \in [Processes -> Handlers]
    BY <2>1, <2>4, <1>t, Zenon
  <2> QED BY <2>2, <2>5, GotTypes, <1>t, <1>q DEF g
<1>6. ASSUME NEW p \in Processes, StoreWithout(p) PROVE TypeOK'
  <2> DEFINE b == busy[p]
             r == [b.read EXCEPT !.value = Without(@, b.part)]
             left == Without(Live(store), b.part)
             cached == [Head(cache[p]) EXCEPT !.value = r.value]
  <2>1. b.read \in Rows /\ b.read.value \in Values
    BY <1>t DEF Handlers, Rows
  <2>2. Without(b.read.value, b.part) \in Values /\ left \in Values
    BY <2>1, <1>t, WithoutTypes, LiveTypes
  <2>3. r = [id |-> b.read.id, value |-> Without(b.read.value, b.part), expires |-> b.read.expires]
    BY <2>1 DEF Rows
  <2>4. r \in Rows /\ r.value \in Values
    BY <2>1, <2>2, <2>3 DEF Rows
  <2>5. /\ store' = IF left = Nothing THEN NoRow ELSE [store EXCEPT !.value = left]
        /\ busy' = [busy EXCEPT ![p] = Idle] /\ UNCHANGED <<last_id, present, now, writes>>
        /\ \/ cache' = [cache EXCEPT ![p] = <<>>] /\ row' = NoRow
           \/ /\ cache' = [cache EXCEPT ![p] = IF @ = <<>> THEN @ ELSE <<cached>> \o Tail(@)]
              /\ Update(r)
    BY <1>6 DEF StoreWithout
  <2> HIDE DEF b, r, left
  <2>6. cache[p] \in Seq(Rows)
    BY <1>t
  <2>7. cache[p] # <<>> => Head(cache[p]) \in Rows /\ Tail(cache[p]) \in Seq(Rows)
    BY <2>6
  <2>8. cache[p] # <<>> => cached \in Rows
    BY <2>4, <2>7 DEF Rows
  <2> HIDE DEF cached
  <2>9. (IF cache[p] = <<>> THEN cache[p] ELSE <<cached>> \o Tail(cache[p])) \in Seq(Rows)
    BY <2>6, <2>7, <2>8
  <2>10. cache' \in [Processes -> Seq(Rows)]
    BY <2>5, <2>9, <1>0, <1>t, Zenon
  <2>11. [store EXCEPT !.value = left] \in Rows
    BY <2>2, <1>t DEF Rows
  <2>12. store' \in Rows /\ row' \in Rows
    BY <2>4, <2>5, <2>11, <1>0, <1>t DEF Update
  <2>13. busy' \in [Processes -> Handlers]
    BY <2>5, <1>0, <1>t
  <2> QED BY <2>5, <2>10, <2>12, <2>13, <1>t, <1>q
<1>7. ASSUME NEW p \in Processes, Enter(p) PROVE TypeOK'
  <2>1. Append(cache[p], row) \in Seq(Rows)
    BY <1>t
  <2>2. cache' = cache \/ cache' = [cache EXCEPT ![p] = Append(@, row)]
    BY <1>7 DEF Enter
  <2>3. cache' \in [Processes -> Seq(Rows)]
    BY <2>1, <2>2, <1>t, Zenon
  <2> QED BY <1>7, <2>3, <1>t, <1>q DEF Enter
<1>8. ASSUME NEW p \in Processes, Leave(p) \/ ClearCache(p) PROVE TypeOK'
  BY <1>8, <1>0, <1>t, <1>q DEF Leave, ClearCache
<1>9. ASSUME Tick \/ UNCHANGED vars PROVE TypeOK'
  BY <1>9, <1>t, <1>q DEF Tick, vars
<1> QED BY <1>1, <1>2, <1>3, <1>4, <1>5, <1>6, <1>7, <1>8, <1>9 DEF Next

\* Every variable keeps its type.
THEOREM TypeCorrect == Spec => []TypeOK
BY TypeInitially, TypeStep, PTL DEF Spec

-------------------------------------------------------------------------------
(* The cache and the row, of a character that is in one zone at a time. *)

Local == Alone /\ ~Gm

\* At most one process has anything of the character's: what it has cached, or read for a
\* write, is the row; and the row is what the operations leave, or both hold nothing.
BucketInv ==
    /\ \A p, q \in present : p = q
    /\ \A p \in Processes : p \notin present => cache[p] = <<>> /\ busy[p].op = "none"
    /\ \A p \in Processes : cache[p] \in {<<>>, <<row>>}
    /\ \A p \in Processes : busy[p].op # "none" => busy[p].read = row /\ ~Expired(row)
    /\ \A p \in Processes : busy[p].op = "delete" => row.id # 0
    /\ row.id = 0 => row = NoRow /\ Live(store) = Nothing
    /\ row.id # 0 => store.value = row.value /\ store.expires = row.expires

\* GetData gives the row, which it deletes if it has expired.
LEMMA GetDataCoherent ==
    ASSUME NEW p \in Processes, NEW ignore_misses \in BOOLEAN,
           cache[p] \in {<<>>, <<row>>}, row.id = 0 => row = NoRow
    PROVE  LET g == GetData(p, ignore_misses)
           IN /\ g.read = g.row /\ g.cache \in {<<>>, <<g.row>>} /\ ~Expired(g.row)
              /\ g.row = row \/ (g.row = NoRow /\ Expired(row))
<1>1. ~Expired(NoRow)
  BY Constants DEF Expired
<1>2. cache[p] # <<>> => Head(cache[p]) = row /\ cache[p] = <<row>>
  OBVIOUS
<1>3. CASE cache[p] # <<>>
  BY <1>1, <1>2, <1>3 DEF GetData
<1>4. CASE cache[p] = <<>> /\ row.id = 0
  BY <1>1, <1>4 DEF GetData
<1>5. CASE cache[p] = <<>> /\ row.id # 0
  BY <1>1, <1>5 DEF GetData
<1> QED BY <1>3, <1>4, <1>5

\* After it the invariant holds, if only this process has begun or ended a handler.
LEMMA GotCoherent ==
    ASSUME TypeOK, BucketInv, Local, NEW p \in present, p \in Processes, NEW ignore_misses \in BOOLEAN,
           busy[p].op = "none", Got(p, GetData(p, ignore_misses)),
           UNCHANGED <<present, now, store>>,
           \A q \in Processes : q # p => busy'[q] = busy[q],
           busy'[p].op # "none" => busy'[p].read = GetData(p, ignore_misses).read,
           busy'[p].op = "delete" => GetData(p, ignore_misses).read.id # 0
    PROVE  BucketInv'
<1> DEFINE g == GetData(p, ignore_misses)
<1>1. /\ g.read = g.row /\ g.cache \in {<<>>, <<g.row>>} /\ ~Expired(g.row)
      /\ g.row = row \/ (g.row = NoRow /\ Expired(row))
  BY GetDataCoherent DEF BucketInv
<1>2. row' = g.row /\ cache' = [cache EXCEPT ![p] = g.cache]
  BY DEF Got
<1> HIDE DEF g
<1>3. cache'[p] = g.cache /\ \A q \in Processes : q # p => cache'[q] = cache[q] /\ cache[q] = <<>> /\ busy[q].op = "none"
  BY <1>2 DEF TypeOK, BucketInv
<1>4. \A q \in Processes : cache'[q] \in {<<>>, <<row'>>}
  BY <1>1, <1>2, <1>3
<1>6. ~Expired(row)' /\ (Live(store)' = Live(store))
  BY <1>1, <1>2 DEF Expired, Live
<1>7. busy'[p].op # "none" => busy'[p].read = row'
  BY <1>1, <1>2 DEF g
<1>8. busy'[p].op = "delete" => row'.id # 0
  BY <1>1, <1>2 DEF g
<1>9. ASSUME row' = row PROVE BucketInv'
  BY <1>3, <1>4, <1>6, <1>7, <1>8, <1>9 DEF BucketInv
<1>10. ASSUME row' = NoRow, Expired(row) PROVE BucketInv'
  <2>1. row.id # 0 => Live(store) = Nothing
    BY <1>10 DEF BucketInv, Live, Expired
  <2>2. row'.id = 0 /\ Live(store) = Nothing
    BY <1>10, <2>1, Constants DEF BucketInv
  <2> QED BY <1>3, <1>4, <1>6, <1>7, <1>8, <1>10, <2>2 DEF BucketInv
<1> QED BY <1>1, <1>2, <1>9, <1>10

\* In the beginning no process has read anything.
THEOREM BucketInitially == Init => BucketInv
<1> SUFFICES ASSUME Init PROVE BucketInv
  OBVIOUS
<1>1. Live(store) = Nothing
  BY Constants DEF Init, Live, Expired
<1> QED BY <1>1, Constants DEF Init, BucketInv

\* Sequences of one element.
LEMMA Singletons ==
    ASSUME NEW x, NEW y
    PROVE  /\ Head(<<x>>) = x /\ Tail(<<x>>) = <<>>
           /\ <<y>> \o <<>> = <<y>> /\ Append(<<>>, x) = <<x>>
<1>1. <<x>> \in Seq({x, y}) /\ <<y>> \in Seq({x, y}) /\ <<>> \in Seq({x, y})
  OBVIOUS
<1>2. Head(<<x>>) = x
  OBVIOUS
<1>3. Tail(<<x>>) = <<>>
  <2>1. Tail(<<x>>) \in Seq({x, y}) /\ Len(Tail(<<x>>)) = 0
    BY <1>1, HeadTailProperties
  <2> QED BY <2>1, EmptySeq
<1>4. <<y>> \o <<>> = <<y>>
  BY <1>1, ConcatEmptySeq
<1>5. Append(<<>>, x) = <<x>>
  BY <1>1
<1> QED BY <1>2, <1>3, <1>4, <1>5

\* Every step of the bucket keeps BucketInv, of a character in one zone that no GM edits.
THEOREM BucketStep == TypeOK /\ BucketInv /\ Local /\ [Next]_vars => BucketInv'
<1> SUFFICES ASSUME TypeOK, BucketInv, Local, [Next]_vars PROVE BucketInv'
  OBVIOUS
<1>t. /\ row \in Rows /\ store \in Rows /\ last_id \in Nat /\ now \in Nat /\ writes \in Nat
      /\ cache \in [Processes -> Seq(Rows)] /\ busy \in [Processes -> Handlers] /\ present \subseteq Processes
  BY DEF TypeOK, Handlers
<1>u. ASSUME NEW p, Uses(p) PROVE p \in present /\ busy[p].op = "none"
  BY <1>u DEF Uses, Local
<1>i. Idle.op = "none"
  BY Constants
\* Whoever is in a handler is the only one who is anywhere.
<1>b. ASSUME NEW p \in Processes, busy[p].op # "none"
      PROVE  /\ \A q \in Processes : q # p => q \notin present /\ cache[q] = <<>> /\ busy[q].op = "none"
             /\ busy[p].read = row /\ ~Expired(row) /\ cache[p] \in {<<>>, <<row>>} /\ p \in present
  BY <1>b DEF BucketInv
<1>l. Live(store) = row.value \/ Expired(row)
  BY Constants DEF BucketInv, Live, Expired
<1>1. ASSUME NEW p \in Processes, Get(p) PROVE BucketInv'
  BY <1>1, <1>u, GotCoherent DEF Get
<1>2. ASSUME NEW p \in Processes, SetData(p) PROVE BucketInv'
  <2>1. PICK part \in Parts \cup {0}, expires \in {0, now} :
           busy' = [busy EXCEPT ![p] = [op |-> "set", read |-> GetData(p, TRUE).read, part |-> part, expires |-> expires]]
    BY <1>2 DEF SetData
  <2>2. Got(p, GetData(p, TRUE)) /\ Uses(p) /\ UNCHANGED <<present, now, store>>
    BY <1>2 DEF SetData
  <2>3. /\ busy'[p].op = "set" /\ busy'[p].read = GetData(p, TRUE).read
        /\ \A q \in Processes : q # p => busy'[q] = busy[q]
    BY <2>1, <1>t
  <2> QED BY <2>2, <2>3, <1>u, GotCoherent
<1>3. ASSUME NEW p \in Processes, Store(p) PROVE BucketInv'
  <2> DEFINE b == busy[p]
             n == writes + 1
  <2>0. PICK whole \in Given(n) :
           LET new == [id |-> IF b.read.id # 0 THEN b.read.id ELSE last_id + 1,
                       value |-> Written(b.read.value, b.part, whole, n), expires |-> b.expires]
           IN /\ store' = Asked(b, whole, n)
              /\ IF Refused(b.read.value, b.part) THEN UNCHANGED <<cache, row, last_id>>
                 ELSE IF b.read.id # 0
                 THEN /\ cache' = [cache EXCEPT ![p] = IF @ = <<>> THEN @ ELSE <<new>> \o Tail(@)]
                      /\ Update(new) /\ UNCHANGED last_id
                 ELSE IF row.id # 0 THEN UNCHANGED <<cache, row, last_id>>
                 ELSE /\ cache' = [cache EXCEPT ![p] = Append(Found(p), new)]
                      /\ row' = new /\ last_id' = last_id + 1
    BY <1>3 DEF Store
  <2> DEFINE new == [id |-> IF b.read.id # 0 THEN b.read.id ELSE last_id + 1,
                     value |-> Written(b.read.value, b.part, whole, n), expires |-> b.expires]
  <2>1. b.op = "set" /\ b.read = row /\ Live(store) = row.value
    BY <1>3, <1>b, <1>l DEF Store
  <2>2. new.id # 0 /\ new.id = (IF row.id # 0 THEN row.id ELSE last_id + 1)
    BY <2>1, <1>t
  <2>3. ~Refused(row.value, b.part) => Asked(b, whole, n).value = new.value /\ Asked(b, whole, n).expires = new.expires
    BY <2>1 DEF Asked
  <2>a. Refused(row.value, b.part) => Asked(b, whole, n) = store
    BY <2>1 DEF Asked
  <2>4. /\ store' = Asked(b, whole, n) /\ busy' = [busy EXCEPT ![p] = Idle] /\ UNCHANGED <<present, now>>
        /\ IF Refused(row.value, b.part) THEN UNCHANGED <<cache, row, last_id>>
           ELSE IF row.id # 0
           THEN /\ cache' = [cache EXCEPT ![p] = IF @ = <<>> THEN @ ELSE <<new>> \o Tail(@)]
                /\ Update(new) /\ UNCHANGED last_id
           ELSE /\ cache' = [cache EXCEPT ![p] = Append(Found(p), new)]
                /\ row' = new /\ last_id' = last_id + 1
    BY <2>0, <2>1, <1>3 DEF Store
  <2> HIDE DEF b, n, new
  <2>9. busy'[p].op = "none" /\ \A q \in Processes : q # p => busy'[q] = busy[q] /\ busy[q].op = "none"
    BY <2>4, <1>3, <1>b, <1>t, <1>i DEF Store
  <2>b. CASE Refused(row.value, b.part)
    <3>1. UNCHANGED <<cache, row, store, present, now>>
      BY <2>a, <2>4, <2>b
    <3>2. Live(store)' = Live(store)
      BY <3>1 DEF Live, Expired
    <3> QED BY <2>9, <3>1, <3>2, <1>3, <1>b DEF Store, BucketInv
  <2>c. CASE ~Refused(row.value, b.part)
    <3>5. row' = new
      BY <2>1, <2>2, <2>4, <2>c DEF Update
    <3>6. cache[p] # <<>> => cache[p] = <<row>> /\ Tail(cache[p]) = <<>>
      BY <1>3, <1>b, Singletons DEF Store
    <3>7. row.id = 0 => Found(p) = <<>>
      BY <3>6 DEF Found
    <3>8. cache'[p] \in {<<>>, <<new>>} /\ \A q \in Processes : q # p => cache'[q] = <<>>
      <4>1. CASE row.id # 0
        <5>1. cache' = [cache EXCEPT ![p] = IF @ = <<>> THEN @ ELSE <<new>> \o Tail(@)]
          BY <4>1, <2>4, <2>c
        <5>2. cache[p] # <<>> => <<new>> \o Tail(cache[p]) = <<new>>
          BY <3>6, Singletons
        <5> QED BY <5>1, <5>2, <1>3, <1>b, <1>t DEF Store
      <4>2. CASE row.id = 0
        <5>1. cache' = [cache EXCEPT ![p] = Append(Found(p), new)]
          BY <4>2, <2>4, <2>c
        <5>2. Append(Found(p), new) = <<new>>
          BY <3>7, <4>2
        <5> QED BY <5>1, <5>2, <1>3, <1>b, <1>t DEF Store
      <4> QED BY <4>1, <4>2
    <3>10. store'.value = row'.value /\ store'.expires = row'.expires /\ row'.id # 0
      BY <2>2, <2>3, <2>4, <2>c, <3>5
    <3> QED BY <2>4, <3>5, <3>8, <2>9, <3>10, <1>3, <1>b DEF Store, BucketInv
  <2> QED BY <2>b, <2>c
<1>4. ASSUME NEW p \in Processes, Delete(p) PROVE BucketInv'
  <2>1. Uses(p) /\ cache' = [cache EXCEPT ![p] = <<>>] /\ row' = NoRow /\ store' = NoRow /\ UNCHANGED <<present, busy, now>>
    BY <1>4 DEF Delete
  <2>2. \A q \in Processes : busy[q].op = "none" /\ cache'[q] = <<>>
    BY <2>1, <1>u, <1>t DEF BucketInv
  <2>3. row'.id = 0 /\ Live(store)' = Nothing
    BY <2>1, Constants DEF Live, Expired
  <2> QED BY <2>1, <2>2, <2>3 DEF BucketInv
<1>5. ASSUME NEW p \in Processes, DeletePart(p) PROVE BucketInv'
  <2> DEFINE g == GetData(p, FALSE)
  <2>1. Got(p, g) /\ Uses(p) /\ UNCHANGED <<present, now, store>>
    BY <1>5 DEF DeletePart
  <2>2. PICK part \in Parts :
           busy' = [busy EXCEPT ![p] = IF g.read.value.part[part] = 0 THEN @
                                       ELSE [op |-> "delete", read |-> g.read, part |-> part, expires |-> 0]]
    BY <1>5 DEF DeletePart
  <2>3. busy[p].op = "none" /\ p \in present
    BY <2>1, <1>u
  <2>4. g.read = row \/ g.read = NoRow
    BY GetDataCoherent DEF BucketInv
  <2>5. g.read.id = 0 => g.read = NoRow
    BY <2>4 DEF BucketInv
  <2>6. NoRow.value.part[part] = 0
    BY Constants DEF Nothing, NoParts
  <2> HIDE DEF g
  <2>7. \A q \in Processes : q # p => busy'[q] = busy[q]
    BY <2>2, <1>t
  <2>8. CASE g.read.value.part[part] = 0
    <3>1. busy'[p].op = "none"
      BY <2>2, <2>3, <2>8, <1>t
    <3> QED BY <2>1, <2>3, <2>7, <3>1, GotCoherent DEF g
  <2>9. CASE g.read.value.part[part] # 0
    <3>1. busy'[p].op = "delete" /\ busy'[p].read = g.read /\ g.read.id # 0
      BY <2>2, <2>5, <2>6, <2>9, <1>t
    <3> QED BY <2>1, <2>3, <2>7, <3>1, GotCoherent DEF g
  <2> QED BY <2>8, <2>9
<1>6. ASSUME NEW p \in Processes, StoreWithout(p) PROVE BucketInv'
  <2> DEFINE b == busy[p]
             r == [b.read EXCEPT !.value = Without(@, b.part)]
             left == Without(Live(store), b.part)
             cached == [Head(cache[p]) EXCEPT !.value = r.value]
  <2>1. b.op = "delete" /\ b.read = row /\ row.id # 0 /\ Live(store) = row.value
    BY <1>6, <1>b, <1>l DEF StoreWithout, BucketInv
  <2>2. /\ r.value = left /\ r = [row EXCEPT !.value = left] /\ r.id = row.id /\ r.expires = row.expires
    BY <2>1, <1>t DEF Rows
  <2>3. /\ store' = IF left = Nothing THEN NoRow ELSE [store EXCEPT !.value = left]
        /\ busy' = [busy EXCEPT ![p] = Idle] /\ UNCHANGED <<present, now>>
        /\ IF r.value = Nothing
           THEN cache' = [cache EXCEPT ![p] = <<>>] /\ row' = NoRow
           ELSE /\ cache' = [cache EXCEPT ![p] = IF @ = <<>> THEN @ ELSE <<cached>> \o Tail(@)]
                /\ Update(r)
    BY <1>6 DEF StoreWithout
  <2>4. cache[p] # <<>> => cache[p] = <<row>> /\ Tail(cache[p]) = <<>> /\ cached = r
    <3>1. cache[p] # <<>> => cache[p] = <<row>>
      BY <1>6, <1>b DEF StoreWithout
    <3>2. cache[p] # <<>> => Head(cache[p]) = row /\ Tail(cache[p]) = <<>>
      BY <3>1, Singletons
    <3> QED BY <3>1, <3>2, <2>2
  <2> HIDE DEF b, r, left, cached
  <2>5. busy'[p].op = "none" /\ \A q \in Processes : q # p => busy'[q] = busy[q] /\ busy[q].op = "none"
    BY <2>3, <1>6, <1>b, <1>t, <1>i DEF StoreWithout
  <2>6. CASE left = Nothing
    <3>1. row' = NoRow /\ store' = NoRow /\ cache' = [cache EXCEPT ![p] = <<>>]
      BY <2>2, <2>3, <2>6
    <3>2. row'.id = 0 /\ Live(store)' = Nothing
      BY <3>1, Constants DEF Live, Expired
    <3>3. \A q \in Processes : cache'[q] = <<>>
      BY <3>1, <1>6, <1>b, <1>t DEF StoreWithout
    <3> QED BY <2>3, <2>5, <3>1, <3>2, <3>3, <1>6, <1>b DEF StoreWithout, BucketInv
  <2>7. CASE left # Nothing
    <3>1. row' = r /\ store' = [store EXCEPT !.value = left]
      BY <2>2, <2>3, <2>7 DEF Update
    <3>2. store'.value = row'.value /\ store'.expires = row'.expires /\ row'.id # 0
      BY <2>1, <2>2, <3>1, <1>t DEF Rows, BucketInv
    <3>3. cache' = [cache EXCEPT ![p] = IF @ = <<>> THEN @ ELSE <<cached>> \o Tail(@)]
      BY <2>2, <2>3, <2>7
    <3>4. cache[p] # <<>> => <<cached>> \o Tail(cache[p]) = <<r>>
      BY <2>4, Singletons
    <3>5. \A q \in Processes : cache'[q] \in {<<>>, <<row'>>} /\ (q # p => cache'[q] = <<>>)
      BY <3>1, <3>3, <3>4, <1>6, <1>b, <1>t DEF StoreWithout
    <3> QED BY <2>3, <2>5, <3>2, <3>5, <1>6, <1>b DEF StoreWithout, BucketInv
  <2> QED BY <2>6, <2>7
<1>7. ASSUME NEW p \in Processes, Enter(p) PROVE BucketInv'
  <2>1. present = {} /\ present' = {p} /\ UNCHANGED <<row, busy, now, store>>
    BY <1>7 DEF Enter, Local
  <2>2. cache' = cache \/ cache' = [cache EXCEPT ![p] = Append(@, row)]
    BY <1>7 DEF Enter
  <2>3. \A q \in Processes : cache[q] = <<>> /\ busy[q].op = "none"
    BY <2>1 DEF BucketInv
  <2>4. \A q \in Processes : cache'[q] \in {<<>>, <<row>>} /\ (q # p => cache'[q] = <<>>)
    <3>1. Append(cache[p], row) = <<row>>
      BY <2>3, Singletons
    <3> QED BY <2>2, <2>3, <3>1, <1>t
  <2>5. Live(store)' = Live(store)
    BY <2>1 DEF Live, Expired
  <2> QED BY <2>1, <2>3, <2>4, <2>5 DEF BucketInv
<1>8. ASSUME NEW p \in Processes, Leave(p) \/ ClearCache(p) PROVE BucketInv'
  <2>1. busy[p].op = "none" /\ cache' = [cache EXCEPT ![p] = <<>>] /\ UNCHANGED <<row, busy, now, store>>
    BY <1>8 DEF Leave, ClearCache
  <2>2. present' \subseteq present /\ \A q \in present : q # p => q \in present'
    BY <1>8 DEF Leave, ClearCache
  <2>3. cache'[p] = <<>> /\ \A q \in Processes : q # p => cache'[q] = cache[q]
    BY <2>1, <1>t
  <2>4. Live(store)' = Live(store) /\ Expired(row)' = Expired(row)
    BY <2>1 DEF Live, Expired
  <2> QED BY <2>1, <2>2, <2>3, <2>4 DEF BucketInv
<1>9. ASSUME Tick PROVE BucketInv'
  <2>1. now' = now + 1 /\ (\A p \in Processes : busy[p].op = "none") /\ UNCHANGED <<row, cache, present, busy, store>>
    BY <1>9 DEF Tick
  <2>2. Expired(store) => Expired(store)'
    BY <2>1, <1>t DEF Expired, Rows
  <2>3. Live(store) = Nothing => Live(store)' = Nothing
    BY <2>1, <2>2 DEF Live
  <2> QED BY <2>1, <2>3 DEF BucketInv
<1>10. CASE UNCHANGED vars
  <2>1. UNCHANGED <<row, cache, present, busy, now, store>>
    BY <1>10 DEF vars
  <2>2. Live(store)' = Live(store) /\ Expired(row)' = Expired(row)
    BY <2>1 DEF Live, Expired
  <2> QED BY <2>1, <2>2 DEF BucketInv
<1> QED BY <1>1, <1>2, <1>3, <1>4, <1>5, <1>6, <1>7, <1>8, <1>9, <1>10 DEF Next

SafeInv == TypeOK /\ (Local => BucketInv)

\* So both hold always.
THEOREM BucketsSafe == Spec => []SafeInv
<1>1. Init => SafeInv
  BY TypeInitially, BucketInitially DEF SafeInv
<1>2. SafeInv /\ [Next]_vars => SafeInv'
  BY TypeStep, BucketStep DEF SafeInv, Local
<1> QED BY <1>1, <1>2, PTL DEF Spec

\* In one zone at a time, what the character's zone has cached is the row of the table.
THEOREM CacheIsRow == Spec => []CacheCoherent
<1>1. SafeInv => CacheCoherent
  BY DEF SafeInv, Local, BucketInv, CacheCoherent, TypeOK
<1> QED BY <1>1, BucketsSafe, PTL

\* ... and the row holds what the sets and deletes so far leave, one after the other.
THEOREM NoWriteLost == Spec => []LastWriteKept
<1>1. ASSUME SafeInv, Local PROVE Content(row) = Live(store)
  BY <1>1, Constants DEF SafeInv, BucketInv, Content, Live, Expired
<1>2. SafeInv => LastWriteKept
  BY <1>1 DEF Local, LastWriteKept
<1> QED BY <1>2, BucketsSafe, PTL

-------------------------------------------------------------------------------
(* The task scheduler: its types. *)

\* The types hold in the beginning.
THEOREM PoolTypeInitially == Pool!Init => Pool!TypeOK
BY DEF Pool!Init, Pool!TypeOK, Pool!Doing

\* Every step of the pool keeps them.
THEOREM PoolTypeStep == Pool!TypeOK /\ [Pool!Next]_Pool!vars => Pool!TypeOK'
<1> SUFFICES ASSUME Pool!TypeOK, [Pool!Next]_Pool!vars PROVE Pool!TypeOK'
  OBVIOUS
<1> DEFINE W == [pc : {"test", "parking", "waiting", "working", "ended"}, task : Nat]
<1> USE DEF Pool!TypeOK
<1>1. ASSUME NEW w \in Workers, Pool!Test(w) PROVE Pool!TypeOK'
  <2>1. tasks # <<>> => Head(tasks) \in Nat /\ Tail(tasks) \in Seq(Nat)
    OBVIOUS
  <2>2. tasks' \in Seq(Nat)
    BY <1>1, <2>1 DEF Pool!Test
  <2>3. worker' \in [Workers -> W]
    <3>1. /\ Pool!Doing("ended") \in W /\ Pool!Doing("parking") \in W
          /\ tasks # <<>> => [pc |-> "working", task |-> Head(tasks)] \in W
      BY <2>1 DEF Pool!Doing
    <3>2. worker \in [Workers -> W]
      OBVIOUS
    <3> HIDE DEF W
    <3> QED BY <1>1, <3>1, <3>2 DEF Pool!Test
  <2> QED BY <1>1, <2>2, <2>3 DEF Pool!Test
<1>2. ASSUME NEW w \in Workers, Pool!Park(w) PROVE Pool!TypeOK'
  BY <1>2 DEF Pool!Park, Pool!Doing
<1>3. ASSUME NEW w \in Workers, Pool!Wake(w) PROVE Pool!TypeOK'
  BY <1>3 DEF Pool!Wake, Pool!Doing
<1>4. ASSUME NEW w \in Workers, Pool!Run(w) PROVE Pool!TypeOK'
  <2>1. worker[w].task \in Nat
    OBVIOUS
  <2> QED BY <1>4, <2>1 DEF Pool!Run, Pool!Doing
<1>5. ASSUME NEW c \in Callers, Pool!CheckRunning(c) PROVE Pool!TypeOK'
  BY <1>5 DEF Pool!CheckRunning, Pool!Doing
<1>6. ASSUME NEW c \in Callers, Pool!Push(c) PROVE Pool!TypeOK'
  BY <1>6 DEF Pool!Push
<1>7. ASSUME NEW c \in Callers, Pool!Notify(c) PROVE Pool!TypeOK'
  <2>1. worker' \in [Workers -> W]
    <3>1. Pool!Doing("test") \in W
      BY DEF Pool!Doing
    <3> HIDE DEF W
    <3>2. worker \in [Workers -> W]
      BY DEF W
    <3> QED BY <1>7, <3>1, <3>2 DEF Pool!Notify, Pool!Waiting
  <2>2. [caller EXCEPT ![c].pc = "awaiting"] \in [Callers -> [pc : {"idle", "checked", "pushed", "awaiting"}, task : Nat]]
    OBVIOUS
  <2> QED BY <1>7, <2>1, <2>2 DEF Pool!Notify
<1>8. ASSUME NEW c \in Callers, Pool!Return(c) PROVE Pool!TypeOK'
  BY <1>8 DEF Pool!Return, Pool!Doing
<1>9. ASSUME Pool!ClearRunning PROVE Pool!TypeOK'
  BY <1>9 DEF Pool!ClearRunning
<1>10. ASSUME Pool!NotifyAll PROVE Pool!TypeOK'
  BY <1>10 DEF Pool!NotifyAll, Pool!Waiting, Pool!Doing
<1>11. ASSUME Pool!Join PROVE Pool!TypeOK'
  BY <1>11 DEF Pool!Join
<1>12. CASE UNCHANGED Pool!vars
  BY <1>12 DEF Pool!vars
<1> QED BY <1>1, <1>2, <1>3, <1>4, <1>5, <1>6, <1>7, <1>8, <1>9, <1>10, <1>11, <1>12 DEF Pool!Next

\* Every variable keeps its type.
THEOREM PoolTypeCorrect == Pool!Spec => []Pool!TypeOK
BY PoolTypeInitially, PoolTypeStep, PTL DEF Pool!Spec

-------------------------------------------------------------------------------
(* The task scheduler: Stop. *)

\* `running' is cleared by Stop alone, and once the workers have been notified none is about
\* to sleep, or asleep, but those that were about to.
StopInv ==
    /\ Pool!TypeOK
    /\ running <=> owner = "up"
    /\ owner \in {"joining", "stopped"} =>
          \A w \in Workers : worker[w].pc \in {"parking", "waiting"} => w \in missed

\* In the beginning the scheduler runs.
THEOREM StopInitially == Pool!Init => StopInv
BY PoolTypeInitially DEF Pool!Init, StopInv

\* Every step of the pool keeps StopInv.
THEOREM StopStep == StopInv /\ [Pool!Next]_Pool!vars => StopInv'
<1> SUFFICES ASSUME StopInv, [Pool!Next]_Pool!vars PROVE StopInv'
  OBVIOUS
<1> Pool!TypeOK'
  BY PoolTypeStep DEF StopInv
<1> USE DEF StopInv, Pool!TypeOK
<1>1. ASSUME NEW w \in Workers, Pool!Test(w) PROVE StopInv'
  <2>1. worker'[w].pc \in {"parking", "waiting"} => owner = "up"
    BY <1>1 DEF Pool!Test, Pool!Doing
  <2>2. \A v \in Workers : v # w => worker'[v] = worker[v]
    BY <1>1 DEF Pool!Test
  <2>3. UNCHANGED <<running, owner, missed>>
    BY <1>1 DEF Pool!Test
  <2> QED BY <2>1, <2>2, <2>3
<1>2. ASSUME NEW w \in Workers, Pool!Park(w) PROVE StopInv'
  BY <1>2 DEF Pool!Park, Pool!Doing
<1>3. ASSUME NEW w \in Workers, Pool!Wake(w) PROVE StopInv'
  BY <1>3 DEF Pool!Wake, Pool!Doing
<1>4. ASSUME NEW w \in Workers, Pool!Run(w) PROVE StopInv'
  BY <1>4 DEF Pool!Run, Pool!Doing
<1>5. ASSUME NEW c \in Callers, Pool!CheckRunning(c) \/ Pool!Push(c) \/ Pool!Return(c) PROVE StopInv'
  BY <1>5 DEF Pool!CheckRunning, Pool!Push, Pool!Return
<1>6. ASSUME NEW c \in Callers, Pool!Notify(c) PROVE StopInv'
  BY <1>6 DEF Pool!Notify, Pool!Waiting, Pool!Doing
<1>7. ASSUME Pool!ClearRunning PROVE StopInv'
  BY <1>7 DEF Pool!ClearRunning
<1>8. ASSUME Pool!NotifyAll PROVE StopInv'
  BY <1>8 DEF Pool!NotifyAll, Pool!Waiting, Pool!Doing
<1>9. ASSUME Pool!Join PROVE StopInv'
  BY <1>9 DEF Pool!Join
<1>10. CASE UNCHANGED Pool!vars
  BY <1>10 DEF Pool!vars
<1> QED BY <1>1, <1>2, <1>3, <1>4, <1>5, <1>6, <1>7, <1>8, <1>9, <1>10 DEF Pool!Next

\* Stop wakes every worker but those that had tested `running' and were not asleep yet.
THEOREM StopWakes == Pool!Spec => []Pool!SleepersMissed
<1>1. StopInv => Pool!SleepersMissed
  BY DEF StopInv, Pool!SleepersMissed, Pool!Waiting
<1> QED BY <1>1, StopInitially, StopStep, PTL DEF Pool!Spec

-------------------------------------------------------------------------------
(* The task scheduler: its queue. *)

\* The queue when `taken' of the tasks enqueued have left it.
Queue(taken, n) == [i \in 1 .. n - taken |-> taken + i]

\* The queue loses its first task to a worker, and gets the next at its end.
LEMMA QueueHead ==
    ASSUME NEW n \in Nat, NEW taken \in 0 .. n
    PROVE  /\ Queue(taken, n) \in Seq(Nat)
           /\ Queue(taken, n) = <<>> <=> taken = n
           /\ taken # n => Head(Queue(taken, n)) = taken + 1 /\ Tail(Queue(taken, n)) = Queue(taken + 1, n)
           /\ Append(Queue(taken, n), n + 1) = Queue(taken, n + 1)
<1> DEFINE q == Queue(taken, n)
<1>1. q \in Seq(Nat) /\ Len(q) = n - taken /\ DOMAIN q = 1 .. n - taken
  BY DEF Queue
<1>2. q = <<>> <=> taken = n
  BY <1>1
<1>3. ASSUME taken # n PROVE Head(q) = taken + 1 /\ Tail(q) = Queue(taken + 1, n)
  <2>1. Head(q) = taken + 1
    BY <1>1, <1>3 DEF Queue
  <2>2. Tail(q) \in Seq(Nat) /\ Len(Tail(q)) = n - (taken + 1)
        /\ \A i \in 1 .. n - (taken + 1) : Tail(q)[i] = q[i + 1]
    BY <1>1, <1>2, <1>3, HeadTailProperties
  <2>3. Queue(taken + 1, n) \in Seq(Nat) /\ Len(Queue(taken + 1, n)) = n - (taken + 1)
    BY <1>3 DEF Queue
  <2>4. \A i \in 1 .. n - (taken + 1) : q[i + 1] = Queue(taken + 1, n)[i]
    BY DEF Queue
  <2>5. Tail(q) = Queue(taken + 1, n)
    BY <2>2, <2>3, <2>4, SeqEqual
  <2> QED BY <2>1, <2>5
<1>4. Append(q, n + 1) = Queue(taken, n + 1)
  BY <1>1 DEF Queue
<1> QED BY <1>1, <1>2, <1>3, <1>4

\* What each step does to the tasks that are running.
Distinct == \A v, w \in Workers : worker[v].pc = "working" /\ worker[w].pc = "working" /\ v # w =>
                                     worker[v].task # worker[w].task

\* The tasks being run are the same if no worker takes or ends one.
LEMMA RunningSame ==
    ASSUME \A v \in Workers : worker'[v] = worker[v] \/ {worker[v].pc, worker'[v].pc} \cap {"working"} = {}
    PROVE  Pool!Running' = Pool!Running /\ (Distinct => Distinct')
<1>1. \A v \in Workers : worker'[v].pc = "working" <=> worker[v].pc = "working"
  OBVIOUS
<1>2. \A v \in Workers : worker[v].pc = "working" => worker'[v] = worker[v]
  OBVIOUS
<1> QED BY <1>1, <1>2, Zenon DEF Pool!Running, Distinct

QueueInv(taken) ==
    /\ taken \in 0 .. added
    /\ tasks = Queue(taken, added)
    /\ done \cup Pool!Running = 1 .. taken
    /\ done \cap Pool!Running = {}
    /\ Distinct

OnceInv == Pool!TypeOK /\ \E taken \in Nat : QueueInv(taken)

\* In the beginning nothing is queued.
THEOREM OnceInitially == Pool!Init => OnceInv
<1> SUFFICES ASSUME Pool!Init PROVE OnceInv
  OBVIOUS
<1>1. Pool!TypeOK
  BY PoolTypeInitially
<1>2. Pool!Running = {} /\ Distinct
  BY DEF Pool!Init, Pool!Running, Distinct, Pool!Doing
<1>3. tasks = Queue(0, added)
  BY QueueHead DEF Pool!Init
<1>4. QueueInv(0)
  BY <1>2, <1>3 DEF QueueInv, Pool!Init
<1> QED BY <1>1, <1>4 DEF OnceInv

\* Every step of the pool keeps OnceInv.
THEOREM OnceStep == OnceInv /\ [Pool!Next]_Pool!vars => OnceInv'
<1> SUFFICES ASSUME Pool!TypeOK, NEW taken \in Nat, QueueInv(taken), [Pool!Next]_Pool!vars
             PROVE  \E t \in Nat : QueueInv(t)'
  BY PoolTypeStep DEF OnceInv
<1>a. added \in Nat /\ taken \in 0 .. added /\ DOMAIN worker = Workers
  BY DEF QueueInv, Pool!TypeOK
<1>b. worker \in [Workers -> [pc : {"test", "parking", "waiting", "working", "ended"}, task : Nat]]
  BY DEF Pool!TypeOK
<1> DEFINE Quiet == UNCHANGED <<added, tasks, done>>
<1>0. ASSUME Quiet, Pool!Running' = Pool!Running, Distinct => Distinct' PROVE QueueInv(taken)'
  BY <1>0, Zenon DEF QueueInv
<1>1. ASSUME NEW w \in Workers, Pool!Test(w), tasks = <<>> \/ ~running PROVE QueueInv(taken)'
  <2>1. Quiet
    BY <1>1 DEF Pool!Test
  <2>2. worker[w].pc = "test" /\ worker'[w].pc # "working" /\ \A v \in Workers : v # w => worker'[v] = worker[v]
    BY <1>1, <1>a DEF Pool!Test, Pool!Doing
  <2> QED BY <2>1, <2>2, <1>0, RunningSame
<1>2. ASSUME NEW w \in Workers, Pool!Test(w), ~(tasks = <<>> \/ ~running) PROVE QueueInv(taken + 1)'
  <2>1. /\ worker[w].pc = "test" /\ worker' = [worker EXCEPT ![w] = [pc |-> "working", task |-> Head(tasks)]]
        /\ tasks' = Tail(tasks) /\ UNCHANGED <<added, done>>
    BY <1>2 DEF Pool!Test
  <2>2. taken # added /\ Head(tasks) = taken + 1 /\ tasks' = Queue(taken + 1, added)
    BY <2>1, <1>2, <1>a, QueueHead DEF QueueInv
  <2>3. worker'[w] = [pc |-> "working", task |-> taken + 1] /\ \A v \in Workers : v # w => worker'[v] = worker[v]
    BY <2>1, <2>2, <1>a
  <2>4. Pool!Running' = Pool!Running \cup {taken + 1}
    BY <2>1, <2>3 DEF Pool!Running
  <2>5. taken + 1 \notin Pool!Running \cup done /\ Pool!Running \cup done = 1 .. taken
    BY <1>a DEF QueueInv
  <2>6. \A v \in Workers : worker[v].pc = "working" => worker[v].task # taken + 1
    BY <2>5 DEF Pool!Running
  <2>7. Distinct'
    BY <2>1, <2>3, <2>6 DEF Distinct, QueueInv
  <2>8. 1 .. taken + 1 = (1 .. taken) \cup {taken + 1} /\ taken + 1 \in 0 .. added
    BY <1>a, <2>2
  <2>9. done' \cup Pool!Running' = 1 .. taken + 1 /\ done' \cap Pool!Running' = {}
    BY <2>1, <2>4, <2>5, <2>8 DEF QueueInv
  <2> QED BY <2>1, <2>2, <2>7, <2>8, <2>9 DEF QueueInv
<1>3. ASSUME NEW w \in Workers, Pool!Park(w) \/ Pool!Wake(w) PROVE QueueInv(taken)'
  <2>1. Quiet
    BY <1>3 DEF Pool!Park, Pool!Wake
  <2>2. worker[w].pc # "working" /\ worker'[w].pc # "working" /\ \A v \in Workers : v # w => worker'[v] = worker[v]
    BY <1>3, <1>a DEF Pool!Park, Pool!Wake, Pool!Doing
  <2> QED BY <2>1, <2>2, <1>0, RunningSame
<1>4. ASSUME NEW w \in Workers, Pool!Run(w) PROVE QueueInv(taken)'
  <2> DEFINE t == worker[w].task
  <2>1. worker[w].pc = "working" /\ done' = done \cup {t} /\ UNCHANGED <<tasks, added>>
    BY <1>4 DEF Pool!Run
  <2>2. worker'[w].pc = "test" /\ \A v \in Workers : v # w => worker'[v] = worker[v]
    BY <1>4, <1>a DEF Pool!Run, Pool!Doing
  <2>3. t \in Pool!Running /\ Pool!Running' = Pool!Running \ {t}
    BY <2>1, <2>2 DEF Pool!Running, Distinct, QueueInv
  <2>4. Distinct'
    BY <2>2 DEF Distinct, QueueInv
  <2> QED BY <2>1, <2>3, <2>4 DEF QueueInv
<1>5. ASSUME NEW c \in Callers, Pool!CheckRunning(c) \/ Pool!Return(c) PROVE QueueInv(taken)'
  BY <1>5, <1>0, RunningSame DEF Pool!CheckRunning, Pool!Return
<1>6. ASSUME NEW c \in Callers, Pool!Push(c) PROVE QueueInv(taken)'
  <2>1. tasks' = Append(tasks, added + 1) /\ added' = added + 1 /\ UNCHANGED <<worker, done>>
    BY <1>6 DEF Pool!Push
  <2>2. tasks' = Queue(taken, added')
    BY <2>1, <1>a, QueueHead DEF QueueInv
  <2>3. Pool!Running' = Pool!Running /\ (Distinct => Distinct')
    BY <2>1, RunningSame
  <2> QED BY <2>1, <2>2, <2>3, <1>a DEF QueueInv
<1>7. ASSUME NEW c \in Callers, Pool!Notify(c) PROVE QueueInv(taken)'
  <2>1. Quiet
    BY <1>7 DEF Pool!Notify
  <2>2. \A v \in Workers : worker'[v] = worker[v] \/ (worker[v].pc = "waiting" /\ worker'[v].pc = "test")
    BY <1>7, <1>a DEF Pool!Notify, Pool!Waiting, Pool!Doing
  <2> QED BY <2>1, <2>2, <1>0, RunningSame
<1>8. ASSUME Pool!NotifyAll PROVE QueueInv(taken)'
  <2>1. Quiet
    BY <1>8 DEF Pool!NotifyAll
  <2>2. \A v \in Workers : worker'[v] = worker[v] \/ (worker[v].pc = "waiting" /\ worker'[v].pc = "test")
    BY <1>8, <1>a DEF Pool!NotifyAll, Pool!Waiting, Pool!Doing
  <2> QED BY <2>1, <2>2, <1>0, RunningSame
<1>9. ASSUME Pool!ClearRunning \/ Pool!Join \/ UNCHANGED Pool!vars PROVE QueueInv(taken)'
  BY <1>9, <1>0, RunningSame DEF Pool!ClearRunning, Pool!Join, Pool!vars
<1> QED BY <1>1, <1>2, <1>3, <1>4, <1>5, <1>6, <1>7, <1>8, <1>9 DEF Pool!Next

\* The tasks are taken in order, each by one worker, and none is run again.
THEOREM TasksOnce == Pool!Spec => []Pool!OnceEach
<1>1. OnceInv => Pool!OnceEach
  BY DEF OnceInv, QueueInv, Pool!OnceEach, Queue, Distinct
<1> QED BY <1>1, OnceInitially, OnceStep, PTL DEF Pool!Spec

-------------------------------------------------------------------------------
(* A link: the stream of a connection. *)

\* The kth unit of the frames of the messages s.
Unit(s, k) == [part |-> IF k % 2 = 1 THEN "head" ELSE "body", of |-> s[(k + 1) \div 2]]

\* The first m units of w are what comes after the first k units of s.
Follows(w, s, k, m) == \A i \in 1 .. m : w[i] = Unit(s, k + i)

\* The first m messages of g are what comes after the first k of s.
Whole(g, s, k, m) == \A i \in 1 .. m : g[i] = [head |-> s[k + i], body |-> s[k + i]]

\* The first m elements of v are those of w after the first k.
After(v, w, k, m) == \A i \in 1 .. m : v[i] = w[k + i]

\* The messages s were sent, and g read; b has been received and w is on its way.
Through(g, s, b, w) ==
    /\ Whole(g, s, 0, Len(g))
    /\ 2 * Len(g) + Len(b) + Len(w) = 2 * Len(s)
    /\ Follows(b, s, 2 * Len(g), Len(b)) /\ Follows(w, s, 2 * Len(g) + Len(b), Len(w))

\* One sequence after another.
LEMMA Joined ==
    ASSUME NEW S, NEW s \in Seq(S), NEW t \in Seq(S), NEW m \in Nat, NEW n \in Nat, m = Len(s), n = Len(t)
    PROVE  /\ s \o t \in Seq(S) /\ Len(s \o t) = m + n
           /\ After(s, s \o t, 0, m) /\ After(t, s \o t, m, n)
<1>1. /\ s \o t \in Seq(S) /\ Len(s \o t) = m + n
      /\ \A i \in 1 .. m + n : (s \o t)[i] = IF i <= m THEN s[i] ELSE t[i - m]
  BY ConcatProperties
<1>2. \A i \in 1 .. m : 0 + i = i /\ i \in 1 .. m + n /\ i <= m
  OBVIOUS
<1>3. \A i \in 1 .. n : m + i \in 1 .. m + n /\ ~(m + i <= m) /\ (m + i) - m = i
  OBVIOUS
<1>4. (\A i \in 1 .. m : (s \o t)[0 + i] = s[i]) /\ \A i \in 1 .. n : (s \o t)[m + i] = t[i]
  BY <1>1, <1>2, <1>3
<1> QED
  BY <1>1, <1>4 DEF After

\* The first a elements of a sequence, and the others.
LEMMA CutFront ==
    ASSUME NEW S, NEW s \in Seq(S), NEW a \in 0 .. Len(s)
    PROVE  /\ SubSeq(s, 1, a) \in Seq(S) /\ Len(SubSeq(s, 1, a)) = a
           /\ After(s, SubSeq(s, 1, a), 0, a)
<1>1. a \in Nat /\ \A i \in 1 .. a : s[i] \in S
  OBVIOUS
<1>2. /\ SubSeq(s, 1, a) \in Seq(S) /\ Len(SubSeq(s, 1, a)) = IF 1 <= a THEN a - 1 + 1 ELSE 0
      /\ \A i \in 1 .. a - 1 + 1 : SubSeq(s, 1, a)[i] = s[1 + i - 1]
  BY <1>1, SubSeqProperties
<1>3. /\ a - 1 + 1 = a /\ (IF 1 <= a THEN a - 1 + 1 ELSE 0) = a
      /\ \A i \in 1 .. a : 0 + i = i /\ 1 + i - 1 = i
  BY <1>1
<1>4. \A i \in 1 .. a : s[i] = SubSeq(s, 1, a)[0 + i]
  BY <1>2, <1>3
<1> QED
  BY <1>2, <1>3, <1>4 DEF After

\* What is left of a sequence when its beginning has been taken.
LEMMA CutBack ==
    ASSUME NEW S, NEW s \in Seq(S), NEW a \in 0 .. Len(s)
    PROVE  /\ SubSeq(s, a + 1, Len(s)) \in Seq(S) /\ Len(SubSeq(s, a + 1, Len(s))) = Len(s) - a
           /\ After(SubSeq(s, a + 1, Len(s)), s, a, Len(s) - a)
<1> DEFINE n == Len(s)
           r == SubSeq(s, a + 1, n)
<1>1. a \in Nat /\ n \in Nat /\ a <= n /\ \A i \in a + 1 .. n : s[i] \in S
  OBVIOUS
<1> HIDE DEF n
<1>2. /\ r \in Seq(S) /\ Len(r) = IF a + 1 <= n THEN n - (a + 1) + 1 ELSE 0
      /\ \A i \in 1 .. n - (a + 1) + 1 : r[i] = s[a + 1 + i - 1]
  BY <1>1, SubSeqProperties
<1> HIDE DEF r
<1>3. /\ n - (a + 1) + 1 = n - a /\ (IF a + 1 <= n THEN n - (a + 1) + 1 ELSE 0) = n - a
      /\ \A i \in 1 .. n - a : a + 1 + i - 1 = a + i
  BY <1>1
<1>4. \A i \in 1 .. n - a : r[i] = s[a + i]
  BY <1>2, <1>3
<1>5. r \in Seq(S) /\ Len(r) = n - a /\ After(r, s, a, n - a)
  BY <1>2, <1>3, <1>4 DEF After
<1> QED
  BY <1>5 DEF n, r

\* The units of the message after the first n.
LEMMA NextUnits ==
    ASSUME NEW n \in Nat
    PROVE  /\ (2 * n + 1) % 2 = 1 /\ (2 * n + 1 + 1) \div 2 = n + 1
           /\ (2 * n + 2) % 2 = 0 /\ (2 * n + 2 + 1) \div 2 = n + 1
OBVIOUS

\* Half the length of a buffer.
LEMMA Halves ==
    ASSUME NEW f \in Nat, NEW n \in Nat
    PROVE  /\ n \div 2 \in Nat /\ 0 .. n \div 2 \subseteq Nat
           /\ f <= n \div 2 => 2 * f <= n
           /\ n > 2 * f + 1 => f # n \div 2
OBVIOUS

\* The units of the jth message after the first n.
LEMMA UnitsOf ==
    ASSUME NEW n \in Nat, NEW j \in Nat \ {0}
    PROVE  /\ (2 * n + (2 * j - 1) + 1) \div 2 = n + j
           /\ (2 * n + 2 * j + 1) \div 2 = n + j
OBVIOUS

\* A unit in the place of a head is one.
LEMMA HeadPlace ==
    ASSUME NEW s, NEW n \in Nat, NEW f \in Nat
    PROVE  Unit(s, 2 * n + (2 * f + 1)).part = "head"
<1> DEFINE k == 2 * n + (2 * f + 1)
<1>1. k % 2 = 1
  OBVIOUS
<1> HIDE DEF k
<1>2. Unit(s, k).part = "head"
  BY <1>1 DEF Unit
<1> QED
  BY <1>2 DEF k

\* Where a unit stands that has just come.
LEMMA Beyond ==
    ASSUME NEW a \in Nat, NEW b \in Nat, NEW w \in Nat, NEW k \in 1 .. w, NEW i \in 1 .. b + k, i \notin 1 .. b
    PROVE  /\ i - b \in 1 .. k /\ i - b \in 1 .. w
           /\ b + (i - b) = i /\ 2 * a + b + (i - b) = 2 * a + i
OBVIOUS

\* A message sent and not read has two units more in the buffer or on the way.
LEMMA TwoMore ==
    ASSUME NEW a \in Nat, NEW b \in Nat, NEW c \in Nat, NEW d \in Nat, 2 * a + b + c = 2 * d
    PROVE  /\ 2 * a + b + (c + 2) = 2 * (d + 1)
           /\ 2 * a + b + (c + 1) = 2 * d + 1
           /\ 2 * a + b \in Nat
           /\ \A i \in 1 .. b : 2 * a + i \in 1 .. 2 * d
           /\ \A i \in 1 .. c : 2 * a + b + i \in 1 .. 2 * d
           /\ \A i \in 1 .. a : i \in 1 .. d
OBVIOUS

\* A message more does not change the units before.
LEMMA UnitKept ==
    ASSUME NEW s \in Seq(Nat), NEW n \in Nat, NEW k \in 1 .. 2 * Len(s)
    PROVE  Unit(Append(s, n), k) = Unit(s, k)
<1>1. (k + 1) \div 2 \in 1 .. Len(s)
  OBVIOUS
<1> QED
  BY <1>1 DEF Unit

\* A message is written.
LEMMA ThroughWrite ==
    ASSUME NEW g \in Seq(Link!Messages), NEW s \in Seq(Nat), NEW b \in Seq(Link!Units), NEW w \in Seq(Link!Units),
           Through(g, s, b, w), NEW n \in Nat
    PROVE  Through(g, Append(s, n), b, w \o Link!Frame(n))
<1> DEFINE t == Append(s, n)
           v == w \o Link!Frame(n)
<1>1. PICK ng \in Nat, ns \in Nat, nb \in Nat, nw \in Nat :
          Len(g) = ng /\ Len(s) = ns /\ Len(b) = nb /\ Len(w) = nw
  OBVIOUS
<1>2. Len(t) = ns + 1 /\ t[ns + 1] = n /\ (\A i \in 1 .. ns : t[i] = s[i]) /\ DOMAIN g = 1 .. ng
  BY <1>1
<1>3. /\ Len(v) = nw + 2 /\ \A i \in 1 .. nw : v[i] = w[i]
      /\ v[nw + 1] = [part |-> "head", of |-> n] /\ v[nw + 2] = [part |-> "body", of |-> n]
  BY <1>1 DEF Link!Frame
<1>4. \A k \in 1 .. 2 * ns : Unit(t, k) = Unit(s, k)
  BY <1>1, UnitKept
<1>5. /\ \A i \in 1 .. ng : g[i] = [head |-> s[i], body |-> s[i]]
      /\ 2 * ng + nb + nw = 2 * ns
      /\ \A i \in 1 .. nb : b[i] = Unit(s, 2 * ng + i)
      /\ \A i \in 1 .. nw : w[i] = Unit(s, 2 * ng + nb + i)
  BY <1>1 DEF Through, Follows, Whole
<1> HIDE DEF t, v
<1>6. /\ 2 * ng + nb + (nw + 2) = 2 * (ns + 1)
      /\ 2 * ng + nb + (nw + 1) = 2 * ns + 1
      /\ \A i \in 1 .. nb : 2 * ng + i \in 1 .. 2 * ns
      /\ \A i \in 1 .. nw : 2 * ng + nb + i \in 1 .. 2 * ns
      /\ \A i \in 1 .. ng : i \in 1 .. ns
  BY <1>5, TwoMore
<1>7. \A i \in 1 .. ng : g[i] = [head |-> t[i], body |-> t[i]]
  BY <1>2, <1>5, <1>6
<1>8. \A i \in 1 .. nb : b[i] = Unit(t, 2 * ng + i)
  BY <1>4, <1>5, <1>6
<1>9. \A i \in 1 .. nw : v[i] = Unit(t, 2 * ng + nb + i)
  BY <1>3, <1>4, <1>5, <1>6
<1>10. v[nw + 1] = Unit(t, 2 * ng + nb + (nw + 1))
  <2>1. Unit(t, 2 * ns + 1) = [part |-> "head", of |-> n]
    BY <1>2, NextUnits DEF Unit
  <2> QED
    BY <1>3, <1>6, <2>1
<1>11. v[nw + 2] = Unit(t, 2 * ng + nb + (nw + 2))
  <2>1. Unit(t, 2 * ns + 2) = [part |-> "body", of |-> n]
    <3> DEFINE k == 2 * ns + 2
    <3>1. k % 2 # 1 /\ (k + 1) \div 2 = ns + 1
      BY NextUnits
    <3> HIDE DEF k
    <3>2. Unit(t, k) = [part |-> "body", of |-> n]
      BY <1>2, <3>1 DEF Unit
    <3> QED
      BY <3>2 DEF k
  <2>2. 2 * (ns + 1) = 2 * ns + 2
    OBVIOUS
  <2> QED
    BY <1>3, <1>6, <2>1, <2>2
<1>12. \A i \in 1 .. nw + 2 : i \in 1 .. nw \/ i = nw + 1 \/ i = nw + 2
  OBVIOUS
<1>13. Follows(v, t, 2 * ng + nb, nw + 2)
  BY <1>3, <1>9, <1>10, <1>11, <1>12 DEF Follows
<1>14. Follows(b, t, 2 * ng, nb)
  BY <1>8 DEF Follows
<1>15. Whole(g, t, 0, ng)
  BY <1>7 DEF Whole
<1> QED
  BY <1>1, <1>2, <1>3, <1>6, <1>13, <1>14, <1>15 DEF Through, t, v

-------------------------------------------------------------------------------
(* A link: what a buffer holds. *)

\* There is a first thing that cannot be a head, or the end.
LEMMA FramesThere ==
    ASSUME NEW b \in Seq(Link!Units)
    PROVE  /\ Link!Frames(b) \in 0 .. Len(b) \div 2
           /\ \A i \in 1 .. Link!Frames(b) : b[2 * i - 1].part = "head"
           /\ Link!Frames(b) = Len(b) \div 2 \/ b[2 * Link!Frames(b) + 1].part = "body"
<1> DEFINE T == {k \in 0 .. Len(b) \div 2 : k = Len(b) \div 2 \/ b[2 * k + 1].part = "body"}
<1>1. Len(b) \in Nat /\ Len(b) \div 2 \in Nat
  OBVIOUS
<1>2. T \subseteq Nat /\ Len(b) \div 2 \in T
  BY <1>1
<1>3. \E k \in T : \A y \in T : ~(<<y, k>> \in OpToRel(<, Nat))
  <2> HIDE DEF T
  <2>1. T # {}
    BY <1>2
  <2> QED
    BY <1>2, <2>1, WFMin, NatLessThanWellFounded
<1>4. PICK k \in T : \A y \in T : ~(y < k)
  BY <1>2, <1>3 DEF OpToRel
<1>5. k \in 0 .. Len(b) \div 2 /\ (k = Len(b) \div 2 \/ b[2 * k + 1].part = "body")
  OBVIOUS
<1>6. \A i \in 1 .. k : b[2 * i - 1].part = "head"
  <2> SUFFICES ASSUME NEW i \in 1 .. k PROVE b[2 * i - 1].part = "head"
    OBVIOUS
  <2>1. i - 1 \in 0 .. Len(b) \div 2 /\ i - 1 < k /\ 2 * (i - 1) + 1 = 2 * i - 1 /\ i - 1 # Len(b) \div 2
    BY <1>1, <1>5
  <2>2. b[2 * i - 1].part # "body"
    BY <1>4, <2>1
  <2>3. 2 * i - 1 \in 1 .. Len(b)
    BY <1>1, <1>5
  <2>4. b[2 * i - 1] \in Link!Units
    BY <2>3
  <2> QED
    BY <2>2, <2>4 DEF Link!Units
<1> QED
  BY <1>5, <1>6 DEF Link!Frames

\* The frames of a buffer are messages, and the rest units.
LEMMA ReadTyped ==
    ASSUME NEW b \in Seq(Link!Units)
    PROVE  Link!Read(b) \in Seq(Link!Messages) /\ Len(Link!Read(b)) = Link!Frames(b) /\ Link!Rest(b) \in Seq(Link!Units)
<1>1. PICK f \in Nat, n \in Nat : f = Link!Frames(b) /\ n = Len(b) /\ 2 * f <= n
  <2>1. Link!Frames(b) \in 0 .. Len(b) \div 2 /\ Len(b) \in Nat
    BY FramesThere
  <2>2. Link!Frames(b) \in Nat /\ Link!Frames(b) <= Len(b) \div 2
    BY <2>1, Halves
  <2> QED
    BY <2>1, <2>2, Halves
<1>2. \A i \in 1 .. n : b[i].of \in Nat
  <2>1. \A i \in 1 .. n : b[i] \in Link!Units
    BY <1>1
  <2> QED
    BY <2>1 DEF Link!Units
<1>3. \A i \in 1 .. f : 2 * i - 1 \in 1 .. n /\ 2 * i \in 1 .. n
  BY <1>1
<1>4. Link!Read(b) = [i \in 1 .. f |-> [head |-> b[2 * i - 1].of, body |-> b[2 * i].of]]
  BY <1>1 DEF Link!Read
<1>5. \A i \in 1 .. f : [head |-> b[2 * i - 1].of, body |-> b[2 * i].of] \in Link!Messages
  BY <1>2, <1>3 DEF Link!Messages
<1>6. Link!Read(b) \in Seq(Link!Messages) /\ Len(Link!Read(b)) = f
  BY <1>4, <1>5
<1>7. Link!Rest(b) \in Seq(Link!Units)
  <2>1. 2 * f + 1 \in 1 .. n + 1
    BY <1>1
  <2> QED
    BY <1>1, <2>1 DEF Link!Rest
<1> QED
  BY <1>1, <1>6, <1>7

\* The first k units on the way arrive after what the buffer holds.
LEMMA Arriving ==
    ASSUME NEW b \in Seq(Link!Units), NEW w \in Seq(Link!Units), NEW k \in 0 .. Len(w)
    PROVE  /\ b \o SubSeq(w, 1, k) \in Seq(Link!Units) /\ Len(b \o SubSeq(w, 1, k)) = Len(b) + k
           /\ After(b, b \o SubSeq(w, 1, k), 0, Len(b)) /\ After(w, b \o SubSeq(w, 1, k), Len(b), k)
<1> DEFINE y == SubSeq(w, 1, k)
           n == Len(b)
<1>1. y \in Seq(Link!Units) /\ Len(y) = k /\ After(w, y, 0, k)
  BY CutFront
<1>2. k \in Nat /\ n \in Nat
  OBVIOUS
<1> HIDE DEF y, n
<1>3. b \o y \in Seq(Link!Units) /\ Len(b \o y) = n + k /\ After(b, b \o y, 0, n) /\ After(y, b \o y, n, k)
  BY <1>1, <1>2, Joined DEF n
<1>4. After(w, b \o y, n, k)
  <2>1. (\A i \in 1 .. k : w[i] = y[0 + i]) /\ \A i \in 1 .. k : y[i] = (b \o y)[n + i]
    BY <1>1, <1>3 DEF After
  <2>2. \A i \in 1 .. k : 0 + i = i
    BY <1>2
  <2> QED
    BY <2>1, <2>2 DEF After
<1> QED
  BY <1>3, <1>4 DEF y, n

\* Of a buffer that begins with a head all the messages are read, and at most a head is left.
LEMMA WholeFrames ==
    ASSUME NEW s, NEW x \in Seq(Link!Units), NEW n \in Nat, Follows(x, s, 2 * n, Len(x))
    PROVE  \E f \in Nat :
              /\ 2 * f <= Len(x) /\ Len(x) <= 2 * f + 1
              /\ Link!Read(x) \in Seq(Link!Messages) /\ Len(Link!Read(x)) = f
              /\ Whole(Link!Read(x), s, n, f)
              /\ Link!Rest(x) \in Seq(Link!Units) /\ Len(Link!Rest(x)) = Len(x) - 2 * f
              /\ After(Link!Rest(x), x, 2 * f, Len(x) - 2 * f)
<1> PICK m \in Nat : m = Len(x)
  OBVIOUS
<1>0. \A i \in 1 .. m : x[i] = Unit(s, 2 * n + i)
  BY DEF Follows
<1>1. /\ Link!Frames(x) \in 0 .. m \div 2
      /\ Link!Frames(x) = m \div 2 \/ x[2 * Link!Frames(x) + 1].part = "body"
  BY FramesThere
<1>2. PICK f \in Nat : f = Link!Frames(x) /\ f <= m \div 2 /\ ((f = m \div 2) \/ x[2 * f + 1].part = "body")
  <2> DEFINE f == Link!Frames(x)
             h == m \div 2
  <2>1. h \in Nat
    BY Halves
  <2>2. f \in 0 .. h
    BY <1>1
  <2>3. f = h \/ x[2 * f + 1].part = "body"
    BY <1>1
  <2> HIDE DEF f, h
  <2>4. f \in Nat /\ f <= h
    BY <2>1, <2>2
  <2> QED
    BY <2>3, <2>4 DEF f, h
<1>3. 2 * f <= m
  BY <1>2, Halves
<1>4. m <= 2 * f + 1
  <2> SUFFICES ASSUME m > 2 * f + 1 PROVE FALSE
    OBVIOUS
  <2>1. 2 * f + 1 \in 1 .. m
    OBVIOUS
  <2>2. f # m \div 2
    BY Halves
  <2>3. x[2 * f + 1].part = "head"
    BY <1>0, <2>1, HeadPlace
  <2> QED
    BY <1>2, <2>2, <2>3
<1>5. Link!Read(x) \in Seq(Link!Messages) /\ Len(Link!Read(x)) = f /\ Link!Rest(x) \in Seq(Link!Units)
  BY <1>2, ReadTyped
<1>6. ASSUME NEW j \in 1 .. f PROVE Link!Read(x)[j] = [head |-> s[n + j], body |-> s[n + j]]
  <2>1. Link!Read(x)[j] = [head |-> x[2 * j - 1].of, body |-> x[2 * j].of]
    BY <1>2 DEF Link!Read
  <2>2. 2 * j - 1 \in 1 .. m /\ 2 * j \in 1 .. m
    BY <1>3
  <2>3. x[2 * j - 1] = Unit(s, 2 * n + (2 * j - 1)) /\ x[2 * j] = Unit(s, 2 * n + 2 * j)
    BY <1>0, <2>2
  <2>4. (2 * n + (2 * j - 1) + 1) \div 2 = n + j /\ (2 * n + 2 * j + 1) \div 2 = n + j
    BY UnitsOf
  <2>5. \A i : Unit(s, i).of = s[(i + 1) \div 2]
    BY DEF Unit
  <2> QED
    BY <2>1, <2>3, <2>4, <2>5
<1>7. Len(Link!Rest(x)) = m - 2 * f /\ After(Link!Rest(x), x, 2 * f, m - 2 * f)
  <2>1. 2 * f \in 0 .. m
    BY <1>3
  <2>2. Link!Rest(x) = SubSeq(x, 2 * f + 1, Len(x))
    BY <1>2 DEF Link!Rest
  <2> DEFINE a == 2 * f
  <2>3. a \in 0 .. Len(x) /\ Link!Rest(x) = SubSeq(x, a + 1, Len(x))
    BY <2>1, <2>2
  <2> HIDE DEF a
  <2>4. Len(Link!Rest(x)) = Len(x) - a /\ After(Link!Rest(x), x, a, Len(x) - a)
    BY <2>3, CutBack
  <2> QED
    BY <2>4 DEF a
<1>8. Whole(Link!Read(x), s, n, f)
  BY <1>6 DEF Whole
<1> QED
  BY <1>3, <1>4, <1>5, <1>7, <1>8

\* What is read is what was sent next, and the units behind it follow.
LEMMA ReadOn ==
    ASSUME NEW g \in Seq(Link!Messages), NEW y \in Seq(Link!Messages), NEW s, NEW n \in Nat, NEW f \in Nat,
           n = Len(g), f = Len(y),
           Whole(g, s, 0, n), Whole(y, s, n, f)
    PROVE  Len(g \o y) = n + f /\ Whole(g \o y, s, 0, n + f)
<1>1. /\ Len(g \o y) = n + f
      /\ \A i \in 1 .. n : (g \o y)[i] = g[i]
      /\ \A j \in 1 .. f : (g \o y)[n + j] = y[j]
  <2>1. Len(g \o y) = n + f /\ After(g, g \o y, 0, n) /\ After(y, g \o y, n, f)
    BY Joined
  <2>2. \A i \in 1 .. n : 0 + i = i
    OBVIOUS
  <2> QED
    BY <2>1, <2>2 DEF After
<1>2. \A i \in 1 .. n + f : i \in 1 .. n \/ (i - n \in 1 .. f /\ n + (i - n) = i)
  OBVIOUS
<1>3. /\ \A i \in 1 .. n : g[i] = [head |-> s[i], body |-> s[i]]
      /\ \A j \in 1 .. f : y[j] = [head |-> s[n + j], body |-> s[n + j]]
  <2>1. \A i \in 1 .. n : 0 + i = i
    OBVIOUS
  <2> QED
    BY <2>1 DEF Whole
<1>4. ASSUME NEW i \in 1 .. n + f PROVE (g \o y)[i] = [head |-> s[0 + i], body |-> s[0 + i]]
  BY <1>1, <1>2, <1>3
<1> QED
  BY <1>1, <1>4 DEF Whole

\* What is left of a stream after its first e units.
LEMMA LeftOver ==
    ASSUME NEW s, NEW x, NEW r, NEW a \in Nat, NEW e \in Nat, NEW p \in Nat,
           Follows(x, s, a, e + p), After(r, x, e, p)
    PROVE  Follows(r, s, a + e, p)
<1>1. \A i \in 1 .. p : e + i \in 1 .. e + p /\ a + (e + i) = a + e + i
  OBVIOUS
<1>2. (\A i \in 1 .. e + p : x[i] = Unit(s, a + i)) /\ \A i \in 1 .. p : r[i] = x[e + i]
  BY DEF Follows, After
<1>3. ASSUME NEW i \in 1 .. p PROVE r[i] = Unit(s, a + e + i)
  BY <1>1, <1>2
<1> QED
  BY <1>3 DEF Follows

\* What arrives continues what the buffer holds.
LEMMA Continued ==
    ASSUME NEW s, NEW b, NEW w, NEW x, NEW a \in Nat, NEW nb \in Nat, NEW nw \in Nat, NEW k \in 1 .. nw,
           Follows(b, s, 2 * a, nb), Follows(w, s, 2 * a + nb, nw),
           After(b, x, 0, nb), After(w, x, nb, k)
    PROVE  Follows(x, s, 2 * a, nb + k)
<1> SUFFICES ASSUME NEW i \in 1 .. nb + k PROVE x[i] = Unit(s, 2 * a + i)
  BY DEF Follows
<1>1. CASE i \in 1 .. nb
  BY <1>1 DEF Follows, After
<1>2. CASE i \notin 1 .. nb
  <2>1. /\ i - nb \in 1 .. k /\ i - nb \in 1 .. nw
        /\ nb + (i - nb) = i /\ 2 * a + nb + (i - nb) = 2 * a + i
    BY <1>2, Beyond
  <2>2. x[nb + (i - nb)] = w[i - nb] /\ w[i - nb] = Unit(s, 2 * a + nb + (i - nb))
    BY <2>1 DEF Follows, After
  <2> QED
    BY <2>1, <2>2
<1> QED
  BY <1>1, <1>2

\* Some of what is on its way arrives, and the whole messages are read.
LEMMA ThroughRead ==
    ASSUME NEW g \in Seq(Link!Messages), NEW s \in Seq(Nat), NEW b \in Seq(Link!Units), NEW w \in Seq(Link!Units),
           Through(g, s, b, w), NEW k \in 1 .. Len(w)
    PROVE  LET x == b \o SubSeq(w, 1, k)
           IN /\ Link!Read(x) \in Seq(Link!Messages) /\ Link!Rest(x) \in Seq(Link!Units)
              /\ SubSeq(w, k + 1, Len(w)) \in Seq(Link!Units)
              /\ Through(g \o Link!Read(x), s, Link!Rest(x), SubSeq(w, k + 1, Len(w)))
<1> DEFINE x == b \o SubSeq(w, 1, k)
           v == SubSeq(w, k + 1, Len(w))
           ng == Len(g)
           ns == Len(s)
           nb == Len(b)
           nw == Len(w)
<1>1. ng \in Nat /\ ns \in Nat /\ nb \in Nat /\ nw \in Nat
  OBVIOUS
<1>2. k \in 1 .. nw /\ k \in 0 .. Len(w)
  OBVIOUS
<1>3. /\ x \in Seq(Link!Units) /\ Len(x) = nb + k
      /\ After(b, x, 0, nb) /\ After(w, x, nb, k)
      /\ v \in Seq(Link!Units) /\ Len(v) = nw - k /\ After(v, w, k, nw - k)
  BY <1>2, Arriving, CutBack
<1> HIDE DEF x, v, ng, ns, nb, nw
<1>4. /\ Whole(g, s, 0, ng) /\ 2 * ng + nb + nw = 2 * ns
      /\ Follows(b, s, 2 * ng, nb) /\ Follows(w, s, 2 * ng + nb, nw)
  BY DEF Through, ng, ns, nb, nw
<1> DEFINE l == Len(x)
<1>5. l = nb + k /\ l \in Nat /\ Follows(x, s, 2 * ng, l)
  <2>1. Follows(x, s, 2 * ng, nb + k)
    BY <1>1, <1>2, <1>3, <1>4, Continued
  <2> QED
    BY <1>3, <2>1
<1>6. PICK f \in Nat :
        /\ 2 * f <= l /\ l <= 2 * f + 1
        /\ Link!Read(x) \in Seq(Link!Messages) /\ Len(Link!Read(x)) = f
        /\ Whole(Link!Read(x), s, ng, f)
        /\ Link!Rest(x) \in Seq(Link!Units) /\ Len(Link!Rest(x)) = l - 2 * f
        /\ After(Link!Rest(x), x, 2 * f, l - 2 * f)
  BY <1>1, <1>3, <1>5, WholeFrames
<1> HIDE DEF l
<1> DEFINE y == Link!Read(x)
           r == Link!Rest(x)
<1>8. Len(g \o y) = ng + f /\ Whole(g \o y, s, 0, ng + f)
  BY <1>1, <1>4, <1>6, ReadOn DEF ng
<1>9. Follows(r, s, 2 * ng + 2 * f, l - 2 * f) /\ Follows(v, s, 2 * ng + l, nw - k)
  <2>1. PICK a \in Nat, e \in Nat, p \in Nat, q \in Nat, m \in Nat :
          a = 2 * ng /\ e = 2 * f /\ p = l - 2 * f /\ q = nw - k /\ m = 2 * ng + nb
    BY <1>1, <1>2, <1>5, <1>6
  <2>2. l = e + p /\ nw = k + q /\ k \in Nat /\ m + k = 2 * ng + l
    BY <1>1, <1>2, <1>5, <2>1
  <2>3. /\ Follows(x, s, a, e + p) /\ After(r, x, e, p)
        /\ Follows(w, s, m, k + q) /\ After(v, w, k, q)
    BY <1>3, <1>4, <1>5, <1>6, <2>1, <2>2
  <2> HIDE DEF y, r
  <2>4. Follows(r, s, a + e, p)
    BY <2>3, LeftOver
  <2>5. Follows(v, s, m + k, q)
    BY <2>2, <2>3, LeftOver
  <2> QED
    BY <2>1, <2>2, <2>4, <2>5
<1> HIDE DEF y, r
<1>10. Through(g \o y, s, r, v)
  <2>1. Len(r) = l - 2 * f
    BY <1>6 DEF r
  <2>2. /\ 2 * (ng + f) = 2 * ng + 2 * f /\ 2 * (ng + f) + (l - 2 * f) = 2 * ng + l
        /\ 2 * (ng + f) + (l - 2 * f) + (nw - k) = 2 * ns
    BY <1>1, <1>2, <1>4, <1>5
  <2> QED
    BY <1>3, <1>8, <1>9, <2>1, <2>2 DEF Through, ns
<1> QED
  BY <1>3, <1>6, <1>10 DEF x, v, y, r, nw

-------------------------------------------------------------------------------
(* A link: its invariant. *)

\* What the world has of a connection, its buffer and what is on its way are what was written.
ServerSide ==
    \A c \in Link!Connections : Through(got["server"][c], sent["server"][c], buffer[c], wire["server"][c])

\* As long as no connection has ended with a piece of a frame in it, the client's one buffer
\* is that of its connection, and empty without one.
ClientSide ==
    ~torn => /\ \A c \in Link!Connections : Link!Faithful("client", c)
             /\ m_connection = 0 => m_buffer = <<>>
             /\ m_connection # 0 => Through(got["client"][m_connection], sent["client"][m_connection],
                                            m_buffer, wire["client"][m_connection])

\* Nobody has written to a connection that has not been made.
Unmade ==
    \A c \in Link!Connections : c > made =>
        wire["client"][c] = <<>> /\ sent["client"][c] = <<>> /\ got["client"][c] = <<>>

Inductive == Link!TypeOK /\ ServerSide /\ ClientSide /\ Unmade

\* One entry of a function of ends and connections.
LEMMA Entry ==
    ASSUME NEW S, NEW f \in [Link!Ends -> [Link!Connections -> S]], NEW e \in Link!Ends, NEW c \in Link!Connections, NEW v \in S,
           NEW g, g = [f EXCEPT ![e][c] = v]
    PROVE  /\ g \in [Link!Ends -> [Link!Connections -> S]] /\ g[e][c] = v
           /\ \A a \in Link!Ends, d \in Link!Connections : (a # e \/ d # c) => g[a][d] = f[a][d]
OBVIOUS

\* What Write does.
LEMMA LinkWritten ==
    ASSUME Link!TypeOK, NEW e \in Link!Ends, NEW c \in Link!Connections, NEW n \in Nat, Link!Write(e, c, n)
    PROVE  /\ wire' \in [Link!Ends -> [Link!Connections -> Seq(Link!Units)]]
           /\ sent' \in [Link!Ends -> [Link!Connections -> Seq(Nat)]]
           /\ wire'[e][c] = wire[e][c] \o Link!Frame(n) /\ sent'[e][c] = Append(sent[e][c], n)
           /\ \A a \in Link!Ends, d \in Link!Connections :
                 (a # e \/ d # c) => wire'[a][d] = wire[a][d] /\ sent'[a][d] = sent[a][d]
<1>1. /\ wire \in [Link!Ends -> [Link!Connections -> Seq(Link!Units)]] /\ sent \in [Link!Ends -> [Link!Connections -> Seq(Nat)]]
      /\ wire' = [wire EXCEPT ![e][c] = wire[e][c] \o Link!Frame(n)]
      /\ sent' = [sent EXCEPT ![e][c] = Append(sent[e][c], n)]
  BY DEF Link!TypeOK, Link!Write
<1>2. Link!Frame(n) \in Seq(Link!Units)
  BY DEF Link!Frame, Link!Units
<1>3. wire[e][c] \in Seq(Link!Units) /\ sent[e][c] \in Seq(Nat)
  BY <1>1
<1>4. wire[e][c] \o Link!Frame(n) \in Seq(Link!Units) /\ Append(sent[e][c], n) \in Seq(Nat)
  BY <1>2, <1>3
<1>5. /\ wire' \in [Link!Ends -> [Link!Connections -> Seq(Link!Units)]] /\ wire'[e][c] = wire[e][c] \o Link!Frame(n)
      /\ \A a \in Link!Ends, d \in Link!Connections : (a # e \/ d # c) => wire'[a][d] = wire[a][d]
  BY <1>1, <1>4, Entry
<1>6. /\ sent' \in [Link!Ends -> [Link!Connections -> Seq(Nat)]] /\ sent'[e][c] = Append(sent[e][c], n)
      /\ \A a \in Link!Ends, d \in Link!Connections : (a # e \/ d # c) => sent'[a][d] = sent[a][d]
  BY <1>1, <1>4, Entry
<1> QED
  BY <1>5, <1>6

\* What a read does to a connection: b was in the buffer, and k units arrive.
LEMMA Gotten ==
    ASSUME Link!TypeOK, NEW e \in Link!Ends, NEW c \in Link!Connections, NEW b \in Seq(Link!Units), NEW k \in 1 .. Len(wire[e][c]),
           NEW x, x = b \o Link!Arrived(e, c, k),
           Link!Take(e, c, k), got' = [got EXCEPT ![e][c] = got[e][c] \o Link!Read(x)]
    PROVE  /\ wire' \in [Link!Ends -> [Link!Connections -> Seq(Link!Units)]]
           /\ got' \in [Link!Ends -> [Link!Connections -> Seq(Link!Messages)]] /\ Link!Rest(x) \in Seq(Link!Units)
           /\ wire'[e][c] = SubSeq(wire[e][c], k + 1, Len(wire[e][c])) /\ got'[e][c] = got[e][c] \o Link!Read(x)
           /\ Through(got[e][c], sent[e][c], b, wire[e][c])
                 => Through(got'[e][c], sent[e][c], Link!Rest(x), wire'[e][c])
           /\ \A a \in Link!Ends, d \in Link!Connections :
                 (a # e \/ d # c) => wire'[a][d] = wire[a][d] /\ got'[a][d] = got[a][d]
<1>1. /\ wire \in [Link!Ends -> [Link!Connections -> Seq(Link!Units)]] /\ sent \in [Link!Ends -> [Link!Connections -> Seq(Nat)]]
      /\ got \in [Link!Ends -> [Link!Connections -> Seq(Link!Messages)]]
      /\ wire' = [wire EXCEPT ![e][c] = SubSeq(wire[e][c], k + 1, Len(wire[e][c]))]
  BY DEF Link!TypeOK, Link!Take
<1>2. wire[e][c] \in Seq(Link!Units) /\ sent[e][c] \in Seq(Nat) /\ got[e][c] \in Seq(Link!Messages)
  BY <1>1
<1> DEFINE w == wire[e][c]
<1>3. x \in Seq(Link!Units) /\ SubSeq(w, k + 1, Len(w)) \in Seq(Link!Units)
  <2>0. w \in Seq(Link!Units) /\ k \in 1 .. Len(w)
    BY <1>2
  <2> HIDE DEF w
  <2>1. k \in 0 .. Len(w)
    BY <2>0
  <2>2. SubSeq(w, 1, k) \in Seq(Link!Units)
    BY <2>0, <2>1, CutFront
  <2>3. SubSeq(w, k + 1, Len(w)) \in Seq(Link!Units)
    BY <2>0, <2>1, CutBack
  <2>4. SubSeq(w, 1, k) \in Seq(Link!Units) /\ SubSeq(w, k + 1, Len(w)) \in Seq(Link!Units)
    BY <2>2, <2>3
  <2>5. Link!Arrived(e, c, k) = SubSeq(w, 1, k)
    BY DEF Link!Arrived, w
  <2> QED
    BY <2>4, <2>5
<1>4. Link!Read(x) \in Seq(Link!Messages) /\ Link!Rest(x) \in Seq(Link!Units)
  BY <1>3, ReadTyped
<1>5. got[e][c] \o Link!Read(x) \in Seq(Link!Messages)
  BY <1>2, <1>4
<1>6. /\ wire' \in [Link!Ends -> [Link!Connections -> Seq(Link!Units)]] /\ wire'[e][c] = SubSeq(w, k + 1, Len(w))
      /\ \A a \in Link!Ends, d \in Link!Connections : (a # e \/ d # c) => wire'[a][d] = wire[a][d]
  BY <1>1, <1>3, Entry
<1>7. /\ got' \in [Link!Ends -> [Link!Connections -> Seq(Link!Messages)]] /\ got'[e][c] = got[e][c] \o Link!Read(x)
      /\ \A a \in Link!Ends, d \in Link!Connections : (a # e \/ d # c) => got'[a][d] = got[a][d]
  BY <1>1, <1>5, Entry
<1>8. ASSUME Through(got[e][c], sent[e][c], b, w)
      PROVE  Through(got[e][c] \o Link!Read(x), sent[e][c], Link!Rest(x), SubSeq(w, k + 1, Len(w)))
  <2>1. x = b \o SubSeq(w, 1, k)
    BY DEF Link!Arrived
  <2> QED
    BY <1>2, <1>8, <2>1, ThroughRead
<1> QED
  BY <1>4, <1>6, <1>7, <1>8

\* A stream that is right is read faithfully.
LEMMA ThroughFaithful ==
    ASSUME NEW g \in Seq(Link!Messages), NEW s \in Seq(Nat), NEW b \in Seq(Link!Units), NEW w \in Seq(Link!Units), Through(g, s, b, w)
    PROVE  Len(g) <= Len(s) /\ \A i \in DOMAIN g : g[i] = [head |-> s[i], body |-> s[i]]
<1>1. PICK ng \in Nat, ns \in Nat, nb \in Nat, nw \in Nat :
        Len(g) = ng /\ Len(s) = ns /\ Len(b) = nb /\ Len(w) = nw
  OBVIOUS
<1>2. DOMAIN g = 1 .. ng
  BY <1>1
<1>3. 2 * ng + nb + nw = 2 * ns /\ \A i \in 1 .. ng : g[i] = [head |-> s[0 + i], body |-> s[0 + i]]
  BY <1>1 DEF Through, Whole
<1>4. ng <= ns /\ \A i \in 1 .. ng : 0 + i = i
  BY <1>3
<1> QED
  BY <1>1, <1>2, <1>3, <1>4

\* Nothing read, nothing written.
LEMMA ThroughEmpty == Through(<<>>, <<>>, <<>>, <<>>)
BY DEF Through, Whole, Follows

-------------------------------------------------------------------------------
(* A link: its invariant, action by action. *)

\* What the parts say of one connection.
LEMMA Typed ==
    ASSUME Link!TypeOK, NEW e \in Link!Ends, NEW c \in Link!Connections
    PROVE  /\ wire[e][c] \in Seq(Link!Units) /\ sent[e][c] \in Seq(Nat) /\ got[e][c] \in Seq(Link!Messages)
           /\ buffer[c] \in Seq(Link!Units)
BY DEF Link!TypeOK

\* A message is written on a connection that has been made, or is made now.
LEMMA WriteServer ==
    ASSUME Inductive, NEW c \in Link!Connections, NEW n \in Nat, Link!Write("server", c, n),
           UNCHANGED <<buffer, m_buffer, got, torn>>
    PROVE  /\ ServerSide'
           /\ \A d \in Link!Connections : wire'["client"][d] = wire["client"][d] /\ sent'["client"][d] = sent["client"][d]
           /\ \A d \in Link!Connections : Link!Faithful("client", d)' <=> Link!Faithful("client", d)
<1> USE DEF Link!Ends
<1>1. /\ wire'["server"][c] = wire["server"][c] \o Link!Frame(n)
      /\ sent'["server"][c] = Append(sent["server"][c], n)
      /\ \A a \in Link!Ends, d \in Link!Connections :
            (a # "server" \/ d # c) => wire'[a][d] = wire[a][d] /\ sent'[a][d] = sent[a][d]
  BY LinkWritten DEF Inductive
<1>2. ASSUME NEW d \in Link!Connections
      PROVE  Through(got["server"][d], sent'["server"][d], buffer[d], wire'["server"][d])
  <2>0. Through(got["server"][d], sent["server"][d], buffer[d], wire["server"][d])
    BY DEF Inductive, ServerSide
  <2>1. CASE d = c
    <3>1. /\ wire["server"][c] \in Seq(Link!Units) /\ sent["server"][c] \in Seq(Nat)
          /\ got["server"][c] \in Seq(Link!Messages) /\ buffer[c] \in Seq(Link!Units)
      BY Typed DEF Inductive
    <3> QED
      BY <1>1, <2>0, <2>1, <3>1, ThroughWrite
  <2>2. CASE d # c
    BY <1>1, <2>0, <2>2
  <2> QED
    BY <2>1, <2>2
<1>3. ServerSide'
  BY <1>2 DEF ServerSide
<1> QED
  BY <1>1, <1>3 DEF Link!Faithful

\* A new connection begins with empty buffers.
LEMMA ConnectStep ==
    ASSUME MaxConnections \in Nat, Inductive, Link!Connect
    PROVE  Inductive'
<1> USE DEF Link!Ends
<1> DEFINE c == made + 1
<1>1. /\ m_connection = 0 /\ made \in Nat /\ made < MaxConnections /\ c \in Link!Connections /\ c \in Nat /\ c # 0
      /\ made' = c /\ m_connection' = c /\ open' = open \cup {c} /\ Link!Write("server", c, 0)
      /\ UNCHANGED <<buffer, m_buffer, out, got, torn>>
  BY DEF Link!Connect, Inductive, Link!TypeOK, Link!Connections
<1>2. /\ ServerSide'
      /\ \A d \in Link!Connections : wire'["client"][d] = wire["client"][d] /\ sent'["client"][d] = sent["client"][d]
      /\ \A d \in Link!Connections : Link!Faithful("client", d)' <=> Link!Faithful("client", d)
  BY <1>1, WriteServer
<1>3. Link!TypeOK'
  <2>1. /\ wire' \in [Link!Ends -> [Link!Connections -> Seq(Link!Units)]]
        /\ sent' \in [Link!Ends -> [Link!Connections -> Seq(Nat)]]
    BY <1>1, LinkWritten DEF Inductive
  <2>2. open' \subseteq 1 .. made' /\ m_connection' \in 0 .. made' /\ made' \in 0 .. MaxConnections
    BY <1>1 DEF Inductive, Link!TypeOK
  <2> HIDE DEF c
  <2> QED
    BY <1>1, <2>1, <2>2 DEF Inductive, Link!TypeOK
<1>4. ClientSide'
  <2> SUFFICES ASSUME ~torn
               PROVE  /\ \A d \in Link!Connections : Link!Faithful("client", d)'
                      /\ Through(got'["client"][c], sent'["client"][c], m_buffer', wire'["client"][c])
    BY <1>1 DEF ClientSide
  <2>1. m_buffer = <<>> /\ \A d \in Link!Connections : Link!Faithful("client", d)
    BY <1>1 DEF Inductive, ClientSide
  <2>2. wire["client"][c] = <<>> /\ sent["client"][c] = <<>> /\ got["client"][c] = <<>>
    BY <1>1 DEF Inductive, Unmade
  <2> QED
    BY <1>1, <1>2, <2>1, <2>2, ThroughEmpty
<1>5. Unmade'
  <2>1. \A d \in Link!Connections : d > c => d > made
    BY <1>1 DEF Link!Connections
  <2> QED
    BY <1>1, <1>2, <2>1 DEF Inductive, Unmade
<1> QED
  BY <1>2, <1>3, <1>4, <1>5 DEF Inductive

\* What is sent is written at the end of what the connection carries, by the client, ...
LEMMA ClientSendStep ==
    ASSUME MaxConnections \in Nat, Inductive, Link!ClientSend
    PROVE  Inductive'
<1> USE DEF Link!Ends
<1>1. /\ out["server"] + 1 \in Nat /\ out' \in [Link!Ends -> Nat]
      /\ UNCHANGED <<m_connection, made, open, buffer, m_buffer, got, torn>>
  BY DEF Link!ClientSend, Inductive, Link!TypeOK
<1>2. CASE m_connection = 0
  <2>1. UNCHANGED <<wire, sent>>
    BY <1>2 DEF Link!ClientSend
  <2>2. Link!TypeOK' /\ Unmade' /\ ServerSide' /\ ClientSide'
    BY <1>1, <2>1 DEF Inductive, Link!TypeOK, Unmade, ServerSide, ClientSide, Link!Faithful
  <2> QED
    BY <2>2 DEF Inductive
<1>3. CASE m_connection # 0
  <2>1. m_connection \in Link!Connections /\ Link!Write("server", m_connection, out["server"] + 1)
    BY <1>3 DEF Link!ClientSend, Inductive, Link!TypeOK, Link!Connections
  <2>2. /\ ServerSide'
        /\ \A d \in Link!Connections : wire'["client"][d] = wire["client"][d] /\ sent'["client"][d] = sent["client"][d]
        /\ \A d \in Link!Connections : Link!Faithful("client", d)' <=> Link!Faithful("client", d)
    BY <1>1, <2>1, WriteServer
  <2>3. Link!TypeOK'
    <3>1. /\ wire' \in [Link!Ends -> [Link!Connections -> Seq(Link!Units)]]
          /\ sent' \in [Link!Ends -> [Link!Connections -> Seq(Nat)]]
      BY <1>1, <2>1, LinkWritten DEF Inductive
    <3> QED
      BY <1>1, <3>1 DEF Inductive, Link!TypeOK
  <2>4. ClientSide'
    BY <1>1, <2>1, <2>2 DEF Inductive, ClientSide
  <2>5. Unmade'
    BY <1>1, <2>2 DEF Inductive, Unmade
  <2> QED
    BY <2>2, <2>3, <2>4, <2>5 DEF Inductive
<1> QED
  BY <1>2, <1>3

\* ... and by the world.
LEMMA ServerSendStep ==
    ASSUME MaxConnections \in Nat, Inductive, NEW c \in Link!Connections, Link!ServerSend(c)
    PROVE  Inductive'
<1> USE DEF Link!Ends
<1> DEFINE n == out["client"] + 1
<1>1. /\ n \in Nat /\ out' \in [Link!Ends -> Nat] /\ Link!Write("client", c, n)
      /\ UNCHANGED <<m_connection, made, open, buffer, m_buffer, got, torn>>
      /\ made \in Nat /\ c \in 1 .. made
  BY DEF Link!ServerSend, Inductive, Link!TypeOK
<1> HIDE DEF n
<1>2. /\ wire' \in [Link!Ends -> [Link!Connections -> Seq(Link!Units)]]
      /\ sent' \in [Link!Ends -> [Link!Connections -> Seq(Nat)]]
      /\ wire'["client"][c] = wire["client"][c] \o Link!Frame(n)
      /\ sent'["client"][c] = Append(sent["client"][c], n)
      /\ \A a \in Link!Ends, d \in Link!Connections :
            (a # "client" \/ d # c) => wire'[a][d] = wire[a][d] /\ sent'[a][d] = sent[a][d]
  BY <1>1, LinkWritten DEF Inductive
<1>3. Link!TypeOK'
  BY <1>1, <1>2 DEF Inductive, Link!TypeOK
<1>4. ServerSide'
  BY <1>1, <1>2 DEF Inductive, ServerSide
<1>5. ClientSide'
  <2> SUFFICES ASSUME ~torn
               PROVE  /\ \A d \in Link!Connections : Link!Faithful("client", d)'
                      /\ m_connection = 0 => m_buffer = <<>>
                      /\ m_connection # 0 => Through(got["client"][m_connection], sent'["client"][m_connection],
                                                     m_buffer, wire'["client"][m_connection])
    BY <1>1 DEF ClientSide
  <2>1. ASSUME NEW d \in Link!Connections PROVE Link!Faithful("client", d)'
    <3>1. Link!Faithful("client", d)
      BY DEF Inductive, ClientSide
    <3>2. CASE d # c
      BY <1>1, <1>2, <3>1, <3>2 DEF Link!Faithful
    <3>3. CASE d = c
      <4>1. sent["client"][c] \in Seq(Nat) /\ got["client"][c] \in Seq(Link!Messages)
        BY Typed DEF Inductive
      <4> DEFINE g == got["client"][c]
                 s == sent["client"][c]
      <4>2. g \in Seq(Link!Messages) /\ s \in Seq(Nat) /\ Len(g) <= Len(s)
            /\ \A i \in DOMAIN g : g[i] = [head |-> s[i], body |-> s[i]]
        BY <3>1, <3>3, <4>1 DEF Link!Faithful
      <4> HIDE DEF g, s
      <4>3. PICK l \in Nat, m \in Nat : l = Len(g) /\ m = Len(s)
        BY <4>2
      <4>4. Len(Append(s, n)) = m + 1 /\ DOMAIN g = 1 .. l /\ \A i \in 1 .. m : Append(s, n)[i] = s[i]
        BY <1>1, <4>2, <4>3
      <4>5. l <= m /\ l <= m + 1 /\ \A i \in 1 .. l : i \in 1 .. m
        BY <4>2, <4>3
      <4>6. Len(g) <= Len(Append(s, n)) /\ \A i \in DOMAIN g : g[i] = [head |-> Append(s, n)[i], body |-> Append(s, n)[i]]
        BY <4>2, <4>3, <4>4, <4>5
      <4>7. got'["client"][c] = g /\ sent'["client"][c] = Append(s, n)
        BY <1>1, <1>2 DEF g, s
      <4> QED
        BY <3>3, <4>6, <4>7 DEF Link!Faithful
    <3> QED
      BY <3>2, <3>3
  <2>2. ASSUME m_connection # 0
        PROVE  Through(got["client"][m_connection], sent'["client"][m_connection],
                       m_buffer, wire'["client"][m_connection])
    <3>1. /\ m_connection \in Link!Connections
          /\ Through(got["client"][m_connection], sent["client"][m_connection], m_buffer, wire["client"][m_connection])
      BY <2>2 DEF Inductive, ClientSide, Link!TypeOK, Link!Connections
    <3>2. CASE m_connection # c
      BY <1>2, <3>1, <3>2
    <3>3. CASE m_connection = c
      <4>1. /\ wire["client"][c] \in Seq(Link!Units) /\ sent["client"][c] \in Seq(Nat)
            /\ got["client"][c] \in Seq(Link!Messages) /\ m_buffer \in Seq(Link!Units)
        BY Typed DEF Inductive, Link!TypeOK
      <4> QED
        BY <1>1, <1>2, <3>1, <3>3, <4>1, ThroughWrite
    <3> QED
      BY <3>2, <3>3
  <2> QED
    BY <2>1, <2>2 DEF Inductive, ClientSide
<1>6. Unmade'
  <2>1. \A d \in Link!Connections : d > made => d # c
    BY <1>1
  <2> QED
    BY <1>1, <1>2, <2>1 DEF Inductive, Unmade
<1> QED
  BY <1>3, <1>4, <1>5, <1>6 DEF Inductive

\* The world takes whole frames from its buffer, ...
LEMMA ServerReadStep ==
    ASSUME MaxConnections \in Nat, Inductive, NEW c \in Link!Connections, Link!ServerRead(c)
    PROVE  Inductive'
<1> USE DEF Link!Ends
<1>1. UNCHANGED <<m_connection, made, open, m_buffer, out, sent, torn>>
  BY DEF Link!ServerRead
<1>2. PICK k \in 1 .. Len(wire["server"][c]) :
        /\ Link!Take("server", c, k)
        /\ got' = [got EXCEPT !["server"][c] = got["server"][c] \o Link!Read(buffer[c] \o Link!Arrived("server", c, k))]
        /\ buffer' = [buffer EXCEPT ![c] = Link!Rest(buffer[c] \o Link!Arrived("server", c, k))]
  BY DEF Link!ServerRead
<1> DEFINE x == buffer[c] \o Link!Arrived("server", c, k)
<1>3. /\ wire' \in [Link!Ends -> [Link!Connections -> Seq(Link!Units)]]
      /\ got' \in [Link!Ends -> [Link!Connections -> Seq(Link!Messages)]] /\ Link!Rest(x) \in Seq(Link!Units)
      /\ Through(got["server"][c], sent["server"][c], buffer[c], wire["server"][c])
            => Through(got'["server"][c], sent["server"][c], Link!Rest(x), wire'["server"][c])
      /\ \A a \in Link!Ends, d \in Link!Connections :
            (a # "server" \/ d # c) => wire'[a][d] = wire[a][d] /\ got'[a][d] = got[a][d]
  <2>1. buffer[c] \in Seq(Link!Units)
    BY DEF Inductive, Link!TypeOK
  <2>2. PICK b \in Seq(Link!Units) : b = buffer[c]
    BY <2>1
  <2>3. PICK y : y = b \o Link!Arrived("server", c, k)
    OBVIOUS
  <2>4. got' = [got EXCEPT !["server"][c] = got["server"][c] \o Link!Read(y)] /\ Link!Take("server", c, k)
    BY <1>2, <2>2, <2>3
  <2>5. /\ wire' \in [Link!Ends -> [Link!Connections -> Seq(Link!Units)]]
        /\ got' \in [Link!Ends -> [Link!Connections -> Seq(Link!Messages)]] /\ Link!Rest(y) \in Seq(Link!Units)
        /\ Through(got["server"][c], sent["server"][c], b, wire["server"][c])
              => Through(got'["server"][c], sent["server"][c], Link!Rest(y), wire'["server"][c])
        /\ \A a \in Link!Ends, d \in Link!Connections :
              (a # "server" \/ d # c) => wire'[a][d] = wire[a][d] /\ got'[a][d] = got[a][d]
    BY <2>3, <2>4, Gotten DEF Inductive
  <2> QED
    BY <2>2, <2>3, <2>5
<1>4. /\ buffer' \in [Link!Connections -> Seq(Link!Units)] /\ buffer'[c] = Link!Rest(x)
      /\ \A d \in Link!Connections : d # c => buffer'[d] = buffer[d]
  <2>1. buffer \in [Link!Connections -> Seq(Link!Units)] /\ buffer' = [buffer EXCEPT ![c] = Link!Rest(x)]
    BY <1>2 DEF Inductive, Link!TypeOK
  <2> HIDE DEF x
  <2> QED
    BY <1>3, <2>1
<1> HIDE DEF x
<1>5. Link!TypeOK'
  BY <1>1, <1>3, <1>4 DEF Inductive, Link!TypeOK
<1>6. ServerSide'
  BY <1>1, <1>3, <1>4 DEF Inductive, ServerSide
<1>7. ClientSide'
  <2>1. \A d \in Link!Connections : wire'["client"][d] = wire["client"][d] /\ got'["client"][d] = got["client"][d]
    BY <1>3
  <2>2. m_connection # 0 => m_connection \in Link!Connections
    BY DEF Inductive, Link!TypeOK, Link!Connections
  <2> QED
    BY <1>1, <2>1, <2>2 DEF Inductive, ClientSide, Link!Faithful
<1>8. Unmade'
  BY <1>1, <1>3 DEF Inductive, Unmade
<1> QED
  BY <1>5, <1>6, <1>7, <1>8 DEF Inductive

\* ... and so does the client.
LEMMA ClientReadStep ==
    ASSUME MaxConnections \in Nat, Inductive, Link!ClientRead
    PROVE  Inductive'
<1> USE DEF Link!Ends
<1>0. PICK c \in Link!Connections : c = m_connection /\ c # 0 /\ made \in Nat /\ c \in 1 .. made
  BY DEF Link!ClientRead, Inductive, Link!TypeOK, Link!Connections
<1>1. UNCHANGED <<m_connection, made, open, buffer, out, sent, torn>> /\ c = m_connection /\ c # 0
  BY <1>0 DEF Link!ClientRead
<1>2. PICK k \in 1 .. Len(wire["client"][c]) :
        /\ Link!Take("client", c, k)
        /\ got' = [got EXCEPT !["client"][c] = got["client"][c] \o Link!Read(m_buffer \o Link!Arrived("client", c, k))]
        /\ m_buffer' = Link!Rest(m_buffer \o Link!Arrived("client", c, k))
  BY <1>0 DEF Link!ClientRead
<1> DEFINE x == m_buffer \o Link!Arrived("client", c, k)
<1>3. /\ wire' \in [Link!Ends -> [Link!Connections -> Seq(Link!Units)]]
      /\ got' \in [Link!Ends -> [Link!Connections -> Seq(Link!Messages)]] /\ m_buffer' \in Seq(Link!Units)
      /\ Through(got["client"][c], sent["client"][c], m_buffer, wire["client"][c])
            => Through(got'["client"][c], sent["client"][c], m_buffer', wire'["client"][c])
      /\ \A a \in Link!Ends, d \in Link!Connections :
            (a # "client" \/ d # c) => wire'[a][d] = wire[a][d] /\ got'[a][d] = got[a][d]
  <2>1. m_buffer \in Seq(Link!Units)
    BY DEF Inductive, Link!TypeOK
  <2> QED
    BY <1>1, <1>2, <2>1, Gotten DEF Inductive
<1> HIDE DEF x
<1>4. Link!TypeOK'
  BY <1>1, <1>3 DEF Inductive, Link!TypeOK
<1>5. ServerSide'
  BY <1>1, <1>3 DEF Inductive, ServerSide
<1>6. ClientSide'
  <2> SUFFICES ASSUME ~torn
               PROVE  /\ \A d \in Link!Connections : Link!Faithful("client", d)'
                      /\ Through(got'["client"][c], sent'["client"][c], m_buffer', wire'["client"][c])
    BY <1>1 DEF ClientSide
  <2>1. Through(got'["client"][c], sent'["client"][c], m_buffer', wire'["client"][c])
    BY <1>1, <1>3 DEF Inductive, ClientSide
  <2>2. Link!Faithful("client", c)'
    <3>1. /\ got'["client"][c] \in Seq(Link!Messages) /\ sent'["client"][c] \in Seq(Nat)
          /\ wire'["client"][c] \in Seq(Link!Units) /\ m_buffer' \in Seq(Link!Units)
      BY <1>1, <1>4 DEF Link!TypeOK
    <3> QED
      BY <2>1, <3>1, ThroughFaithful DEF Link!Faithful
  <2>3. \A d \in Link!Connections : d # c => Link!Faithful("client", d)'
    <3>1. \A d \in Link!Connections : d # c => got'["client"][d] = got["client"][d] /\ sent'["client"][d] = sent["client"][d]
      BY <1>1, <1>3
    <3>2. \A d \in Link!Connections : Link!Faithful("client", d)
      BY DEF Inductive, ClientSide
    <3> QED
      BY <3>1, <3>2 DEF Link!Faithful
  <2> QED
    BY <2>1, <2>2, <2>3
<1>7. Unmade'
  <2>1. \A d \in Link!Connections : d > made => d # c
    BY <1>0
  <2> QED
    BY <1>1, <1>3, <2>1 DEF Inductive, Unmade
<1> QED
  BY <1>4, <1>5, <1>6, <1>7 DEF Inductive

\* A connection ends, for one end or the other, and what was in the client's buffer stays there.
LEMMA DisconnectStep ==
    ASSUME MaxConnections \in Nat, Inductive, Link!ClientDisconnect \/ \E c \in Link!Connections : Link!ServerDisconnect(c)
    PROVE  Inductive'
<1>1. CASE Link!ClientDisconnect
  <2>1. /\ m_connection' = 0 /\ torn' \in BOOLEAN /\ (~torn' => ~torn /\ m_buffer = <<>>)
        /\ UNCHANGED <<made, open, wire, buffer, m_buffer, out, sent, got>>
    BY <1>1 DEF Link!ClientDisconnect, Inductive, Link!TypeOK
  <2>2. Link!TypeOK'
    BY <2>1 DEF Inductive, Link!TypeOK
  <2>3. ServerSide' /\ Unmade' /\ ClientSide'
    BY <2>1 DEF Inductive, ServerSide, Unmade, ClientSide, Link!Faithful
  <2> QED
    BY <2>2, <2>3 DEF Inductive
<1>2. CASE \E c \in Link!Connections : Link!ServerDisconnect(c)
  <2>1. /\ open' \subseteq open
        /\ UNCHANGED <<m_connection, made, wire, buffer, m_buffer, out, sent, got, torn>>
    BY <1>2 DEF Link!ServerDisconnect
  <2>2. Link!TypeOK'
    BY <2>1 DEF Inductive, Link!TypeOK
  <2>3. ServerSide' /\ Unmade' /\ ClientSide'
    BY <2>1 DEF Inductive, ServerSide, Unmade, ClientSide, Link!Faithful
  <2> QED
    BY <2>2, <2>3 DEF Inductive
<1> QED
  BY <1>1, <1>2

\* The invariant holds at first.
LEMMA AtFirst == ASSUME MaxConnections \in Nat, Link!Init PROVE Inductive
<1> USE DEF Link!Ends
<1>1. ASSUME NEW c \in Link!Connections PROVE Link!None[c] = <<>>
  BY DEF Link!None
<1>2. Link!None \in [Link!Connections -> Seq(Link!Units)] /\ Link!None \in [Link!Connections -> Seq(Nat)] /\ Link!None \in [Link!Connections -> Seq(Link!Messages)]
  BY DEF Link!None
<1>3. Link!TypeOK
  <2>1. /\ wire \in [Link!Ends -> [Link!Connections -> Seq(Link!Units)]] /\ sent \in [Link!Ends -> [Link!Connections -> Seq(Nat)]]
        /\ got \in [Link!Ends -> [Link!Connections -> Seq(Link!Messages)]]
    BY <1>2 DEF Link!Init
  <2>2. m_connection \in 0 .. made /\ made \in 0 .. MaxConnections /\ open \subseteq 1 .. made
    BY DEF Link!Init
  <2>3. m_buffer \in Seq(Link!Units) /\ torn \in BOOLEAN /\ buffer \in [Link!Connections -> Seq(Link!Units)]
    <3>1. <<>> \in Seq(Link!Units)
      OBVIOUS
    <3> QED
      BY <1>2, <3>1 DEF Link!Init
  <2>4. out \in [Link!Ends -> Nat]
    BY DEF Link!Init
  <2> QED
    BY <2>1, <2>2, <2>3, <2>4 DEF Link!TypeOK
<1>4. Unmade /\ ServerSide
  BY <1>1, ThroughEmpty DEF Link!Init, Unmade, ServerSide
<1>5. ClientSide
  BY <1>1 DEF Link!Init, ClientSide, Link!Faithful
<1> QED
  BY <1>3, <1>4, <1>5 DEF Inductive

\* Every step keeps it.
LEMMA EveryStep == ASSUME MaxConnections \in Nat, Inductive, [Link!Next]_Link!vars PROVE Inductive'
<1>1. CASE Link!Connect
  BY <1>1, ConnectStep
<1>2. CASE Link!ClientSend
  BY <1>2, ClientSendStep
<1>3. CASE Link!ClientRead
  BY <1>3, ClientReadStep
<1>4. CASE Link!ClientDisconnect
  BY <1>4, DisconnectStep
<1>5. ASSUME NEW c \in Link!Connections, Link!ServerSend(c) PROVE Inductive'
  BY <1>5, ServerSendStep
<1>6. ASSUME NEW c \in Link!Connections, Link!ServerRead(c) PROVE Inductive'
  BY <1>6, ServerReadStep
<1>7. ASSUME NEW c \in Link!Connections, Link!ServerDisconnect(c) PROVE Inductive'
  BY <1>7, DisconnectStep
<1>8. CASE UNCHANGED Link!vars
  BY <1>8 DEF Link!vars, Inductive, Link!TypeOK, ServerSide, ClientSide, Unmade, Link!Faithful
<1> QED
  BY <1>1, <1>2, <1>3, <1>4, <1>5, <1>6, <1>7, <1>8 DEF Link!Next

\* So the invariant of the link holds always.
LEMMA SpecInductive == ASSUME MaxConnections \in Nat PROVE Link!Spec => []Inductive
<1>1. Link!Init => Inductive
  BY AtFirst
<1>2. Inductive /\ [Link!Next]_Link!vars => Inductive'
  BY EveryStep
<1> QED
  BY <1>1, <1>2, PTL DEF Link!Spec

\* Every variable keeps its type, for any number of connections and messages.
THEOREM LinkTypeCorrect == ASSUME MaxConnections \in Nat PROVE Link!Spec => []Link!TypeOK
<1>1. Inductive => Link!TypeOK
  BY DEF Inductive
<1> QED
  BY <1>1, SpecInductive, PTL

\* However TCP cuts the frames and however connections break, the world reads what was written
\* to each, whole and in order, and so do its clients unless a connection ends within a frame.
THEOREM ReadFaithfully == ASSUME MaxConnections \in Nat PROVE Link!Spec => []Link!LinkFaithful
<1>1. Inductive => Link!LinkFaithful
  <2> SUFFICES ASSUME Inductive, NEW c \in Link!Connections
               PROVE  Link!Faithful("server", c) /\ (~torn => Link!Faithful("client", c))
    BY DEF Link!LinkFaithful
  <2>1. /\ wire["server"][c] \in Seq(Link!Units) /\ sent["server"][c] \in Seq(Nat)
        /\ got["server"][c] \in Seq(Link!Messages) /\ buffer[c] \in Seq(Link!Units)
    BY Typed DEF Inductive, Link!Ends
  <2>2. Through(got["server"][c], sent["server"][c], buffer[c], wire["server"][c])
    BY DEF Inductive, ServerSide
  <2>3. Link!Faithful("server", c)
    BY <2>1, <2>2, ThroughFaithful DEF Link!Faithful
  <2> QED
    BY <2>3 DEF Inductive, ClientSide
<1> QED
  BY <1>1, SpecInductive, PTL

-------------------------------------------------------------------------------
(* The services side by side. *)

\* A step of the services is a step of each, or leaves it alone.
LEMMA EachStep ==
    ASSUME [MCNext]_<<service, vars, pool, link>>
    PROVE  [Next]_vars /\ [Pool!Next]_Pool!vars /\ [Link!Next]_Link!vars
BY DEF MCNext, pool, link, Pool!vars, Link!vars

\* So what happens to each service is a behaviour of it alone; the pool may be a stopped one.
LEMMA EachService ==
    MCSpec => Spec /\ Link!Spec /\ (Pool!Init \/ NoPool) /\ [][Pool!Next]_Pool!vars
<1>1. MCInit => Init /\ Link!Init /\ (Pool!Init \/ NoPool)
  BY DEF MCInit
<1> QED
  BY <1>1, EachStep, PTL DEF MCSpec, Spec, Link!Spec

\* A pool that has been stopped has no task, queued, running or done.
LEMMA StoppedPool == NoPool => Pool!TypeOK /\ OnceInv
<1> SUFFICES ASSUME NoPool PROVE Pool!TypeOK /\ QueueInv(0)
  BY DEF OnceInv
<1>1. Pool!TypeOK
  <2>1. /\ worker \in [Workers -> [pc : {"test", "parking", "waiting", "working", "ended"}, task : Nat]]
        /\ caller \in [Callers -> [pc : {"idle", "checked", "pushed", "awaiting"}, task : Nat]]
    BY DEF NoPool, Pool!Doing
  <2>2. tasks \in Seq(Nat)
    BY DEF NoPool
  <2> QED
    BY <2>1, <2>2 DEF NoPool, Pool!TypeOK
<1>2. Pool!Running = {} /\ Distinct
  BY DEF NoPool, Pool!Running, Distinct, Pool!Doing
<1>3. tasks = Queue(0, added)
  BY QueueHead DEF NoPool
<1> QED
  BY <1>1, <1>2, <1>3 DEF QueueInv, NoPool

\* Every variable of the three services keeps its type.
THEOREM ServicesTyped == MCSpec => []Types
<1>1. Link!Spec => []Link!TypeOK
  BY LinkTypeCorrect, ServicesAssumption
<1>2. Types <=> TypeOK /\ Pool!TypeOK /\ Link!TypeOK
  BY DEF Types
<1> QED
  BY <1>1, <1>2, EachService, TypeCorrect, PoolTypeInitially, StoppedPool, PoolTypeStep, PTL

\* The cache of every zone is the row, and no write is lost, while the other services run.
THEOREM BucketsServe == MCSpec => []CacheCoherent /\ []LastWriteKept
BY EachService, CacheIsRow, NoWriteLost, PTL

\* The tasks are taken in order, each by one worker, and none is run again.
THEOREM EveryTaskOnce == MCSpec => []OnceEach
<1>1. OnceInv => OnceEach
  BY DEF OnceInv, QueueInv, OnceEach, Pool!OnceEach, Queue, Distinct
<1> QED
  BY <1>1, EachService, OnceInitially, StoppedPool, OnceStep, PTL

\* Both ends of a link read what was written, whole and in order.
THEOREM LinkReadsFaithfully == MCSpec => []LinkFaithful
<1>1. Link!Spec => []Link!LinkFaithful
  BY ReadFaithfully, ServicesAssumption
<1>2. LinkFaithful <=> Link!LinkFaithful
  BY DEF LinkFaithful
<1> QED
  BY <1>1, <1>2, EachService, PTL
================================================================================
