------------------------------ MODULE DataBuckets ------------------------------
(***************************************************************************)
(* One data bucket of a character (common/data_bucket.cpp): a row of the   *)
(* database, a cache of it in every zone process that has read it, and the *)
(* quests that read, set and delete it, as a whole ("key") or in part      *)
(* ("key.part", kept as JSON).  A handler's database calls are steps.      *)
(* "Characters are only in one zone at a time so we can cache locally".    *)
(***************************************************************************)
EXTENDS Naturals, Sequences

CONSTANTS Processes, Parts,
          Alone,      \* the character is in one zone at a time
          Gm,         \* a GM in any zone edits and deletes the bucket
          MaxWrites,  \* bound: values written, rows inserted
          MaxTime     \* bound: the clock

ASSUME BucketsAssumption == 0 \notin Parts /\ {Alone, Gm} \subseteq BOOLEAN

VARIABLES
    row,       \* the row of the table, which has a unique index
    last_id,   \* the table's autoincrement
    cache,     \* g_data_bucket_cache of each process: the entries of this bucket
    present,   \* the processes with a client of the character
    busy,      \* the SetData or DeleteData each process is in, and what it has read
    now,
    writes,
    store      \* what the operations so far, one after the other, leave

vars == <<row, last_id, cache, present, busy, now, writes, store>>

\* A value is plain, told apart by a number, or the parts of an object, 0 for none.  `fixed'
\* are the parts that cannot be set: those that are objects or arrays, of which SetData
\* returns, and all of JSON that is no object (a number, an array), which throws out of it.
NoParts == [p \in Parts |-> 0]
Nothing == [plain |-> 0, part |-> NoParts, fixed |-> {}]

\* The values that a set of the whole bucket may give it.
Given(n) ==
    {v \in [plain : {0, n}, part : [Parts -> {0, n}], fixed : SUBSET Parts] :
        IF v.plain # 0 THEN v.part = NoParts /\ v.fixed \in {{}, Parts}
        ELSE \A i \in v.fixed : v.part[i] # 0}

\* No row; and the entry of a miss.
NoRow == [id |-> 0, value |-> Nothing, expires |-> 0]

Expired(r) == r.expires # 0 /\ r.expires < now
Live(r) == IF Expired(r) THEN Nothing ELSE r.value
Content(r) == IF r.id = 0 \/ Expired(r) THEN Nothing ELSE r.value

Idle == [op |-> "none", read |-> NoRow, part |-> 0, expires |-> 0]

Init ==
    /\ row = NoRow /\ last_id = 0
    /\ cache = [p \in Processes |-> <<>>] /\ present = {}
    /\ busy = [p \in Processes |-> Idle]
    /\ now = 1 /\ writes = 0
    /\ store = NoRow

Uses(p) == busy[p].op = "none" /\ (p \in present \/ Gm)

\* GetData: from the cache, else from the table; what has expired is deleted.  A miss is
\* cached unless the caller is SetData.
GetData(p, ignore_misses) ==
    IF cache[p] # <<>>
    THEN IF Expired(Head(cache[p])) THEN [read |-> NoRow, cache |-> <<>>, row |-> NoRow]
         ELSE [read |-> Head(cache[p]), cache |-> cache[p], row |-> row]
    ELSE IF row.id = 0 THEN [read |-> NoRow, cache |-> IF ignore_misses THEN <<>> ELSE <<NoRow>>, row |-> NoRow]
    ELSE IF Expired(row) THEN [read |-> NoRow, cache |-> <<>>, row |-> NoRow]
    ELSE [read |-> row, cache |-> <<row>>, row |-> row]

Got(p, g) == cache' = [cache EXCEPT ![p] = g.cache] /\ row' = g.row

\* GetBucket.
Get(p) ==
    /\ Uses(p)
    /\ Got(p, GetData(p, FALSE))
    /\ UNCHANGED <<last_id, present, busy, now, writes, store>>

\* SetData, up to the write; only a whole bucket can expire.
SetData(p) ==
    /\ Uses(p) /\ writes < MaxWrites
    /\ LET g == GetData(p, TRUE) IN
       /\ Got(p, g)
       /\ \E part \in Parts \cup {0}, expires \in {0, now} :
             /\ part # 0 => expires = 0
             /\ busy' = [busy EXCEPT ![p] = [op |-> "set", read |-> g.read, part |-> part, expires |-> expires]]
    /\ UNCHANGED <<last_id, present, now, writes, store>>

\* Mutant: plain text is kept beside the part.
MergedKept(value, part, n) == [value EXCEPT !.part[part] = n]

\* What a set of one part makes of a value: text that is not JSON is dropped.
Merged(value, part, n) ==
    LET object == IF value.plain # 0 THEN Nothing ELSE value IN [object EXCEPT !.part[part] = n]

Refused(value, part) == part \in value.fixed
Written(value, part, whole, n) == IF part = 0 THEN whole ELSE Merged(value, part, n)

\* What a set leaves, if it is all that happens.
Asked(b, whole, n) ==
    IF Refused(Live(store), b.part) THEN store
    ELSE [id |-> 1, value |-> Written(Live(store), b.part, whole, n), expires |-> b.expires]

Update(r) == row' = IF row.id = r.id THEN r ELSE row

\* Mutant: a cached miss is left.
FoundAndMisses(p) == cache[p]

\* DeleteFromMissesCache; a miss is cached only when nothing else is, so it comes first.
Found(p) == IF cache[p] # <<>> /\ Head(cache[p]).id = 0 THEN Tail(cache[p]) ELSE cache[p]

\* The write of SetData, if there is one: an UPDATE of the row it has read, or an INSERT,
\* which fails if another process has inserted one.
Store(p) ==
    /\ busy[p].op = "set"
    /\ \E whole \in Given(writes + 1) :
       LET b == busy[p]
           n == writes + 1
           new == [id |-> IF b.read.id # 0 THEN b.read.id ELSE last_id + 1,
                   value |-> Written(b.read.value, b.part, whole, n), expires |-> b.expires]
       IN /\ store' = Asked(b, whole, n)
          /\ IF Refused(b.read.value, b.part) THEN UNCHANGED <<cache, row, last_id>>
             ELSE IF b.read.id # 0
             THEN /\ cache' = [cache EXCEPT ![p] = IF @ = <<>> THEN @ ELSE <<new>> \o Tail(@)]
                  /\ Update(new) /\ UNCHANGED last_id
             ELSE IF row.id # 0 THEN UNCHANGED <<cache, row, last_id>>
             ELSE /\ cache' = [cache EXCEPT ![p] = Append(Found(p), new)]
                  /\ row' = new /\ last_id' = last_id + 1
    /\ busy' = [busy EXCEPT ![p] = Idle]
    /\ writes' = writes + 1
    /\ UNCHANGED <<present, now>>

\* DeleteData of the whole bucket.
Delete(p) ==
    /\ Uses(p)
    /\ cache' = [cache EXCEPT ![p] = <<>>]
    /\ row' = NoRow /\ store' = NoRow
    /\ UNCHANGED <<last_id, present, busy, now, writes>>

\* DeleteData of a part, up to the write: there must be an object that has it.
DeletePart(p) ==
    /\ Uses(p)
    /\ LET g == GetData(p, FALSE) IN
       /\ Got(p, g)
       /\ \E part \in Parts :
             busy' = [busy EXCEPT ![p] = IF g.read.value.part[part] = 0 THEN @
                                         ELSE [op |-> "delete", read |-> g.read, part |-> part, expires |-> 0]]
    /\ UNCHANGED <<last_id, present, now, writes, store>>

Without(value, part) ==
    [plain |-> value.plain, part |-> [value.part EXCEPT ![part] = 0], fixed |-> value.fixed \ {part}]

\* ... and the write; an object without parts is deleted.
StoreWithout(p) ==
    /\ busy[p].op = "delete"
    /\ LET r == [busy[p].read EXCEPT !.value = Without(@, busy[p].part)]
           left == Without(Live(store), busy[p].part)
       IN /\ store' = IF left = Nothing THEN NoRow ELSE [store EXCEPT !.value = left]
          /\ IF r.value = Nothing
             THEN /\ cache' = [cache EXCEPT ![p] = <<>>]
                  /\ row' = NoRow
             ELSE /\ cache' = [cache EXCEPT ![p] = IF @ = <<>> THEN @
                                                   ELSE <<[Head(@) EXCEPT !.value = r.value]>> \o Tail(@)]
                  /\ Update(r)
    /\ busy' = [busy EXCEPT ![p] = Idle]
    /\ UNCHANGED <<last_id, present, now, writes>>

\* A client of the character is made: LoadDataBucketsCache, which may find that something
\* of the character's is cached already, and leaves expired rows alone.
Enter(p) ==
    /\ p \notin present /\ busy[p].op = "none"
    /\ Alone => present = {}
    /\ present' = present \cup {p}
    /\ \E has_cache \in BOOLEAN :
          cache' = IF has_cache \/ row.id = 0 \/ Expired(row) \/ \E i \in DOMAIN cache[p] : cache[p][i].id = row.id
                   THEN cache ELSE [cache EXCEPT ![p] = Append(@, row)]
    /\ UNCHANGED <<row, last_id, busy, now, writes, store>>

\* Mutant: the cache is kept.
LeaveCached(p) ==
    /\ p \in present /\ busy[p].op = "none"
    /\ present' = present \ {p}
    /\ UNCHANGED <<row, last_id, cache, busy, now, writes, store>>

\* ~Client: DeleteCachedBuckets.
Leave(p) ==
    /\ p \in present /\ busy[p].op = "none"
    /\ present' = present \ {p}
    /\ cache' = [cache EXCEPT ![p] = <<>>]
    /\ UNCHANGED <<row, last_id, busy, now, writes, store>>

\* ServerReload::Type::DataBucketsCache.
ClearCache(p) ==
    /\ busy[p].op = "none"
    /\ cache' = [cache EXCEPT ![p] = <<>>]
    /\ UNCHANGED <<row, last_id, present, busy, now, writes, store>>

\* A handler takes no time.
Tick ==
    /\ now < MaxTime /\ \A p \in Processes : busy[p].op = "none"
    /\ now' = now + 1
    /\ UNCHANGED <<row, last_id, cache, present, busy, writes, store>>

Next ==
    \/ \E p \in Processes : \/ Get(p) \/ SetData(p) \/ Store(p) \/ Delete(p) \/ DeletePart(p) \/ StoreWithout(p)
                            \/ Enter(p) \/ Leave(p) \/ ClearCache(p)
    \/ Tick

Spec == Init /\ [][Next]_vars

-------------------------------------------------------------------------------
\* Plain, or an object.
Values == {v \in [plain : Nat, part : [Parts -> Nat], fixed : SUBSET Parts] :
             IF v.plain # 0 THEN v.part = NoParts ELSE \A i \in v.fixed : v.part[i] # 0}
Rows == [id : Nat, value : Values, expires : Nat]

\* Types.
TypeOK ==
    /\ row \in Rows /\ store \in Rows /\ last_id \in Nat
    /\ cache \in [Processes -> Seq(Rows)] /\ present \subseteq Processes
    /\ busy \in [Processes -> [op : {"none", "set", "delete"}, read : Rows, part : Parts \cup {0}, expires : Nat]]
    /\ now \in Nat /\ writes \in Nat

\* In one zone at a time, and if no GM interferes: what the character's zone has cached is
\* the row, or that there is none.
CacheCoherent ==
    (Alone /\ ~Gm) => \A p \in present : busy[p].op = "none" => cache[p] \in {<<>>, <<row>>}

\* ... and the row is what the sets and deletes so far, one after the other, leave: no
\* write, of the whole or of a part, is lost or comes back, and none that cannot be made of
\* the bucket changes it.  It expires when the last set says, or never.
LastWriteKept ==
    (Alone /\ ~Gm /\ \A p \in Processes : busy[p].op = "none") => Content(row) = Live(store)

\* A set that gives no expiry leaves the bucket's ("Expires is optional and does not modify
\* the existing expiration time if not provided"), also one of a part ("Nested keys can't
\* expire; set expiration on the parent key").
ExpiryKept ==
    [][\A p \in Processes :
          busy[p].op = "set" /\ busy[p].expires = 0 /\ busy'[p].op = "none" /\ row.id # 0
             => row'.expires = row.expires]_vars
===============================================================================
