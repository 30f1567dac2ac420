------------------------------ MODULE PlayerShop ------------------------------
(***************************************************************************)
(* The permanent escrow shop of one player (zone/trading.cpp), sold from   *)
(* by parcel.  A listed item leaves the seller's bags and lives as a row   *)
(* of the `trader' table; a buyer's zone process turns the row into a      *)
(* parcel and tells the world process, which has the seller's zone pay     *)
(* the price or, if the seller is offline, banks it in the data bucket     *)
(* shop_escrow_<charid> for the next login.                                *)
(*                                                                         *)
(* A zone process runs one handler at a time, but its database calls       *)
(* interleave with those of every other process: each is a step here.      *)
(* Every unit costs one coin, and the delivery fee is left out.            *)
(***************************************************************************)
EXTENDS Integers, FiniteSets, Functions

CONSTANTS Goods, Stack,  \* the seller's items and the units of each
          Stackable,     \* those of which a part may be bought: another is one unit
          Seller, Buyers,
          Coins,         \* what each buyer has to spend
          ShopMax,       \* SHOP_MAX, rows of one shop
          SellerStart,   \* where the seller may be to begin with
          SameZone,      \* whether all play in one zone process
          MayLeave,      \* whether the seller goes to other zones and offline
          MayMove,       \* whether the seller moves while trading
          SerialsMeet,   \* whether an item's runtime serial may be a listing's
          MaxCrashes,    \* bound: processes that die, parcels not stored
          MaxListings    \* bound: rows ever inserted

Players == Buyers \cup {Seller}
Places  == {"Offline", "Entering", "InZone", "Zoning", "Left"}

ASSUME ShopAssumption == /\ IsFiniteSet(Goods) /\ Stack \in [Goods -> Nat \ {0}]
                         /\ Stackable \subseteq Goods
                         /\ \A g \in Goods \ Stackable : Stack[g] = 1
                         /\ IsFiniteSet(Buyers) /\ Seller \notin Buyers
                         /\ {Coins, ShopMax, MaxCrashes, MaxListings} \subseteq Nat
                         /\ SellerStart \subseteq Places
                         /\ "Offline" \in SellerStart => Cardinality(Goods) <= MaxListings
                         /\ {SameZone, MayLeave, MayMove, SerialsMeet}
                               \subseteq BOOLEAN

VARIABLES
    bag,       \* units in the seller's satchel and cursor, in memory and saved
    rows,      \* the `trader' table
    shopsn,    \* data bucket: the next serial of the shop
    last_id,   \* the table's autoincrement
    parcels,   \* units delivered to each buyer
    purse,     \* coin of each player
    escrow,    \* data bucket: coin banked for the seller
    sold,      \* units whose row was taken off the shop by a purchase
    seller,    \* where the seller is
    trader,    \* IsTrader() in the seller's zone
    step,      \* the handler each player's zone process is in for it
    world,     \* the handler of the world process
    to_world, to_zone, \* ServerOP_BazaarPurchase in flight
    crashes,
    twice,       \* history: the items that a list has named more than once
    interrupted  \* history: whether the seller's process died in AddItemsToShop

items    == <<bag, rows, shopsn, last_id, parcels>>
coin     == <<purse, escrow, sold>>
presence == <<seller, trader>>
wires    == <<world, to_world, to_zone>>
history  == <<twice, interrupted>>
vars     == <<items, coin, presence, step, wires, crashes, history>>

Idle == [pc |-> "Idle"]

Row(id, sn, good, charges) == [id |-> id, sn |-> sn, good |-> good,
                               charges |-> charges, active |-> FALSE]

\* A seller who is in the zone has listed nothing yet; one who is offline has
\* listed everything in an earlier session.
InitItems(nth) ==
    IF seller = "Offline"
    THEN /\ bag = [g \in Goods |-> 0] /\ last_id = Cardinality(Goods)
         /\ rows = {Row(nth[g], nth[g], g, Stack[g]) : g \in Goods}
    ELSE bag = Stack /\ last_id = 0 /\ rows = {}

Init == /\ seller \in SellerStart /\ trader = FALSE
        /\ \E nth \in Bijection(Goods, 1 .. Cardinality(Goods)) : InitItems(nth)
        /\ shopsn = last_id + 1
        /\ parcels = [b \in Buyers |-> [g \in Goods |-> 0]]
        /\ purse = [p \in Players |-> IF p = Seller THEN 0 ELSE Coins]
        /\ escrow = 0 /\ sold = 0
        /\ step = [p \in Players |-> Idle]
        /\ world = Idle /\ to_world = {} /\ to_zone = {}
        /\ crashes = 0 /\ twice = {} /\ interrupted = FALSE

\* The players whose clients are objects of the process p plays in.
Process(p) == IF SameZone THEN Players ELSE {p}
MayStart(p) == \A q \in Process(p) : step[q] = Idle
In(p, pc) == step[p].pc = pc
Goto(p, next) == step' = [step EXCEPT ![p] = next]

RowWithId(id) == {r \in rows : r.id = id}
RowWithSn(sn) == {r \in rows : r.sn = sn}

\* UpdateActiveTransaction: does nothing when the row is gone.
SetActive(id, status) ==
    rows' = {IF r.id = id THEN [r EXCEPT !.active = status] ELSE r : r \in rows}

-------------------------------------------------------------------------------
(* The seller lists and pulls. *)

\* AddItemsToShop, up to the insertion of the rows: a list of satchel slots, as
\* long as still fits, each entry with the next serial.  Nothing keeps a slot
\* from being named again: it gets a row for each entry.
AddItemsToShop ==
    /\ seller = "InZone" /\ MayStart(Seller)
    /\ \E n \in 1 .. ShopMax - Cardinality(rows) :
       \E list \in [1 .. n -> {g \in Goods : bag[g] > 0}] :
         /\ last_id + n <= MaxListings
         /\ rows' = rows \cup
              {Row(last_id + i, shopsn + i - 1, list[i], bag[list[i]]) : i \in 1 .. n}
         /\ last_id' = last_id + n
         /\ Goto(Seller, [pc |-> "Inserted", slots |-> Range(list), next_sn |-> shopsn + n])
         /\ twice' = twice \cup
              {g \in Goods : \E i, j \in 1 .. n : i # j /\ list[i] = g /\ list[j] = g}
    /\ UNCHANGED <<bag, shopsn, parcels, coin, presence, wires, crashes, interrupted>>

\* Mutant: the items stay in the bags.
EscrowItemKept ==
    /\ In(Seller, "Inserted")
    /\ \E g \in step[Seller].slots : step' = [step EXCEPT ![Seller].slots = @ \ {g}]
    /\ UNCHANGED <<items, coin, presence, wires, crashes, history>>

\* ... then the items leave the bags, one by one (DeleteItemInInventory of a
\* slot that is already empty does nothing),
EscrowItem ==
    /\ In(Seller, "Inserted")
    /\ \E g \in step[Seller].slots :
         /\ bag' = [bag EXCEPT ![g] = 0]
         /\ step' = [step EXCEPT ![Seller].slots = @ \ {g}]
    /\ UNCHANGED <<rows, shopsn, last_id, parcels, coin, presence, wires, crashes, history>>

\* Mutant: the counter saved is the last serial used.
SaveSerialUsed ==
    /\ In(Seller, "Inserted") /\ step[Seller].slots = {}
    /\ shopsn' = step[Seller].next_sn - 1
    /\ trader' = TRUE
    /\ Goto(Seller, Idle)
    /\ UNCHANGED <<bag, rows, last_id, parcels, coin, seller, wires, crashes, history>>

\* ... and the counter is saved.
SaveSerial ==
    /\ In(Seller, "Inserted") /\ step[Seller].slots = {}
    /\ shopsn' = step[Seller].next_sn
    /\ trader' = TRUE
    /\ Goto(Seller, Idle)
    /\ UNCHANGED <<bag, rows, last_id, parcels, coin, seller, wires, crashes, history>>

\* PullShopItem: the row is read, whether or not a purchase is active, and the
\* item put on the cursor,
PullShopItem ==
    /\ seller = "InZone" /\ MayStart(Seller)
    /\ \E r \in rows :
         /\ bag' = [bag EXCEPT ![r.good] = @ + r.charges]
         /\ Goto(Seller, [pc |-> "Pulled", id |-> r.id])
    /\ UNCHANGED <<rows, shopsn, last_id, parcels, coin, presence, wires, crashes, history>>

\* ... then the row is deleted.
DeletePulled ==
    /\ In(Seller, "Pulled")
    /\ rows' = rows \ RowWithId(step[Seller].id)
    /\ trader' = (trader /\ rows' # {})
    /\ Goto(Seller, Idle)
    /\ UNCHANGED <<bag, shopsn, last_id, parcels, coin, seller, wires, crashes, history>>

\* Handle_OP_ClientUpdate and ProcessMovePC: a trader who moves ends trader
\* mode, and TraderEndTrader deletes all the character's rows.
Move ==
    /\ MayMove /\ seller = "InZone" /\ MayStart(Seller) /\ trader
    /\ rows' = {} /\ trader' = FALSE
    /\ UNCHANGED <<bag, shopsn, last_id, parcels, coin, seller, step, wires, crashes, history>>

-------------------------------------------------------------------------------
(* BuyTraderItemOutsideBazaar, in the buyer's zone. *)

\* The row is read; a purchase that finds it gone, active or outdated changes
\* nothing.
Buy(b) ==
    /\ MayStart(b)
    /\ \E r \in rows :
         /\ ~r.active
         /\ \E qty \in IF r.good \in Stackable THEN 1 .. r.charges ELSE {1} :
              Goto(b, [pc |-> "Read", row |-> r, qty |-> qty])
    /\ UNCHANGED <<items, coin, presence, wires, crashes, history>>

MarkActive(b) ==
    /\ In(b, "Read")
    /\ SetActive(step[b].row.id, TRUE)
    /\ Goto(b, [step[b] EXCEPT !.pc = "Marked"])
    /\ UNCHANGED <<bag, shopsn, last_id, parcels, coin, presence, wires, crashes, history>>

\* Mutant: the buyer's funds are not looked at.
TakeMoneyUnchecked(b) ==
    /\ In(b, "Marked")
    /\ purse' = [purse EXCEPT ![b] = @ - step[b].qty]
    /\ Goto(b, [step[b] EXCEPT !.pc = "Paid"])
    /\ UNCHANGED <<items, escrow, sold, presence, wires, crashes, history>>

TakeMoney(b) ==
    /\ In(b, "Marked")
    /\ purse[b] >= step[b].qty
    /\ purse' = [purse EXCEPT ![b] = @ - step[b].qty]
    /\ Goto(b, [step[b] EXCEPT !.pc = "Paid"])
    /\ UNCHANGED <<items, escrow, sold, presence, wires, crashes, history>>

\* No such item, no free parcel slot, too dear: the mark is taken back, also
\* when another buyer has set it.
RefuseBuyer(b) ==
    /\ In(b, "Marked")
    /\ SetActive(step[b].row.id, FALSE)
    /\ Goto(b, Idle)
    /\ UNCHANGED <<bag, shopsn, last_id, parcels, coin, presence, wires, crashes, history>>

SendParcel(b) ==
    /\ In(b, "Paid")
    /\ parcels' = [parcels EXCEPT ![b][step[b].row.good] = @ + step[b].qty]
    /\ Goto(b, [step[b] EXCEPT !.pc = "Delivered"])
    /\ UNCHANGED <<bag, rows, shopsn, last_id, coin, presence, wires, crashes, history>>

\* The insertion of the parcel fails: the mark is taken back, the money not.
LoseParcel(b) ==
    /\ In(b, "Paid")
    /\ crashes < MaxCrashes /\ crashes' = crashes + 1
    /\ SetActive(step[b].row.id, FALSE)
    /\ Goto(b, Idle)
    /\ UNCHANGED <<bag, shopsn, last_id, parcels, coin, presence, wires, history>>

\* Mutant: a partly bought stack is taken off whole.
TakeOffWhole(b) ==
    /\ In(b, "Delivered")
    /\ rows' = rows \ RowWithId(step[b].row.id)
    /\ sold' = sold + step[b].qty
    /\ Goto(b, [step[b] EXCEPT !.pc = "Taken"])
    /\ UNCHANGED <<bag, shopsn, last_id, parcels, purse, escrow, presence,
                   wires, crashes, history>>

\* The row goes when all of it is bought, by the copy read at first; else its
\* charges are what the copy says less the quantity, and it stays active.
TakeOffShop(b) ==
    /\ In(b, "Delivered")
    /\ LET row == step[b].row  qty == step[b].qty
       IN  rows' = IF row.charges <= qty \/ row.good \notin Stackable
                   THEN rows \ RowWithId(row.id)
                   ELSE IF Cardinality(RowWithSn(row.sn)) # 1 THEN rows
                   ELSE {IF r.sn = row.sn
                         THEN [r EXCEPT !.charges = row.charges - qty]
                         ELSE r : r \in rows}
    /\ sold' = sold + step[b].qty
    /\ Goto(b, [step[b] EXCEPT !.pc = "Taken"])
    /\ UNCHANGED <<bag, shopsn, last_id, parcels, purse, escrow, presence,
                   wires, crashes, history>>

Purchase(b) == [buyer |-> b, nth |-> sold, id |-> step[b].row.id,
                qty |-> step[b].qty]

TellWorld(b) ==
    /\ In(b, "Taken")
    /\ to_world' = to_world \cup {Purchase(b)}
    /\ Goto(b, Idle)
    /\ UNCHANGED <<items, coin, presence, world, to_zone, crashes, history>>

-------------------------------------------------------------------------------
(* The world process. *)

\* The seller has an entry in the client list: the message goes to the zone
\* the entry names.
RoutePurchase ==
    /\ world = Idle /\ seller # "Offline"
    /\ \E m \in to_world : /\ to_world' = to_world \ {m}
                           /\ to_zone' = to_zone \cup {m}
    /\ UNCHANGED <<items, coin, presence, step, world, crashes, history>>

\* It has none: read the bucket, add, write it.
ReadEscrow ==
    /\ world = Idle /\ seller = "Offline"
    /\ \E m \in to_world :
         /\ to_world' = to_world \ {m}
         /\ world' = [pc |-> "Banking", qty |-> m.qty, banked |-> escrow]
    /\ UNCHANGED <<items, coin, presence, step, to_zone, crashes, history>>

\* Mutant: the price replaces what was banked before.
BankOnlyPrice ==
    /\ world.pc = "Banking"
    /\ escrow' = world.qty
    /\ world' = Idle
    /\ UNCHANGED <<items, purse, sold, presence, step, to_world, to_zone, crashes, history>>

BankPrice ==
    /\ world.pc = "Banking"
    /\ escrow' = world.banked + world.qty
    /\ world' = Idle
    /\ UNCHANGED <<items, purse, sold, presence, step, to_world, to_zone, crashes, history>>

-------------------------------------------------------------------------------
(* The seller's zone. *)

\* The item with the listing's serial is removed from the seller's bags, if
\* there is one, and the price is added.
PaySeller ==
    /\ seller = "InZone" /\ MayStart(Seller)
    /\ \E m \in to_zone :
         /\ to_zone' = to_zone \ {m}
         /\ SetActive(m.id, FALSE)
         /\ purse' = [purse EXCEPT ![Seller] = @ + m.qty]
         /\ \/ UNCHANGED bag
            \/ /\ SerialsMeet
               /\ \E g \in {g \in Goods : bag[g] > 0} :
                    bag' = [bag EXCEPT ![g] = IF @ > m.qty THEN @ - m.qty ELSE 0]
    /\ UNCHANGED <<shopsn, last_id, parcels, escrow, sold, presence, step,
                   world, to_world, crashes, history>>

\* The zone has no client of that id: the message is dropped.
DropPurchase ==
    /\ seller # "InZone"
    /\ \E m \in to_zone : to_zone' = to_zone \ {m}
    /\ UNCHANGED <<items, coin, presence, step, world, to_world, crashes, history>>

\* pay_escrow of bazaar_broker.lua, in the event of the first zone after a
\* login: read the bucket, clear it, hand over.
LookIntoEscrow ==
    /\ In(Seller, "PayEscrow")
    /\ Goto(Seller, IF escrow = 0 THEN Idle
                    ELSE [pc |-> "EscrowRead", amount |-> escrow])
    /\ UNCHANGED <<items, coin, presence, wires, crashes, history>>

\* Mutant: the bucket is handed over but not cleared.
ClearEscrowForgotten ==
    /\ In(Seller, "EscrowRead")
    /\ step' = [step EXCEPT ![Seller].pc = "EscrowCleared"]
    /\ UNCHANGED <<items, coin, presence, wires, crashes, history>>

ClearEscrow ==
    /\ In(Seller, "EscrowRead")
    /\ escrow' = 0
    /\ step' = [step EXCEPT ![Seller].pc = "EscrowCleared"]
    /\ UNCHANGED <<items, purse, sold, presence, wires, crashes, history>>

GrantEscrow ==
    /\ In(Seller, "EscrowCleared")
    /\ purse' = [purse EXCEPT ![Seller] = @ + step[Seller].amount]
    /\ Goto(Seller, Idle)
    /\ UNCHANGED <<items, escrow, sold, presence, wires, crashes, history>>

-------------------------------------------------------------------------------
(* The seller comes and goes; processes die. *)

\* Log in: the world process enters the character in its client list.
Login == /\ MayLeave /\ seller = "Offline" /\ world = Idle
         /\ seller' = "Entering"
         /\ UNCHANGED <<items, coin, trader, step, wires, crashes, history>>

Arrive == /\ seller \in {"Entering", "Zoning"} /\ MayStart(Seller)
          /\ seller' = "InZone"
          /\ IF seller = "Entering" THEN Goto(Seller, [pc |-> "PayEscrow"])
             ELSE UNCHANGED step
          /\ UNCHANGED <<items, coin, trader, wires, crashes, history>>

\* A player in trader mode does not get to zone without moving: see Move.
ZoneOut == /\ MayLeave /\ seller = "InZone" /\ MayStart(Seller) /\ ~trader
           /\ seller' = "Zoning"
           /\ UNCHANGED <<items, coin, trader, step, wires, crashes, history>>

\* The client object is deleted, TraderEndTrader keeps the rows; the world
\* forgets the character later.
Disconnect == /\ MayLeave /\ seller = "InZone" /\ MayStart(Seller)
              /\ seller' = "Left" /\ trader' = FALSE
              /\ UNCHANGED <<items, coin, step, wires, crashes, history>>

Forget == /\ seller \in {"Left", "Entering", "Zoning"} /\ world = Idle
          /\ MayLeave
          /\ seller' = "Offline"
          /\ UNCHANGED <<items, coin, trader, step, wires, crashes, history>>

\* A zone process dies with the handler it was in.
Crash(p) ==
    /\ crashes < MaxCrashes
    /\ crashes' = crashes + 1
    /\ step' = [q \in Players |-> IF q \in Process(p) THEN Idle ELSE step[q]]
    /\ IF Seller \in Process(p) /\ seller = "InZone"
       THEN seller' = "Left" /\ trader' = FALSE
       ELSE UNCHANGED presence
    /\ interrupted' = (interrupted \/ (Seller \in Process(p) /\ In(Seller, "Inserted")))
    /\ UNCHANGED <<items, coin, wires, twice>>

Next == \/ AddItemsToShop \/ EscrowItem \/ SaveSerial
        \/ PullShopItem \/ DeletePulled \/ Move
        \/ \E b \in Buyers :
             \/ Buy(b) \/ MarkActive(b) \/ TakeMoney(b) \/ RefuseBuyer(b)
             \/ SendParcel(b) \/ LoseParcel(b) \/ TakeOffShop(b) \/ TellWorld(b)
        \/ RoutePurchase \/ ReadEscrow \/ BankPrice
        \/ PaySeller \/ DropPurchase
        \/ LookIntoEscrow \/ ClearEscrow \/ GrantEscrow
        \/ Login \/ Arrive \/ ZoneOut \/ Disconnect \/ Forget
        \/ \E p \in Players : Crash(p)

Spec == Init /\ [][Next]_vars
-------------------------------------------------------------------------------
(* Properties. *)

StepType == {"Idle", "Inserted", "Pulled", "Read", "Marked", "Paid",
             "Delivered", "Taken", "PayEscrow", "EscrowRead", "EscrowCleared"}
RowType == [id : 1 .. MaxListings, sn : 1 .. MaxListings, good : Goods,
            charges : Nat \ {0}, active : BOOLEAN]
PurchaseType == [buyer : Buyers, nth : Nat, id : 1 .. MaxListings,
                 qty : Nat \ {0}]

\* Every variable has its type.
TypeOK ==
    /\ bag \in [Goods -> Nat] /\ rows \subseteq RowType
    /\ shopsn \in 1 .. MaxListings + 1 /\ last_id \in 0 .. MaxListings
    /\ parcels \in [Buyers -> [Goods -> Nat]] /\ purse \in [Players -> Nat]
    /\ {escrow, sold, crashes} \subseteq Nat
    /\ seller \in Places
    /\ trader \in BOOLEAN
    /\ DOMAIN step = Players /\ \A p \in Players : step[p].pc \in StepType
    /\ world.pc \in {"Idle", "Banking"}
    /\ to_world \cup to_zone \subseteq PurchaseType
    /\ twice \subseteq Goods /\ interrupted \in BOOLEAN

Listed(g)    == SumFunction([r \in {r \in rows : r.good = g} |-> r.charges])
Delivered(g) == SumFunction([b \in Buyers |-> parcels[b][g]])
Units(g)     == bag[g] + Listed(g) + Delivered(g)

\* No item is ever lost: wherever a process dies, and however the purchases,
\* pulls and listings of several processes interleave, each unit is in the bags,
\* on the shop or in a parcel (the order of AddItemsToShop: insert first, delete
\* then).  One death is excepted, between the insertion and the saving of the
\* counter: the next list repeats the serials, and a partly bought stack is
\* written over its namesake.
NoItemLost == ~interrupted => \A g \in Goods : Units(g) >= Stack[g]

\* No item is ever duplicated ("there is no dupe hole"), between two handlers.
\* One that a list names twice is, since each entry is a row and the second
\* deletion finds the slot empty: it is excepted.
NoDupe == (\A p \in Players : step[p] = Idle) =>
              \A g \in Goods \ twice : Units(g) <= Stack[g]

\* The serials of the listings are unique, so that a purchase or a pull finds
\* the row it means (but for the death excepted above).
UniqueSerials == ~interrupted => \A r, t \in rows : r.sn = t.sn => r.id = t.id

\* Coin that has left a purse and not yet reached another.
InFlight ==
    SumFunction([m \in to_world \cup to_zone |-> m.qty])
    + (IF world = Idle THEN 0 ELSE world.qty)
    + (IF In(Seller, "EscrowCleared") THEN step[Seller].amount ELSE 0)
    + SumFunction([b \in Buyers |->
                     IF step[b].pc \in {"Paid", "Delivered", "Taken"} THEN step[b].qty ELSE 0])

\* No coin is made: a price is paid to the seller at most once, by the zone or
\* through the bucket, although the world process and the seller's login read
\* and write the bucket without a lock.
NoCoinMinted == SumFunction(purse) + escrow + InFlight
                    <= Coins * Cardinality(Buyers)

\* Once nothing is under way the seller has the price of every unit sold, in
\* hand or banked ("paid instantly if you're online, otherwise banked").
SellerPaid ==
    (\A p \in Players : step[p] = Idle) /\ InFlight = 0 =>
        purse[Seller] + escrow = sold

===============================================================================
