------------------------------ MODULE MCPlayerShops ------------------------------
(* The shop in three places.  Together, as PlayerShop's constants say; apart, each player in a
   process of its own, the seller zoning and logging out but not trading on the move, and no
   item's serial that of a listing; and stacks, the same with other stacks.  TLC takes for the
   first all players in one zone process that does not die, two items, a stack of two and a
   single one; for the second a stack of two and one process that may die; and for the third
   two stacks of two, and one of the buyers buys. *)
EXTENDS PlayerShop, TLC

CONSTANTS arrows, gems, b1, b2,
          ApartGoods, ApartStack, ApartStackable, ApartCoins, ApartCrashes, ApartListings,
          StacksStack, StacksStackable, StacksCoins

VARIABLE place

Apart == INSTANCE PlayerShopProofs WITH
    Goods <- ApartGoods, Stack <- ApartStack, Stackable <- ApartStackable, Coins <- ApartCoins,
    SellerStart <- {"InZone"}, SameZone <- FALSE, MayLeave <- TRUE, MayMove <- FALSE,
    SerialsMeet <- FALSE, MaxCrashes <- ApartCrashes, MaxListings <- ApartListings

Stacks == INSTANCE PlayerShopProofs WITH
    Stack <- StacksStack, Stackable <- StacksStackable, Coins <- StacksCoins,
    SellerStart <- {"InZone"}, SameZone <- FALSE, MayLeave <- TRUE, MayMove <- FALSE,
    SerialsMeet <- FALSE, MaxCrashes <- ApartCrashes, MaxListings <- ApartListings

ASSUME ApartAssumption == Apart!ShopAssumption
ASSUME StacksAssumption == Stacks!ShopAssumption

MCStack == arrows :> 2 @@ gems :> 1
MCArrows == arrows :> 2
MCStacks == arrows :> 2 @@ gems :> 2
MCSymmetry == Permutations({b1, b2})

MCInit == \/ place = "together" /\ Init
          \/ place = "apart" /\ Apart!Init
          \/ place = "stacks" /\ Stacks!Init

\* Bound: one of the stacks' buyers buys, whichever.
OneBuys == \A a, b \in Buyers : (step[a] # Idle \/ purse[a] # StacksCoins)
                               /\ (step[b] # Idle \/ purse[b] # StacksCoins) => a = b

MCNext == /\ UNCHANGED place
          /\ \/ place = "together" /\ Next
             \/ place = "apart" /\ Apart!Next
             \/ place = "stacks" /\ Stacks!Next /\ OneBuys'

MCSpec == MCInit /\ [][MCNext]_<<place, vars>>

\* Types, in each place.
Types == CASE place = "together" -> TypeOK
           [] place = "apart"    -> Apart!TypeOK
           [] place = "stacks"   -> Stacks!TypeOK

\* PlayerShop's NoDupe where handlers do not interleave: in one process no item is ever
\* duplicated that no list names twice.
NoDupeTogether == place = "together" => NoDupe

\* PlayerShop's UniqueSerials: the serials of the listings stay unique, whatever is listed,
\* sold, pulled and listed again, and whatever step a process dies at, but that one.
UniqueSerialsInAll == /\ place = "together" => UniqueSerials
                      /\ place = "apart" => Apart!UniqueSerials
                      /\ place = "stacks" => Stacks!UniqueSerials

\* PlayerShop's SellerPaid where the seller stays: once nothing is under way the seller has
\* the price of every unit sold, in hand or banked.
SellerPaidTogether == place = "together" => SellerPaid

\* PlayerShop's NoItemLost, apart: whatever step a process dies at, but between the insertion
\* of a list and the saving of the counter, no unit is lost.
NoItemLostApart == /\ place = "apart" => Apart!NoItemLost
                   /\ place = "stacks" => Stacks!NoItemLost

\* PlayerShop's NoCoinMinted, apart: a price is paid at most once, by the zone or through
\* the bucket.
NoCoinMintedApart == /\ place = "apart" => Apart!NoCoinMinted
                     /\ place = "stacks" => Stacks!NoCoinMinted
==================================================================================
