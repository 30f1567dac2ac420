--------------------------- MODULE MCPlayerShopsProofs ---------------------------
(***************************************************************************)
(* The shop in three places: what PlayerShopProofs says of each, for every *)
(* value of its constants.                                                 *)
(***************************************************************************)
EXTENDS MCPlayerShops, PlayerShopProofs

\* A behaviour is one of the shop together, one of the shop apart or one of the shop of stacks.
LEMMA OnePlace ==
    MCSpec => \/ Spec /\ [](place = "together")
              \/ Apart!Spec /\ [](place = "apart")
              \/ Stacks!Spec /\ [](place = "stacks")
<1>1. MCInit => \/ place = "together" /\ Init
                \/ place = "apart" /\ Apart!Init
                \/ place = "stacks" /\ Stacks!Init
  BY DEF MCInit
<1>2. place = "together" /\ [MCNext]_<<place, vars>> => (place = "together")' /\ [Next]_vars
  BY DEF MCNext
<1>3. place = "apart" /\ [MCNext]_<<place, vars>> => (place = "apart")' /\ [Apart!Next]_Apart!vars
  BY DEF MCNext, vars, Apart!vars, items, coin, presence, wires, history,
     Apart!items, Apart!coin, Apart!presence, Apart!wires, Apart!history
<1>4. place = "stacks" /\ [MCNext]_<<place, vars>> => (place = "stacks")' /\ [Stacks!Next]_Stacks!vars
  BY DEF MCNext, vars, Stacks!vars, items, coin, presence, wires, history,
     Stacks!items, Stacks!coin, Stacks!presence, Stacks!wires, Stacks!history
<1> QED
  BY <1>1, <1>2, <1>3, <1>4, PTL DEF MCSpec, Spec, Apart!Spec, Stacks!Spec

\* Every variable has its type, in each place.
THEOREM TypesInAll == MCSpec => []Types
<1>1. Apart!Spec => []Apart!TypeOK
  BY ApartAssumption, Apart!TypeCorrect
<1>2. Stacks!Spec => []Stacks!TypeOK
  BY StacksAssumption, Stacks!TypeCorrect
<1>3. /\ place = "together" /\ TypeOK => Types
      /\ place = "apart" /\ Apart!TypeOK => Types
      /\ place = "stacks" /\ Stacks!TypeOK => Types
  BY DEF Types
<1> QED
  BY <1>1, <1>2, <1>3, OnePlace, TypeCorrect, PTL

\* In one process that does not die no item is ever duplicated that no list names twice.
THEOREM NeverTwice ==
    ASSUME SameZone, MaxCrashes = 0
    PROVE  MCSpec => []NoDupeTogether
<1>1. Spec => []NoDupe
  BY NoDupeUnlessKilled
<1>2. NoDupe \/ place = "apart" \/ place = "stacks" => NoDupeTogether
  BY DEF NoDupeTogether
<1> QED
  BY <1>1, <1>2, OnePlace, PTL

\* The serials stay unique, whatever is listed, sold, pulled and listed again, and whatever step
\* a process dies at, until one dies between the insertion of a list and the saving of the counter.
THEOREM SerialsStayUnique == MCSpec => []UniqueSerialsInAll
<1>1. Apart!Spec => []Apart!UniqueSerials
  BY ApartAssumption, Apart!SerialsUnique
<1>2. Stacks!Spec => []Stacks!UniqueSerials
  BY StacksAssumption, Stacks!SerialsUnique
<1>3. /\ place = "together" /\ UniqueSerials => UniqueSerialsInAll
      /\ place = "apart" /\ Apart!UniqueSerials => UniqueSerialsInAll
      /\ place = "stacks" /\ Stacks!UniqueSerials => UniqueSerialsInAll
  BY DEF UniqueSerialsInAll
<1> QED
  BY <1>1, <1>2, <1>3, OnePlace, SerialsUnique, PTL

\* A seller who stays, in the zone or offline, has the price of every unit sold once nothing is
\* under way.
THEOREM EverySalePaid ==
    ASSUME MaxCrashes = 0, ~MayLeave, SellerStart \subseteq {"InZone", "Offline"}
    PROVE  MCSpec => []SellerPaidTogether
<1>1. Spec => []SellerPaid
  BY SellerPaidWhoStays
<1>2. SellerPaid \/ place = "apart" \/ place = "stacks" => SellerPaidTogether
  BY DEF SellerPaidTogether
<1> QED
  BY <1>1, <1>2, OnePlace, PTL

\* Whatever process dies at whatever step, a price is paid at most once.
THEOREM PaidAtMostOnce == MCSpec => []NoCoinMintedApart
<1>1. Apart!Spec => []Apart!NoCoinMinted
  BY ApartAssumption, Apart!CoinNotMinted
<1>2. Stacks!Spec => []Stacks!NoCoinMinted
  BY StacksAssumption, Stacks!CoinNotMinted
<1>3. /\ place = "together" => NoCoinMintedApart
      /\ place = "apart" /\ Apart!NoCoinMinted => NoCoinMintedApart
      /\ place = "stacks" /\ Stacks!NoCoinMinted => NoCoinMintedApart
  BY DEF NoCoinMintedApart
<1> QED
  BY <1>1, <1>2, <1>3, OnePlace, PTL

\* No unit is lost, whatever step a process dies at, until one dies between the insertion of a
\* list and the saving of the counter.
THEOREM NothingLostApart == MCSpec => []NoItemLostApart
<1>1. Apart!Spec => []Apart!NoItemLost
  BY ApartAssumption, Apart!ItemsNotLost
<1>2. Stacks!Spec => []Stacks!NoItemLost
  BY StacksAssumption, Stacks!ItemsNotLost
<1>3. /\ place = "together" => NoItemLostApart
      /\ place = "apart" /\ Apart!NoItemLost => NoItemLostApart
      /\ place = "stacks" /\ Stacks!NoItemLost => NoItemLostApart
  BY DEF NoItemLostApart
<1> QED
  BY <1>1, <1>2, <1>3, OnePlace, PTL
==================================================================================
