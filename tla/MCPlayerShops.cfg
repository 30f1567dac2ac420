SPECIFICATION MCSpec
CONSTANTS
    arrows = arrows
    gems = gems
    b1 = b1
    b2 = b2
    Goods = {arrows, gems}
    Stack <- MCStack
    Stackable = {arrows}
    Seller = seller
    Buyers = {b1, b2}
    Coins = 2
    ShopMax = 2
    SellerStart = {"InZone", "Offline"}
    SameZone = TRUE
    MayLeave = FALSE
    MayMove = TRUE
    SerialsMeet = TRUE
    MaxCrashes = 0
    MaxListings = 4
    ApartGoods = {arrows}
    ApartStack <- MCArrows
    ApartStackable = {arrows}
    ApartCoins = 1
    ApartCrashes = 1
    ApartListings = 2
    StacksStack <- MCStacks
    StacksStackable = {arrows, gems}
    StacksCoins = 2
SYMMETRY MCSymmetry
CHECK_DEADLOCK FALSE
INVARIANTS Types NoDupeTogether UniqueSerialsInAll SellerPaidTogether NoItemLostApart NoCoinMintedApart
