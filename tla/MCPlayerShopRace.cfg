SPECIFICATION Spec
CONSTANTS
    arrows = arrows
    sword = sword
    b1 = b1
    b2 = b2
    Goods = {arrows, sword}
    Stack <- MCStack
    Stackable = {arrows}
    Seller = seller
    Buyers = {b1, b2}
    Coins = 2
    ShopMax = 2
    SellerStart = {"InZone"}
    SameZone = FALSE
    MayLeave = FALSE
    MayMove = FALSE
    SerialsMeet = FALSE
    MaxCrashes = 0
    MaxListings = 2
SYMMETRY MCSymmetry
CHECK_DEADLOCK FALSE
INVARIANTS NoDupe
