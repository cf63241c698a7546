SPECIFICATION Spec
CHECK_DEADLOCK FALSE
CONSTANTS
    Products = {"p", "q"}
    Baskets <- MCBaskets
    RuleLists <- MCRuleLists
    Coupons <- MCCoupons
    Entitlements = {"NONE", "EXCLUSIVE", "STACKABLE"}
    Discounts = {0, 2}
INVARIANTS
    PassesAgree
    CouponSparesLines
    RewardsAreBought
    QuoteIsHonoured
