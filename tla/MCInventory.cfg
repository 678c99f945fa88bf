SPECIFICATION InventorySpec
CONSTANTS
    None = None
    Catalogs <- Shops
    Lines <- SoldLines
    MaxSold = 1
INVARIANTS
    IdentifierIsOwn
\* The lines are bounded.
CHECK_DEADLOCK FALSE
