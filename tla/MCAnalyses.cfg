SPECIFICATION AnalysesSpec
CONSTANTS
    None = None
    Contacts <- People
    Numbers = {"d1"}
    Days = {1, 2}
    MaxRows = 3
    Sales <- Papers
    Goods <- Assortment
    Quantities = {0, 2}
    Families <- Shelves
    Keywords <- Words
    Alike = {}
    Inventories <- Warehouses
    AsOf = 5
    LapseDays = 2
    MaxLines = 3
    Sources <- Channels
    Turnovers = {1, 2}
    Counts = {1, 4}
    Today = 4
    NewDays = 0
    ActiveDays = 1
    RiskDays = 2
    Others <- OthersSales
    MaxCustomers = 2
    Documents <- Invoices
    Orders <- WebOrders
    LeapYears = {4}
    MaxRead = 3
    Books <- Ledgers
    ReceivableRows <- Unpaid
    Official = {TRUE, FALSE}
    MaxReviewed = 2
    Catalogs <- Shops
    Lines <- SoldLines
    MaxSold = 2
INVARIANTS
    SameRutSameCustomer
    
    
    
    HigherValueNeverScoresLess
    
    SumsAgree
    YearsAreComparable
    DebtReconciles
    SalesAreTheProducts
\* What is read is bounded.
CHECK_DEADLOCK FALSE
