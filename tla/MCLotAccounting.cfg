SPECIFICATION Spec
CONSTANTS
    MaxDay = 2
    MaxBuys = 2
    MaxSales = 2
    MaxScalings = 1
    BuyQtys = {3, 5}
    BuyPrices = {2, 3}
    SaleQtys = {2, 3, 7}
    Reports = {0, 2, 4, 5, 9}
    Bases = {6, 10, Absent}
    Absent = Absent
INVARIANTS
    FirstInFirstOut
    BrokerAgrees
    NothingVanishes
CHECK_DEADLOCK FALSE
