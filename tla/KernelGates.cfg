CONSTANTS
    Attempts = {x, retry, again}
    x = x
    retry = retry
    again = again
    kx = kx
    ky = ky
    acme = acme
    other = other
    Tenants = {acme, other}
    TenantOf <- TwoTenants
    KeyOf <- OneKey
    Amount <- Amounts
    Budget <- Budgets
    Order <- Gates
    Threads = {x}
SPECIFICATION FairSpec
CHECK_DEADLOCK FALSE
INVARIANTS
    OneAdmissionPerKey
    LoggedBeforeOperation
    HumanDecides
    UsageIsCharged
    LoopWithinBudget
PROPERTIES
    AttemptsEnd
