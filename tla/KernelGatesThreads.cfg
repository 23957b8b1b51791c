CONSTANTS
    Attempts = {x, retry, again}
    x = x
    retry = retry
    again = again
    kx = kx
    ky = ky
    acme = acme
    other = other
    Tenants = {acme}
    TenantOf <- OneTenant
    KeyOf <- TwoKeys
    Amount <- Amounts
    Budget <- Budgets
    Order <- Gates
    Threads = {x, retry, again}
SPECIFICATION Spec
CHECK_DEADLOCK FALSE
INVARIANTS
    WithinBudget
