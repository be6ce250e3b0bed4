SPECIFICATION Spec
CONSTANTS
    work = work
    home = home
    standup = standup
    review = review
    groceries = groceries
    Account <- MCWork
    Item <- MCWorkItem
    Owner <- MCWorkOwner
    Outside <- MCOutside
    Client = {c1, c2}
    Broken = {}
    RecoveryLimit = 3
    MaxRequests = 3
    MaxExternal = 0
    MaxFaults = 2
INVARIANTS
    NoDuplicateCreate
    SucceededMeansCached
PROPERTIES
    NoResurrection
