SPECIFICATION Spec
CONSTANTS
    work = work
    home = home
    standup = standup
    review = review
    groceries = groceries
    Account <- MCWork
    Item <- MCWorkItem
    Owner <- MCWorkOwner
    Outside = {}
    Client = {c1}
    Broken = {}
    RecoveryLimit = 3
    MaxRequests = 2
    MaxExternal = 0
    MaxFaults = 1
PROPERTIES
    FifoPerAccount
