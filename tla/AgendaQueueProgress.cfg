SPECIFICATION FairSpec
CONSTANTS
    work = work
    home = home
    standup = standup
    review = review
    groceries = groceries
    Account <- MCAccount
    Item <- MCPairItem
    Owner <- MCPairOwner
    Outside = {}
    Client = {c1}
    Broken = {home}
    RecoveryLimit = 2
    MaxRequests = 2
    MaxExternal = 1
    MaxFaults = 1
INVARIANTS
    RecoveryInOrder
PROPERTIES
    OperationsSettle
