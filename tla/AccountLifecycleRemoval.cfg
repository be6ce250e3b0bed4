SPECIFICATION Spec
CONSTANTS
    personal = personal
    again = again
    work = work
    Account = {personal, again, work}
    AddressOf <- MCAddressOf
    Brokered <- MCBrokered
    Order <- MCOrder
    Client = {c1, c2}
    Broken = {work}
    MaxRequests = 2
    MaxFaults = 1
    MaxAborts = 1
INVARIANTS
    TypeOK
    OneAccountPerAddress
    OnePassPerAccount
PROPERTIES
    RemovalIsFinal
