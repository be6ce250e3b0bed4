SPECIFICATION FairSpec
CONSTANTS
    personal = personal
    again = again
    work = work
    Account = {personal, again, work}
    AddressOf <- MCAddressOf
    Brokered <- MCBrokered
    Order <- MCOrder
    Client = {c1, c2}
    Broken = {work}
    MaxRequests = 1
    MaxFaults = 1
    MaxAborts = 0
PROPERTIES
    EveryAccountSyncs
