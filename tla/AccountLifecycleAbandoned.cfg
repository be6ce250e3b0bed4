SPECIFICATION FairSpec
CONSTANTS
    personal = personal
    again = again
    work = work
    Account = {personal}
    AddressOf <- MCAddressOf
    Brokered <- MCBrokered
    Order <- MCOrder
    Client = {c1}
    Broken = {}
    MaxRequests = 0
    MaxFaults = 0
    MaxAborts = 1
PROPERTIES
    SyncSurvivesDisconnects
