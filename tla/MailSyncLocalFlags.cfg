SPECIFICATION FairSpec
CONSTANTS
    inbox = inbox
    archived = archived
    Mailbox <- MCMailbox
    Order <- MCOrder
    Archive = archived
    Actor = {a}
    Reader = {}
    PageLimit = 2
    SearchSpan = 2
    BootstrapSpan = 3
    ReconcileLimit = 1
    MaxMessages = 3
    MaxUid = 3
    MaxGeneration = 1
    MaxExternal = 0
    MaxRequests = 1
    MaxFaults = 0
PROPERTIES
    LocalActionsStaySynchronized
