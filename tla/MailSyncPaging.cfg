\* One mailbox, no requests: pages, gaps, generations, failures.
SPECIFICATION FairSpec
CONSTANTS
    inbox = inbox
    archived = archived
    Mailbox <- MCInboxOnly
    Order <- MCInboxOrder
    Archive = inbox
    Actor = {}
    Reader = {}
    PageLimit = 1
    SearchSpan = 2
    BootstrapSpan = 3
    ReconcileLimit = 1
    MaxMessages = 4
    MaxUid = 4
    MaxGeneration = 2
    MaxExternal = 2
    MaxRequests = 0
    MaxFaults = 1
INVARIANTS
    TypeOK
    CursorCovers
PROPERTIES
    CursorMonotonic
    ResetReplacesMailbox
    BootstrapKeepsNewest
    ImplementsFeed
