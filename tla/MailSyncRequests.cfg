\* A pass that races with a request, a renumbered mailbox, a failure and a restart.
SPECIFICATION FairSpec
CONSTANTS
    inbox = inbox
    archived = archived
    Mailbox <- MCMailbox
    Order <- MCOrder
    Archive = archived
    Actor = {a}
    Reader = {g}
    PageLimit = 2
    SearchSpan = 2
    BootstrapSpan = 3
    ReconcileLimit = 1
    MaxMessages = 2
    MaxUid = 2
    MaxGeneration = 2
    MaxExternal = 0
    MaxRequests = 1
    MaxFaults = 1
PROPERTIES
    ImplementsFeed
    RecentMailConverges
    IdentityStable
