\* Two requests to each part of a provider and two faults of each kind; one
\* process of the service manager and two of the launcher; three requests for two
\* images over two slots.
SPECIFICATION PartsSpec
CONSTANTS
    answering = answering
    plain = plain
    draft = draft
    near = near
    far = far
    work = work
    home = home
    ImapRequest = {first, second}
    MaxImapFaults = 2
    SendRequest <- MCSendRequest
    Draft = {draft}
    DraftOf <- MCDraftOf
    Replying = {answering}
    MaxEdits = 1
    MaxSendFaults = 3
    ActionRequest = {archive, flag}
    ActionMessage = {near, far}
    GraphAccount = {work, home}
    AccountOf <- MCAccountOf
    MaxActionFaults = 2
    Lister = {sidebar, sync}
    GraphFolder = {f1, f2, f3}
    AttachmentCount = 2
    MAX_GRAPH_FOLDER_PAGES = 4
    MAX_GRAPH_FOLDERS = 3
    MAX_GRAPH_ATTACHMENT_PAGES = 2
    MAX_MIME_ATTACHMENTS = 2
    MaxOddities = 1
    Process = {service, launched, another}
    Managed = {service}
    SCHEMA_VERSION = 5
    MaxHostFaults = 2
    Fetcher = {list, header, reader}
    ImageUrl = {alice, bob}
    MAX_CONCURRENT_AVATAR_FETCHES = 2
    MaxAvatarFaults = 2
INVARIANTS
    PartsTypeOK
    MutatesOnce
    NothingLost
    BodyOfAsked
    DeliveredOnce
    NeverMixed
    SentMeansDelivered
    RefusedTwice
    LocalFollowsServer
    ListsTree
    SchemaSound
    PathLeadsToServer
    OneDownload
    CacheWhole
PROPERTIES
    NothingHangs
\* Requests that have ended, and a host where no daemon is wanted.
CHECK_DEADLOCK FALSE
