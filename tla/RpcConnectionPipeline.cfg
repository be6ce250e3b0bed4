\* Requests enough to fill every queue of the connection at once, or a frontend
\* that subscribes, with a receiver of one event that lags.
SPECIFICATION FairSpec
CONSTANTS
    subscribe = subscribe
    list = list
    first = first
    second = second
    third = third
    fourth = fourth
    fifth = fifth
    sixth = sixth
    seventh = seventh
    Request <- MCRequest
    Subscribe = {subscribe}
    Reader = {list}
    Topic = {mail, agenda}
    Capacity = 2
    EventCapacity = 1
    SocketBuffer = 1
    Scripts <- MCScripts
    Large = {}
    MaxEvents = 1
INVARIANTS
    TypeOK
    SerialOrder
    AnsweredOnce
PROPERTIES
    AllAnswered
    ViewConverges
    ShutdownCompletes
\* A connection that is closed stays closed.
CHECK_DEADLOCK FALSE
