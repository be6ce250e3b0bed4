\* One frame arrives in two pieces.
SPECIFICATION FairSpec
CONSTANTS
    subscribe = subscribe
    list = list
    first = first
    second = second
    third = third
    fourth = fourth
    fifth = fifth
    sixth = sixth
    seventh = seventh
    Request <- MCRequest
    Subscribe = {subscribe}
    Reader = {list}
    Topic = {mail, agenda}
    Capacity = 2
    EventCapacity = 1
    SocketBuffer = 1
    Scripts <- MCLargeScripts
    Large = {second}
    MaxEvents = 0
PROPERTIES
    AllAnswered
\* A connection that is closed stays closed.
CHECK_DEADLOCK FALSE
