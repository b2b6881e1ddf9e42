\* One page, two names for its sockets, drops, server restarts and Redis errors.
SPECIFICATION FairSpec
CONSTANTS
    p1 = p1
    s1 = s1
    s2 = s2
    NoSocket = NoSocket
    Pages <- OnePage
    Sockets <- SocketsDef
    MaxHandlers = 2
    MaxDrops = 2
    MaxOutages = 2
    MaxErrors = 2
INVARIANTS
    TypeOK
    OneConnection
    StatusIsHonest
    NewcomersAreBridged
PROPERTIES
    UnsubscribedIsReleased
    LiveUnlessRefused
