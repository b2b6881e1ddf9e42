\* A reconnection that falls into a server restart ends in the failed ticket request.
SPECIFICATION FairSpec
CONSTANTS
    p1 = p1
    s1 = s1
    s2 = s2
    NoSocket = NoSocket
    Pages <- OnePage
    Sockets <- SocketsDef
    MaxHandlers = 1
    MaxDrops = 0
    MaxOutages = 1
    MaxErrors = 0
PROPERTIES
    SubscribedIsLive
