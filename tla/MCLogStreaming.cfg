SPECIFICATION FairSpec
CONSTANTS
    Clients = {c1, c2}
    c1 = c1
    c2 = c2
    QueueSize = 1
    StreamWindow = 1
    MaxMessages = 1
INVARIANT TypeOK
INVARIANT StreamersHaveHandlers
INVARIANT DestroyedAlone
PROPERTY EntriesFollow
PROPERTY GoneClientsDetached
PROPERTY MessagesArrive
PROPERTY DriverStops
PROPERTY LogcatReconnects
