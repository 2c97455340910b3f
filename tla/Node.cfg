CONSTANTS
    Connections = {c1, c2}
    Handles = {h1, h2}
    Stoppers = {main, timer}
    Main = main
    Nobody = nobody
    Background = FALSE
    CloseWakesAccept = TRUE
    IdleTimeout = TRUE
    RemoteShutdown = TRUE
    MaxConnections = {1, 2}
    MaxRequests = 1
SPECIFICATION Spec
CHECK_DEADLOCK FALSE
INVARIANTS
    OpenSocketsListed
    MainStopDrains

    
