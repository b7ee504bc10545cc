SPECIFICATION SessSpec
CONSTANTS
    Srv = Srv
    Thread1 = Thread1
    Thread2 = Thread2
    NoThread = NoThread
    Procs <- OneSrv
    Threads <- TwoThreads
    Port <- OnePort
    Creds <- OneCred
    Faults <- NoFaults
    MaxBytes = 8
    OperatorKills = FALSE
    PowerFails = FALSE
    LISTENQ = 2
    SureThreads = 2
PROPERTIES
    ServerOutlivesClients
