SPECIFICATION UdpSpec
CONSTANTS
    Srv = Srv
    Loop = Loop
    Client1 = Client1
    NoThread = NoThread
    Procs <- OneSrv
    Threads <- OneLoop
    Clients <- OneClient
    Port <- OnePort
    Creds <- TwoCreds
    Faults <- Denied
    NetFaults <- NoNetFaults
    MaxBytes = 4
    MaxSent = 3
    MaxReceived = 3
PROPERTIES
    TakesItsAnswer
