SPECIFICATION HostSpec
CONSTANTS
    Tcp = Tcp
    Udp = Udp
    Thread1 = Thread1
    NoThread = NoThread
    Procs <- TwoSrv
    Threads <- OneThread
    Port <- OwnPort
    Creds <- Logins
    Faults <- OpenFaults
    MaxBytes = 5
    RcvBuf = 2
INVARIANTS
    GrantsStayOnFile
    SharingMakesNothingUp
PROPERTIES
    NoiseIsDrained
