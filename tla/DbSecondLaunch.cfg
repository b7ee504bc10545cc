SPECIFICATION Spec
CONSTANTS
    Srv1 = Srv1
    Srv2 = Srv2
    Thread1 = Thread1
    Thread2 = Thread2
    NoThread = NoThread
    Procs <- TwoSrv
    Threads <- OneThread
    Port <- SamePort
    Creds <- PlainCreds
    Faults <- NoFaults
    MaxBytes = 8
INVARIANTS
    Durable
