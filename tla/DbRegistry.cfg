SPECIFICATION Spec
CONSTANTS
    Srv1 = Srv1
    Srv2 = Srv2
    Thread1 = Thread1
    Thread2 = Thread2
    NoThread = NoThread
    Procs <- OneSrv
    Threads <- TwoThreads
    Port <- SamePort
    Creds <- PlainCreds
    Faults <- SomeFaults
    MaxBytes = 7
INVARIANTS
    TypeOK
    Durable
    InStep
    OnlyRegistered
    SaveTearsOnlyTheEnd
    OneInside
PROPERTIES
    AccountsAreStable
    ImplementsRegistry
