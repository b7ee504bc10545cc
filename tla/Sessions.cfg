SPECIFICATION FairSessSpec
CONSTANTS
    Srv = Srv
    Thread1 = Thread1
    Thread2 = Thread2
    NoThread = NoThread
    Procs <- OneSrv
    Threads <- TwoThreads
    Port <- OnePort
    Creds <- TwoCreds
    Faults <- Denied
    MaxBytes = 8
    OperatorKills = TRUE
    PowerFails = TRUE
    LISTENQ = 1
    SureThreads = 1
INVARIANTS
    SessTypeOK
    ToldIsDurable
    AnswersTheRequest
    BothEndsAgree
    LoggedInHasAccount
PROPERTIES
    EveryRequestEnds
    SessionsAreReaped
    ConnectionsAreAccepted
