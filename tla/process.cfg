CONSTANTS
    s1 = s1  s2 = s2  s3 = s3
    Slot <- Slots
    Prober <- Probers
    Settings <- SomeSettings
    MaxStatements = 2
SPECIFICATION FairSpec
INVARIANTS TypeOK PoolBounded CleanExit NothingLeftOpen
PROPERTIES ReadyWhileOpen StartupEnds StopEnds ProbeAnswered RequestsEnd
