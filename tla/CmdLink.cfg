SPECIFICATION FairSpec
CONSTANTS
    Retries = 3
    DiscardCap = 3
    MaxLost = 2
    MaxData = 1
INVARIANTS
    AckMeansExecuted
    SettingsInForce
    NoStaleData
PROPERTY
    StartupEnds
