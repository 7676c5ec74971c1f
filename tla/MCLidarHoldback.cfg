CONSTANTS
    HoldbackEnabled = TRUE
    MaxPending = 2
    ImuStamps <- MCImuStamps
    ReadyStamps <- MCReadyStamps
    MaxClouds = 4
    NoStamp = NoStamp
SPECIFICATION FairSpec
INVARIANT DecidedCloudsWereReady
INVARIANT LossTakesOldest
INVARIANT DecidedInArrivalOrder
INVARIANT NoReadyCloudWaits
PROPERTY ImplementsLedger
PROPERTY EveryCloudIsSettled
