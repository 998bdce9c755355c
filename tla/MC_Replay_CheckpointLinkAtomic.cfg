CONSTANTS
    StartAt <- MCStartAt
    StopAt <- MCStopAt
    AssumeFinalized <- MCAssumeFinalized
    Interval <- MCIntervalOne
    ForkBase <- MCNoForkBase
    LaunchAt <- MCLaunchAt
    Messages <- MCMessages
    EvCount <- MCEvCount
    ChanCap <- MCChanCap
    MaxRestarts <- MCMaxRestarts
SPECIFICATION Spec
\* replay() ends in wait_forever, and the process stays down once the
\* restart bound is spent: both are final states.
CHECK_DEADLOCK FALSE
PROPERTIES
    CheckpointLinkAtomic
