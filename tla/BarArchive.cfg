\* Days of three minutes, runs that see four, one crash or failed request.
CONSTANTS
    DayLength = 3
    Window = 4
    Served = 4
    Retention = 1
    MaxMinute = 9
    MaxTroubles = 1
SPECIFICATION FairSpec
INVARIANTS
    IInv
    Complete
    FormingIsNewest
PROPERTIES
    EveryMinuteKept
