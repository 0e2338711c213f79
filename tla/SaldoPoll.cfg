\* Two overlapping polls, batches shorter than the backlog, one failure.
CONSTANTS
    now = now
    late = late
    Poller <- MCPoller
    Limit = 2
    MaxUpdates = 3
    MaxTroubles = 1
SPECIFICATION FairSpec
INVARIANTS
    IInv
    NothingLost
    AnsweredOnce
PROPERTIES
    EveryUpdateHandled
