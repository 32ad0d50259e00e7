\* Four tests: one with hooks, one skipped, three that compete for resources and for two holders.
SPECIFICATION FairSpec
CONSTANTS
    board = board
    gpu = gpu
    TestCount = 4
    Resource = {board, gpu}
    Capacity <- Capacities
    Request <- Requests
    Jobs = 2
    HasSetup = {1}
    HasCleanup = {1}
    Skipped = {4}
    RetryCount <- Retries
    RetryOn <- Retried
INVARIANTS
    ReportIsRight
    ResourcesKept
    NoOrphans
PROPERTIES
    CleanupBeforeRelease
    Terminates
