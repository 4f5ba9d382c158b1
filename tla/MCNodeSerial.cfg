SPECIFICATION FairSpec
CONSTANTS
    Volumes = {v1}
    Nodes = {n1}
    Targets = {t1, t2}
    NoTarget = NoTarget
    Requests = {r1, r2, r3}
    Overlap = FALSE
    Tracking = TRUE
    Failing <- MCNotTracking
    MaxFaults = 2
    MaxRestarts = 1
INVARIANT TypeOK
INVARIANT PublishedIsMounted
INVARIANT UnstagedIsClean
INVARIANT CleanUpOnlyUnmounted
INVARIANT NoStackedMounts
INVARIANT StagedIsTracked
PROPERTY StageConverges
PROPERTY TeardownConverges
