SPECIFICATION HistoryFairSpec
CONSTANTS
    Volumes = {v1}
    NoVolume = NoVolume
    Requests = {r1, r2, r3}
    Nodes = {n1}
    MountDir <- MCAnyDir
    Special = {v1}
    NodeUnstageTimeout = 2
    Handlers = {"create", "delete"}
    Failing <- MCAllPoints
    SlowAnswers = {"delivered", "lost"}
    MaxFaults = 2
    MaxRestarts = 1
INVARIANT TypeOK
INVARIANT CleanUpOnlyUnmounted
INVARIANT UsableVolumesAreReady
INVARIANT FilesInPlace
INVARIANT DeletedVolumesAreGone
PROPERTY RemovalWaitsForNodes
PROPERTY ImplementsVolumeLife
PROPERTY CreateConverges
PROPERTY DeleteConverges
CHECK_DEADLOCK FALSE
