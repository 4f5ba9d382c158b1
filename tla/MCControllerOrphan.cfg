SPECIFICATION Spec
CONSTANTS
    Volumes <- MCOneVolume
    NoVolume = NoVolume
    Requests = {r1, r2}
    Nodes = {n1}
    MountDir <- MCMountDir
    Special <- MCOneVolume
    NodeUnstageTimeout = 0
    Handlers = {"create", "delete", "validate"}
    Failing <- MCAllPoints
    SlowAnswers = {"delivered", "lost"}
    MaxFaults = 1
    MaxRestarts = 1
    MaxLen = 1
    MaxName = 8
SYMMETRY MCSymmetry
INVARIANT CleanUpOnlyUnmounted
CHECK_DEADLOCK FALSE
