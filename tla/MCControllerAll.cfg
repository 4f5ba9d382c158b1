SPECIFICATION Spec
CONSTANTS
    Volumes <- MCOneVolume
    NoVolume = NoVolume
    Requests = {r1, r2, r3}
    Nodes = {n1}
    MountDir <- MCMountDir
    Special <- MCOneVolume
    NodeUnstageTimeout = 1
    Handlers = {"create", "delete", "validate"}
    Failing <- MCAllPoints
    SlowAnswers = {"delivered", "lost"}
    MaxFaults = 2
    MaxRestarts = 1
    MaxLen = 7
    MaxName = 8
SYMMETRY MCSymmetry
INVARIANT LocksMatchHandlers
INVARIANT FilesInPlace
INVARIANT LockedDirIsOwn
CHECK_DEADLOCK FALSE
