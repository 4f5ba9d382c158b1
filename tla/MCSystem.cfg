SPECIFICATION SystemSpec
CONSTANTS
    Volumes = {v1}
    NoVolume = NoVolume
    Requests = {r1}
    Nodes = {n1, n2}
    MountDir <- MCAnyDir
    Special = {}
    NodeUnstageTimeout = 1
    Handlers = {"create", "delete"}
    Failing <- MCFailing
    SlowAnswers = {"delivered", "lost"}
    MaxFaults = 1
    MaxRestarts = 1
    Targets = {t1}
    NoTarget = NoTarget
    NodeRequests = {q1}
    NodeFailing <- MCNodeFailing
    MaxNodeFaults = 1
    MaxNodeRestarts = 1
SYMMETRY MCSymmetry
INVARIANT PublishedIsUsable
INVARIANT CleanUpSparesVolumes
PROPERTY ImplementsControllerServer
PROPERTY DeletionWaitsForPods
CHECK_DEADLOCK FALSE
