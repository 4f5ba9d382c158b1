SPECIFICATION FairSpec
CONSTANTS
    Volumes <- MCVolumes
    NoVolume = "none"
    Requests = {r1}
    MountDir <- MCName
    NodeUnstageTimeout = 1
    Failing <- MCFailing
    SlowAnswers = {"delivered", "lost"}
    MaxFaults = 2
    MaxRestarts = 1
    Parameters <- MCParameters
    Base <- MCBase
    Name <- MCName
    Configs <- MCConfigs
    Template <- MCTemplate
    MaxId = 65535
INVARIANT PermissionsAsRequested
INVARIANT CommandsFindTheirFiles
PROPERTY ImplementsController
PROPERTY CreatesAcrossUpgrades
CHECK_DEADLOCK FALSE
