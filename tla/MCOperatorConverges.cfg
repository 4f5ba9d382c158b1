SPECIFICATION FairSpec
CONSTANTS
    Order <- MCSecured
    Specs <- MCSpecs
    Initial <- MCInitial
    Unset = "unset"
    Default = "default"
    MaxEvents = 1
INVARIANT QuietIsDeployed
PROPERTY EventuallyDeployed
PROPERTY EventuallyUninstalled
CHECK_DEADLOCK FALSE
