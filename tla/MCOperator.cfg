SPECIFICATION Spec
CONSTANTS
    Order <- MCConfigured
    Specs <- MCSpecs
    Initial <- MCInitial
    Unset = "unset"
    Default = "default"
    MaxEvents = 2
INVARIANT TypeOK
INVARIANT ClusterObjectsHaveFinalizer
INVARIANT QuietIsDeployed
CHECK_DEADLOCK FALSE
