SPECIFICATION Spec
CONSTANTS
    Volumes = {v1}
    Nodes = {n1}
    Targets = {t1}
    NoTarget = NoTarget
    Requests = {r1, r2}
    Overlap = TRUE
    Tracking = TRUE
    Failing <- MCNothing
    MaxFaults = 0
    MaxRestarts = 0
SYMMETRY MCSymmetry
INVARIANT UnmountOnlyUnbound
