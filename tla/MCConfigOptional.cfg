SPECIFICATION Spec
CONSTANTS
    Hosts = {h1, h2}
    Shapes <- MCShapes
    MaxFs = 1
    MaxNodes = 1
    Suspects = {}
    Secrets = {s1}
    Certs = {c1}
    MaxSecrets = 0
    MaxCerts = 0
INVARIANT StartsWithoutPanic
SYMMETRY MCSymmetry
CHECK_DEADLOCK FALSE
