SPECIFICATION Spec
CONSTANTS
    Hosts = {h1, h2}
    Shapes <- MCTwoShapes
    MaxFs = 2
    MaxNodes = 2
    Suspects = {"F1", h1, h2}
    Secrets = {s1, s2, "bad"}
    Certs = {c1, c2}
    MaxSecrets = 2
    MaxCerts = 2
INVARIANT LowerInFileWins
INVARIANT NoInvalidValueIsUsed
INVARIANT SecretsReachTheirHost
SYMMETRY MCSymmetry
CHECK_DEADLOCK FALSE
