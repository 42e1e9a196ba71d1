SPECIFICATION ServiceSpec
CONSTANTS
    Statuses = {"ready"}
    Keys = {k1, k2}
    Names = {n1, n2}
    MaxIds = 2
    QueueTypes = {}
    Readers = {}
    Checks = {c1}
    None = None
SYMMETRY Symmetry
CHECK_DEADLOCK FALSE
INVARIANTS AliasesIndexLiveTokens UnnamedAddNeverRejected FaultNeedsDuplicateKeys CheckWorksOnItsToken
PROPERTY RegistrySpec
