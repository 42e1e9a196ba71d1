SPECIFICATION FairSpec
CONSTANTS
    Statuses = {"ready", "resting"}
    Keys = {k1, k2, k3}
    Names = {n1}
    MaxIds = 3
    QueueTypes = {q1}
    Readers = {r1, r2}
    None = None
INVARIANTS QueueIndexAgrees NoFault
PROPERTIES RemoveKeepsTurn NoStarvation
