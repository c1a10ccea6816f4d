SPECIFICATION FairSpec
CONSTANTS
    Clients = {c1, c2, c3}
    Paths = {p1}
    Policies = {m1}
    Values = {v1, v2}
    Handles = {h1}
    None = None
    Untouched = Untouched
    Removed = Removed
INVARIANTS TriggersBeforeClients IInv
PROPERTIES SnapshotStable ImplementsStore EveryoneServed
