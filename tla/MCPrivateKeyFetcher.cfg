\* Two keys, two refreshing threads, TTL of one tick, three ticks of the
\* key service's clock, local clock in step with it.
CONSTANTS
    k1 = k1
    k2 = k2
    t1 = t1
    t2 = t2
    NoTime = NoTime
    KeyIds <- MCKeyIds
    Refreshers <- MCRefreshers
    TTL = 1
    Skew = 0
    MaxTime = 3
SPECIFICATION Spec
INVARIANT FreshKeysCached
PROPERTIES
    RefreshReturns
