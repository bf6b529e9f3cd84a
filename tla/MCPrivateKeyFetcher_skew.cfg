\* Two keys, two refreshing threads, TTL of one tick, three ticks of the
\* key service's clock, local clock one tick ahead of it.
CONSTANTS
    k1 = k1
    k2 = k2
    t1 = t1
    t2 = t2
    NoTime = NoTime
    KeyIds <- MCKeyIds
    Refreshers <- MCRefreshers
    TTL = 1
    Skew = 1
    MaxTime = 3
SPECIFICATION Spec
INVARIANT FreshKeysCached

