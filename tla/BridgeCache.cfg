SPECIFICATION Spec
CONSTANTS
    Keys = {k1, k2}
    Prefixes <- KeyPrefixes
    Callers = {c1, c2}
    NoCall = NoCall
    TTL = 2
    ProbeMax = 1
    CACHE_MAX = 1
    MaxTime = 4
    MaxVersion = 1
SYMMETRY Symmetry
INVARIANTS CacheBounded SingleFlight ProbedReadsFresh BoundedStaleness
\* the bounded clock may end the run
CHECK_DEADLOCK FALSE
