SPECIFICATION Spec
CONSTANTS
    w1 = w1  w2 = w2  c1 = c1  c2 = c2  c3 = c3
    Workers = {w1, w2}
    Calls = {c1, c2, c3}
    WorkerOf <- TwoWorkers
    Secrets = {s1, s2, s3}
    NoSecret = NoSecret
    MaxFailures = 1
SYMMETRY Symmetry
INVARIANTS OneSecret
