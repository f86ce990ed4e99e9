SPECIFICATION Spec
CONSTANTS
    n1 = n1  n2 = n2  i1 = i1
    Names = {n1, t}
    Scripted = {t}
    TemplateRules = 1
    Ips = {i1}
    BanIds = {b1}
    IpOf <- OneAddress
    Reqs = {q1}
    None = None
    MaxEdits = 2
    MaxRestarts = 0
INVARIANTS AppliedIsLoaded
\* the clients may stop asking
CHECK_DEADLOCK FALSE
