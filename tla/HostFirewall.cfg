SPECIFICATION Spec
CONSTANTS
    n1 = n1  n2 = n2  i1 = i1
    Names = {n1, n2, t}
    Scripted = {t}
    TemplateRules = 1
    Ips = {i1}
    BanIds = {b1, b2}
    IpOf <- OneAddress
    Reqs = {q1, q2}
    None = None
    MaxEdits = 3
    MaxRestarts = 1
SYMMETRY Symmetry
INVARIANTS ActiveIsLoaded RulesConsistent NoFabricatedLift
\* the clients may stop asking
CHECK_DEADLOCK FALSE
