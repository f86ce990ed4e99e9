SPECIFICATION Spec
CONSTANTS
    Builds = {b1, b2}
    Profiles = {p1}
    MaxCrashes = 1
INVARIANTS VerdictSound Cancellable RunningRowExplained
PROPERTIES BuildAnswers
\* the operators may stop asking
CHECK_DEADLOCK FALSE
