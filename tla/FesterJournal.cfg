SPECIFICATION JournalSpec
CONSTANTS
    Journaled = {b1, b2}
    JOURNAL_CAP = 2
    MaxEvents = 4
    MaxFailures = 1
    MaxRestarts = 1
INVARIANTS ReplayInOrder
PROPERTIES TrimKeepsCap EveryEventWritten
\* the clients may stop asking
CHECK_DEADLOCK FALSE
