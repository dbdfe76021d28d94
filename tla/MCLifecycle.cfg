SPECIFICATION Spec
CONSTANTS
    NumMigrations = 2
    NumStmts = 2
    Environments <- MCEnvironments
    MaxStarts = 2
    Consumers = {c1}
    Audits = {a1}
    Queries = {q1}
CHECK_DEADLOCK FALSE
INVARIANTS MigratedExactlyOnce SeedWins ServesWithinLimits RequestsKeepDatabase
PROPERTIES CallsReturn ShutdownCompletes
