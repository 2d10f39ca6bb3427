CONSTANTS
    Topics = {"t1", "t2"}
    Confs = {"c1", "c2"}
    Parts = {1, 2}
    Acls = {"a1"}
    Pattern = {"t1"}
    BackupArgs <- MCArgs
    RestoreArgs <- MCArgs
    MaxEnvSteps = 2
    MaxRestoreRuns = 2
SPECIFICATION Spec
INVARIANT BackupComplete
INVARIANT Recovered
CHECK_DEADLOCK FALSE
