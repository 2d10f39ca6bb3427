\* Three jobs on a cluster with the CRDs in any starting state; a failure
\* exits the job.  Every job ends once it has walked the files: no deadlock check.
CONSTANTS
    Files <- MCFiles
    Jobs = {1, 2, 3}
    LocalVersion <- MCLocalVersion
    IgnoreCrdFailureEnv = "false"
    Unset = Unset
    InitialCrds <- AnyCrd
    Kinds <- FileKinds
SPECIFICATION Spec
INVARIANT NewestWhenAllSucceeded
PROPERTY RegistrySpec
CHECK_DEADLOCK FALSE
