\* The default IGNORE_CRD_FAILURE=true on a fresh cluster: three jobs race
\* to create the CRD.  Every file is a valid, annotated CRD, so the only
\* failures are those of the API server's answers.
CONSTANTS
    Files <- MCFiles
    Jobs = {1, 2, 3}
    LocalVersion <- MCLocalVersion
    IgnoreCrdFailureEnv = Unset
    Unset = Unset
    InitialCrds <- NoCrd
    Kinds = {"crd"}
SPECIFICATION Spec
INVARIANT NewestWhenAllSucceeded
CHECK_DEADLOCK FALSE
