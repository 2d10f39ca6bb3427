\* Three nodes, the PROMETHEUS_URLS values of MCInputs, two node state changes during the run; KMM_HEALTH_TIMEOUT
\* unset (the integer default 6).
\* The script ends after printing: no deadlock check.
CONSTANTS
    Urls <- MCUrls
    Inputs <- MCInputs
    Unset = Unset
    TimeoutFromEnv = FALSE
    MaxEnvSteps = 2
SPECIFICATION Spec
INVARIANT FailureIsReal
PROPERTY RunEnds
CHECK_DEADLOCK FALSE
