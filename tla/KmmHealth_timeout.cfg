\* Three nodes, the PROMETHEUS_URLS values of MCInputs, two node state changes during the run; KMM_HEALTH_TIMEOUT
\* set, as in the deployment (a string).
\* The script ends after printing: no deadlock check.
CONSTANTS
    Urls <- MCUrls
    Inputs <- MCInputs
    Unset = Unset
    TimeoutFromEnv = TRUE
    MaxEnvSteps = 2
SPECIFICATION Spec
INVARIANT StatusReflectsAnswers
CHECK_DEADLOCK FALSE
