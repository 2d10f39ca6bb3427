\* Versions over the components 0, 3 and the wildcard; broker protocol
\* versions with two numeric parts (every release since 1.0).  Up to three
\* brokers that report the same keys: compared keys a and b and the exempt
\* key listeners, each with one of two values.  Pure functions: the single
\* evaluation step ends the behaviour.
CONSTANTS
    Components = {0, 3}
    IbpParts <- ReleaseIbpParts
    ALLOWED_DIFFERENT_CONFIGS = {"listeners"}
    KeyOrder <- MCKeyOrder
    Configs <- SameKeysConfigs
    MaxBrokers = 3
    Reports <- BrokerReports
SPECIFICATION Spec
INVARIANT CompatibleMatchesSpec
INVARIANT MinVersionIsOldest
INVARIANT VerdictMatchesSpec
INVARIANT DivergenceIsFirst
CHECK_DEADLOCK FALSE
