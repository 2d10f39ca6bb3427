\* Identical 3.6 brokers; one cluster change (a stop, or a start before its registration) during the run.
CONSTANTS
    Brokers = {1, 2, 3}
    BrokerConfigs <- MCBrokerConfigs36
    EnvInputs <- MCEnv3
    Unset = Unset
    MIN_VERSION <- MCMinVersion
    MAX_VERSION <- MCMaxVersion
    ALLOWED_DIFFERENT_CONFIGS = {"listeners", "zookeeper.connect", "node.id"}
    KeyOrder <- MCKeyOrder
    MaxEnvSteps = 1
SPECIFICATION Spec
INVARIANT NeverRaises
CHECK_DEADLOCK FALSE
