\* Identical 3.6 brokers; one broker stops during the run and a request to it may never return.
CONSTANTS
    Brokers = {1, 2, 3}
    BrokerConfigs <- MCBrokerConfigs36
    EnvInputs <- MCEnv3
    Unset = Unset
    MIN_VERSION <- MCMinVersion
    MAX_VERSION <- MCMaxVersion
    ALLOWED_DIFFERENT_CONFIGS = {"listeners", "zookeeper.connect", "node.id"}
    KeyOrder <- MCKeyOrder
    MaxEnvSteps = 1
SPECIFICATION Spec
PROPERTY TerminatesWithinTimeout
CHECK_DEADLOCK FALSE
