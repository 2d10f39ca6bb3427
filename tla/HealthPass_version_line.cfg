\* Brokers on 3.6 and 3.7 side by side, as during a rolling upgrade.
CONSTANTS
    Brokers = {1, 2, 3}
    BrokerConfigs <- MCBrokerConfigs
    EnvInputs <- MCEnv3
    Unset = Unset
    MIN_VERSION <- MCMinVersion
    MAX_VERSION <- MCMaxVersion
    ALLOWED_DIFFERENT_CONFIGS = {"listeners", "zookeeper.connect", "node.id"}
    KeyOrder <- MCKeyOrder
    MaxEnvSteps = 0
SPECIFICATION Spec
INVARIANT ReportedVersionIsOldest
CHECK_DEADLOCK FALSE
