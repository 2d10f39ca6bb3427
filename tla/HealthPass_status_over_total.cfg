\* Three brokers answer while the operator expects two.
CONSTANTS
    Brokers = {1, 2, 3}
    BrokerConfigs <- MCBrokerConfigs36
    EnvInputs <- MCEnv2
    Unset = Unset
    MIN_VERSION <- MCMinVersion
    MAX_VERSION <- MCMaxVersion
    ALLOWED_DIFFERENT_CONFIGS = {"listeners", "zookeeper.connect", "node.id"}
    KeyOrder <- MCKeyOrder
    MaxEnvSteps = 0
SPECIFICATION Spec
INVARIANT StatusMatchesSpec
CHECK_DEADLOCK FALSE
