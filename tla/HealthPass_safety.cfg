\* Three brokers, the expected count is three, three cluster changes during
\* the run.  The run ends (prints, raises or blocks): no deadlock check.
CONSTANTS
    Brokers = {1, 2, 3}
    BrokerConfigs <- MCBrokerConfigs
    EnvInputs <- MCEnvInputs
    Unset = Unset
    MIN_VERSION <- MCMinVersion
    MAX_VERSION <- MCMaxVersion
    ALLOWED_DIFFERENT_CONFIGS = {"listeners", "zookeeper.connect", "node.id"}
    KeyOrder <- MCKeyOrder
    MaxEnvSteps = 3
SPECIFICATION Spec
INVARIANT StatusMatchesSpec
INVARIANT DownWithoutConnection
CHECK_DEADLOCK FALSE
