\* A rolling upgrade: some brokers report a key c the others do not have.
CONSTANTS
    Components = {0, 3}
    IbpParts <- ReleaseIbpParts
    ALLOWED_DIFFERENT_CONFIGS = {"listeners"}
    KeyOrder <- MCKeyOrder
    Configs <- UpgradeConfigs
    MaxBrokers = 2
    Reports = {}
SPECIFICATION Spec
INVARIANT NeverRaises
CHECK_DEADLOCK FALSE
