CONSTANTS
    MaxInstances = 3
    Configs <- MCConfigs
SPECIFICATION FairSpec
PROPERTY AllInstancesServe
CHECK_DEADLOCK FALSE
