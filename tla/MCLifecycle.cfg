CONSTANTS
    MaxInstances = 3
    Configs <- MCConfigs
SPECIFICATION FairSpec
INVARIANTS TypeOK ServingIsAwaited StartedIsWellFormed MonitoringMeansNoProxy NoServerForgotten
PROPERTY DrainEnds
CHECK_DEADLOCK FALSE
