SPECIFICATION Spec
CONSTANTS
    Dnas <- MCDnas
    Configs <- MCConfigs
    Builds <- MCBuilds
    MaxDumps = 2
INVARIANTS LoadsInStep RestoredAsDumped SnapshotsAgree
