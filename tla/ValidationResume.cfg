CONSTANTS
    s1 = s1
    s2 = s2
    s3 = s3
    Samples = {s1, s2, s3}
    Configs <- MCConfigs
    MaxLaunches = 3
    Artifacts <- MCArtifacts
    AllowIncomplete = FALSE
SPECIFICATION DirectorySpec
INVARIANTS
    ResumeReadsCompleted
CHECK_DEADLOCK FALSE
