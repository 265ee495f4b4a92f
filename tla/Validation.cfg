\* Four launches of five configurations: whole collections, kills, resumes, a
\* workspace taken over by another configuration.
CONSTANTS
    s1 = s1
    s2 = s2
    s3 = s3
    Samples = {s1, s2, s3}
    Configs <- MCConfigs
    MaxLaunches = 4
    Artifacts <- MCArtifacts
    AllowIncomplete = FALSE
SPECIFICATION DirectorySpec
INVARIANTS
    CollectedOnceAndWhole
    PublishedCoversDataset
PROPERTIES
    RowsAccountedFor
CHECK_DEADLOCK FALSE
