CONSTANTS
    Operators = {o1}
    Contents <- MCContents
    Releases <- MCReleases
    DeployedPolicy = "deployed"
    MaxDamaged = 1
    Nil = Nil
    Docs <- MCDocs
    Texts <- MCTexts
    Absent = "absent"
    Restricted = {"r1"}
    Unsafe = {"n1"}
    Profile <- MCProfile
    T4Docs = {"policy", "review"}
    Asks <- MCAsks
    MaxCandidates = 3
    MaxSelected = 2
    MaxClaims = 1
    MaxBatches = 2
    MaxAdded = 2
    MaxExpanded = 1
    MaxScanned = 1
    MaxTotalCandidates = 9
    MaxMerged = 5
SPECIFICATION Spec
INVARIANTS
    TwoStepChainSurvives
CHECK_DEADLOCK FALSE
