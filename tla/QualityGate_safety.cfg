SPECIFICATION Spec
CONSTANTS
    FileCount = 5
    BatchSize = 2
    DefectSets <- MCDefectSets
    UnformattedSets <- MCUnformattedSets
INVARIANTS
    PassMeansClean
    PassIsAboutRepository
    LeftoversReported
CHECK_DEADLOCK FALSE
