SPECIFICATION KconfigSpec
INVARIANTS
    ExpressionsKeepValue
    TreeIsAsWritten
    ValuesAreRight
    FilesKeepSettings
    BuildIsCurrent
    FrontEndsAreTrue
CHECK_DEADLOCK FALSE
