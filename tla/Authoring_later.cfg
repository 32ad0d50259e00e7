\* Projects with targets that link what is declared after them.
SPECIFICATION Spec
CONSTANTS
    ProjectChoices <- MCLater
    Requests <- MCRequests
    SuiteOrder <- MCSuiteOrder
    AsksFor <- MCAsksFor
    MaxFrames = 8
INVARIANT LinkArtifactsArePromised
CHECK_DEADLOCK FALSE
