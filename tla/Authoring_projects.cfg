\* Projects of several files, providers and suites, evaluated, lowered and
\* validated; qstar stops once the project is read.
SPECIFICATION Spec
CONSTANTS
    ProjectChoices <- MCProjectChoices
    Requests <- MCRequests
    SuiteOrder <- MCSuiteOrder
    AsksFor <- MCAsksFor
    MaxFrames = 8
INVARIANTS
    FilesTracked
    FinalsGetTheirInputs
    SelectionIsReachability
PROPERTIES
    EvaluationEnds
CHECK_DEADLOCK FALSE
