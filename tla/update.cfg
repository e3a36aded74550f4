SPECIFICATION Spec
CONSTANTS
    MaxCommit = 2
    Broken = {1}
PROPERTIES UpdateEnds SuccessRuns FailureRestores
