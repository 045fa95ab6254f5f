CONSTANTS
    TaskCount = 5
    n = 3
    Limits = {0, 2}
    Stages = 2
    InputLength = 3
    InputChunks = 2
    PeerChunks = 2
SPECIFICATION ExercisesSpec
INVARIANTS BoundedWork RunReportsRight PipelineIsFaithful SessionReportsRight
PROPERTY ProgramsEnd
CHECK_DEADLOCK FALSE
