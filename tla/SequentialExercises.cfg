CONSTANTS
    Items = {i1, i2, i3, i4}
    Nil = Nil
    Keys = {"a", "b", "c", "d"}
    Values = {1, 2}
    Capacities <- MCCapacities
    Missing = Missing
    BufferSize = 2
    Offsets <- MCOffsets
    Limits <- MCLimits
    Sources <- MCSources
    MaxDisturbance = 2
    Directories <- MCDirectories
    Parents <- MCParents
    GoodPaths <- MCGoodPaths
    Absent = Absent
    Structs <- MCStructs
SYMMETRY ItemSymmetry
SPECIFICATION ExercisesSpec
INVARIANTS CommandSeesItsEnvironment ValidationIsComplete
PROPERTIES ImplementsSequenceList ImplementsRecencyCache CopyIsFaithful
