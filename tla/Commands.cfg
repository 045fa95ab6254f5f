CONSTANT Requests = {r1, r2, r3}
SPECIFICATION CommandsSpec
INVARIANTS ResourcesOutliveUsers NothingLeftOpen SuccessIsReal
PROPERTY CommandStops
