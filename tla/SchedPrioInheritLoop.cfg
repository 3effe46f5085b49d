CONSTANT N = 4
SPECIFICATION Spec
INVARIANTS LoopImplements LoopPicksEffectivePriority
PROPERTY LoopTerminates
CHECK_DEADLOCK FALSE
