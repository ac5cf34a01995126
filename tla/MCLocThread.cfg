SPECIFICATION ThreadSpec
CONSTANT MaxQueued = 3
INVARIANTS DelegateFreedOnce RunnableFreedOnce
PROPERTY DestroyEnds
CHECK_DEADLOCK FALSE
