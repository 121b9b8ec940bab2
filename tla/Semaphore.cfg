CONSTANT MaxSignals = 6
SPECIFICATION SemaFairSpec
INVARIANT SemaphoreSound
PROPERTY CountingSpec
PROPERTY WaitReturns
