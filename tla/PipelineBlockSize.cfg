CONSTANT TicksPerSecond = 2
CONSTANT Rates <- MCOneRate
CONSTANT Granularity = 1
CONSTANT Processors <- MCProcessors
CONSTANT InitialBlock = 2
CONSTANT Step = 1
CONSTANT LowBlock = 2
CONSTANT HighBlock = 3
CONSTANT GrowAt = 3
CONSTANT ShrinkAt = 1
CONSTANT CaptureLengths <- MCCaptureLengths
CONSTANT MaxBacklog = 4
CONSTANT MaxBuffered = 4
SPECIFICATION FairSpec
PROPERTY KeepsUpWithBacklog
