CONSTANT Granularity = 1
CONSTANT Spacing <- MCSpacing
CONSTANT HalfLength <- MCHalfLength
CONSTANT SpectrogramDelays <- MCDelays
CONSTANT FormantTracks = 2
CONSTANT MaxFormants = 3
CONSTANT KeepDuration = 1
CONSTANT MaxTime = 2
CONSTANT MaxNow = 2
SPECIFICATION Spec
INVARIANT TracksSorted
INVARIANT FramesWhole
INVARIANT ClockCountsRunningTime
PROPERTY ReadsAreStable
PROPERTY PruneKeepsRecent
