CONSTANT Platforms = {{"ALSA", "PortAudio", "Pulse"}, {"Oboe"}, {"WebAudio"}}
CONSTANT MaxContexts = 3
SPECIFICATION FairSpec
CHECK_DEADLOCK FALSE
INVARIANT StreamsSound
INVARIANT RateOfRunningDevice
INVARIANT PausedIsSilent
PROPERTY CallsReturn
