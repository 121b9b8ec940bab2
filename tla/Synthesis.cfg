CONSTANT Parts = {"queue", "audio", "filter"}
CONSTANT SynthesisRate = 6
CONSTANT OutRates = {4, 8}
CONSTANT InitialDuration = 1
CONSTANT SleepTime = 4
CONSTANT MaxLate = 1
CONSTANT MaxCallbackTime = 1
CONSTANT StartTime = 2
CONSTANT PullTime = 2
CONSTANT MaxOpens = 2
CONSTANT MaxDuration = 40
CONSTANT MaxFormants = 3
CONSTANT InRate = 4
CONSTANT OutRate = 3
CONSTANT Chunk = 2
CONSTANT Lengths = {1, 4}
CONSTANT Periods = {3, 7}
CONSTANT FadeTime = 1
CONSTANT Modulus = 13
CONSTANT MaxHeld = 1
SPECIFICATION Spec
INVARIANT QueueCorrect
INVARIANT SynthesizerCorrect
PROPERTY GlotContiguous
PROPERTY SoundFollows
