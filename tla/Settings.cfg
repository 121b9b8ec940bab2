CONSTANT Parts = {"settings", "colours", "path"}
CONSTANT SomeFields = {"formantAlgorithm", "viewTimeSpan"}
CONSTANT Torch = FALSE
CONSTANT MaxStarts = 2
CONSTANT SomeFormants = {0, 1, 2}
CONSTANT BaseLengths = {0, 3, 4, 8, 9, 10, 11, 12, 16, 17, 18, 19, 32, 33, 70}
CONSTANT MAX_PATH = 33
CONSTANT MaxCalls = 2
SPECIFICATION Spec
INVARIANT SettingsCorrect
PROPERTY ColoursCorrect
INVARIANT PathCorrect
CHECK_DEADLOCK FALSE
