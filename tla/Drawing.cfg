CONSTANT Parts = {"texture", "steady texture", "axis", "canvas"}
CONSTANT MaxTime = 6
CONSTANT TwoSpans = {1, 3}
CONSTANT OneSpan = {2}
CONSTANT TimeStarts <- MCTimeStarts
CONSTANT TimeSpans = {20, 55}
CONSTANT Extents = {20, 75}
CONSTANT Chars = {"a"}
CONSTANT Zooms = {30, 60, 300}
CONSTANT MaxTextures = 6
SPECIFICATION Spec
INVARIANT TextureCorrect
INVARIANT LabelsCorrect
INVARIANT ResourcesCorrect
CHECK_DEADLOCK FALSE
