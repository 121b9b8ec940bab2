CONSTANT Kernels = {"convolution", "wavelets", "swt", "axes", "sigma", "peaks", "pitch", "prediction", "formants", "integral"}
CONSTANT MaxSignal = 8
CONSTANT MaxFilter = 8
CONSTANT MaxOrder = 100
CONSTANT MaxSize = 32
CONSTANT MaxLevel = 6
CONSTANT Shapes <- MCShapes
CONSTANT Length = 12
CONSTANT Tmax = 2
CONSTANT Fewest = 4
CONSTANT PeakLengths = {2, 3, 4, 5, 6}
CONSTANT n_cands = 3
CONSTANT CurveLengths = {1, 2, 3, 4, 5, 6}
CONSTANT Levels <- MCLevels
CONSTANT lpcOrder = 3
CONSTANT Samples <- MCSamples
CONSTANT LengthsOf <- MCLengthsOf
CONSTANT Frequencies = {1, 2, 17, 37, 52, 109}
CONSTANT Extras <- MCExtras
CONSTANT Spacing = 2
CONSTANT ipc = 4
CONSTANT maxDepth = 3
CONSTANT Regions = {0, 1, 4, 7}
SPECIFICATION Spec
INVARIANT ConvolutionCorrect
INVARIANT TransformsCorrect
INVARIANT SolversCorrect
PROPERTY KernelsEnd
CHECK_DEADLOCK FALSE
