CONSTANT Shapes <- MCShapes
CONSTANT MaxBlocks = 6
CONSTANT MaxEnqueues = 7
SPECIFICATION Spec
INVARIANT RingSound
PROPERTY FifoSpec
