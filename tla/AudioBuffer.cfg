CONSTANT MaxSignals = 5
CONSTANT PushLengths = {1, 2}
CONSTANT PullLengths = {1, 3}
SPECIFICATION FairSpec
INVARIANT BufferSound
PROPERTY StreamSpec
PROPERTY CancelUnblocks
PROPERTY SignalledIsDelivered
