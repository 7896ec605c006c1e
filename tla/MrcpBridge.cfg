SPECIFICATION FairSpec
CONSTANTS
    Request = {1, 2}
    None = None
    SocketRoom = 3
    MaxAudio = 1
    MaxFrames = 2
INVARIANTS TypeOK EndsOnce NoUnexpectedFrame ResultHoldsAllAudio PathsHearTheSame
PROPERTIES ConnectionReleased StopAnswered
