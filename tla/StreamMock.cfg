SPECIFICATION FairSpec
CONSTANTS
    LastTurn = 1
    Session = {s1, s2}
    None = None
    Chunk = {"voice"}
    Vad = "mock"
    Failing <- AnsweringBackends
    MaxAudio = 1
    MaxPcm = 1
    MaxStops = 1
    MaxPartials = 1
    MaxStale = 1
PROPERTIES BargeInCompletes GoneIsReleased StopIsAnswered
