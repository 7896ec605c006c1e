SPECIFICATION FairSpec
CONSTANTS
    LastTurn = 1
    Session = {s1}
    None = None
    Chunk = {"voice", "quiet"}
    Vad = "silero"
    Failing = {}
    MaxAudio = 2
    MaxPcm = 2
    MaxStops = 1
    MaxPartials = 1
    MaxStale = 0
CHECK_DEADLOCK FALSE
PROPERTY VadClosesUtterance
