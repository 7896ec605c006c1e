SPECIFICATION Spec
CONSTANTS
    LastTurn = 1
    Session = {s1}
    None = None
    Chunk = {"voice", "quiet"}
    Vad = "silero"
    Failing <- AnyBackend
    MaxAudio = 2
    MaxPcm = 3
    MaxStops = 1
    MaxPartials = 1
    MaxStale = 0
INVARIANTS TypeOK NoTaskOutlivesTurn MetricMatchesWire
PROPERTIES ImplementsProtocol PathBAllOrNothing
CHECK_DEADLOCK FALSE
