SPECIFICATION Spec
CONSTANTS
    Worker = {w1, w2}
    Scene <- Scenes
    RootName <- Names
    RootOf <- Roots
    Tree <- Trees
    EnumCategory <- Enums
    Pool <- Pools
    Weights <- Weight
    Requests <- Reqs
    Uploads <- MCUploads
    Matcher = "embedder"
    Hypotheses <- Answers
    MaxConf = 1
    MaxTurns = 3
    None = None
    Stranger = Stranger
INVARIANTS TypeOK NotFoundMeansUnknown Accounted PointerStaysInTree FusionIsWeightedSum RankingIsSound
PROPERTIES HistoryGrows
SYMMETRY Symmetry
CHECK_DEADLOCK FALSE
