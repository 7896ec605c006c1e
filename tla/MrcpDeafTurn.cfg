SPECIFICATION Spec
CONSTANTS
    Capacity = 8
    First = 65535
    Datagrams <- MCDatagrams
    Methods = {"RECOGNIZE", "DEFINE-GRAMMAR", "garbled"}
    Signals = {"Q"}
    SliceSamples = 2
    EmitMs = 2
    SamplesPerMs = 1
    MinSamples = 2
    MaxTurns = 2
    MaxDatagrams = 3
INVARIANT EveryTurnIsHeard
CHECK_DEADLOCK FALSE
