SPECIFICATION Spec
CONSTANTS
    FrameMs = 3
    SpeechStartMs = 6
    SilenceEndMs = 8
    MinSpeechMs = 7
    MaxSpeechMs = 13
    Window = 2
    ChunkSizes = {1, 5}
    MaxBytes = 27
INVARIANTS TypeOK BufferMatchesClock ThresholdsRespected SegmentsAreDisjoint NoByteLost SegmentsHoldSpeech
