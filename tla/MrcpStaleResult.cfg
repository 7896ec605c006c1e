SPECIFICATION Spec
CONSTANTS
    Request = {1, 2}
    None = None
    SocketRoom = 3
    MaxAudio = 1
    MaxFrames = 2
INVARIANT ResultIsForItsRequest
