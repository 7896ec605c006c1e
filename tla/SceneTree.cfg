SPECIFICATION Spec
CONSTANTS
    RawScenes <- Scenes
    None = None
    RecursionLimit = 8
INVARIANTS TypeOK PoolIsV3 RaisesOnlyOnEnumLoop PathsRoundTrip
CHECK_DEADLOCK FALSE
