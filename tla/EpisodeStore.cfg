CONSTANTS
    NumEpisodes = 5
    BufferSize = 3
    MaxTries = 3
SPECIFICATION StoreSpec
CHECK_DEADLOCK FALSE
INVARIANT StoreTypeOK
INVARIANT ClosedIsConsistent
INVARIANT ShortSessionKeepsVideos
INVARIANT SpansAreOwn
PROPERTY FinalizeCloses
