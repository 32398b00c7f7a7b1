CONSTANTS
    NumEpisodes = 5
    BufferSize = 2
    MaxTries = 3
SPECIFICATION StoreSpec
CHECK_DEADLOCK FALSE
INVARIANT EveryVideoIsListed
