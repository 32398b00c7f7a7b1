CONSTANTS
    Chunk = 1
    Threshold = 0
    MaxErrors = 2
    Warmups = 1
    RtcEnabled = TRUE
    NumEpisodes = 1
    UploadEvery = 2
    MaxJobs = 1
SPECIFICATION Spec
CHECK_DEADLOCK FALSE
INVARIANT TypeOK
INVARIANT StaleIsBounded
INVARIANT EverythingUploaded
PROPERTY PauseIsHonoured
PROPERTY ShutdownEnds
