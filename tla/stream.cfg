\* Reads that bring up to two messages; streams of up to six tokens.
CONSTANTS
    Reconnect = TRUE
    MaxChunk = 2
    MaxRead = 2
    Limit = 4
    MaxInput = 6
SPECIFICATION StreamSpec
INVARIANTS EventsAuthorized QuietAfterStop NoSilentEnd CutsDoNotMatter
PROPERTIES StopEnds DestructorReturns Reconnects
CHECK_DEADLOCK FALSE
