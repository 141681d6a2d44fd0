\* One interrupted download of a longer release, a server that honours ranges.
CONSTANTS
    NoFile = NoFile
    Size <- Shrinking
    RangeSupport = {TRUE}
    BaseSlash = {TRUE}
    UrlForms = {"artifact"}
    MaxRedirects = 2
    MaxFaults = 1
SPECIFICATION FairSpec
PROPERTIES InvalidPartDeleted
CHECK_DEADLOCK FALSE
