\* Two releases, a server that may or may not honour ranges, four faults.
CONSTANTS
    NoFile = NoFile
    Size <- Shrinking
    RangeSupport = {TRUE, FALSE}
    BaseSlash = {TRUE, FALSE}
    UrlForms = {"artifact", "other"}
    MaxRedirects = 3
    MaxFaults = 4
SPECIFICATION FairSpec
INVARIANTS DestinationWhole CredentialsStayAtOrigin
PROPERTIES ImplementsInstallation InstalledUnlessStuck
\* The application stops calling once the newest release is installed.
CHECK_DEADLOCK FALSE
