\* The only handle registers on_error, waits and goes out of scope.
CONSTANTS
    Holder = {h1}
    NoCallback = NoCallback
SPECIFICATION ReadmeSpec
INVARIANT ProcessSurvives
CHECK_DEADLOCK FALSE
