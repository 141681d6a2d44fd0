\* Two threads share one task; no symmetry, because of the liveness properties.
CONSTANTS
    Holder = {h1, h2}
    NoCallback = NoCallback
SPECIFICATION LiveSpec
INVARIANTS NoCallbackLost
PROPERTIES ImplementsPromise WaitersReturn CallbackDelivered
\* A task ends: every thread may have dropped its handle.
CHECK_DEADLOCK FALSE
