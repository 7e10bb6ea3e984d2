CONSTANTS
    MaxItems = 2
    MaxEpoch = 4
    MaxBuilds = 7
    NULL = NULL
SPECIFICATION Spec
INVARIANT
    OneLiveItemPerEpoch
