SPECIFICATION ReconFairSpec
CONSTANTS
    Lines = {l1, l2}
    NoLine = NoLine
    MaxRetries = 2
    MaxGrants = 3
    MaxReloads = 1
    MaxRematches = 1
INVARIANTS
    OneLiveSocket
    SeatedHasTheToken
PROPERTIES
    ReconnectingEnds
\* A session that was removed, a client that gave up.
CHECK_DEADLOCK FALSE
