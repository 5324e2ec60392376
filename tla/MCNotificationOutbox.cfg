\* Two emails of one person and one webhook, two workers, any fault.
SPECIFICATION FairSpec
CONSTANTS
    e1 = e1
    e2 = e2
    h1 = h1
    h2 = h2
    w1 = w1
    w2 = w2
    lab = lab
    url = url
    Worker = {w1, w2}
    Email = {e1, e2}
    Hook = {h1}
    Place = {lab}
    PlaceOf <- MCPlaceOf
    Endpoint = {url}
    EndpointOf <- MCEndpointOf
    Ping = {}
    MaxAttempts = 2
    BreakerFailures = 1
    PlaceCap = 1
    DayCap = 2
    Faults = 1
INVARIANT LeaseKeepsClaim
INVARIANT DuplicatesComeFromFaults
INVARIANT RecordsMatchDeliveries
INVARIANT CapsHold
PROPERTY RowsSettle
CHECK_DEADLOCK FALSE
