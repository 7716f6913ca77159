CONSTANTS
    s1 = s1
    s2 = s2
    s3 = s3
    s4 = s4
    woken = woken
    stopped = stopped
    noArgs = noArgs
    Null = Null
    NoEvent = NoEvent
    Subscriptions <- MCSubscriptions
    TypeOf <- MCTypeOf
    Handled <- MCHandled
    Types <- MCTypes
    Args = {noArgs}
    Idle <- MCIdle
    MaxSubscriptions = 3
    MaxEvents = 3
SPECIFICATION FairSpec
INVARIANTS
    NoDuplicateSubscriptions
PROPERTIES
    ImplementsFifo
    PendingIsDispatchedOrLost
