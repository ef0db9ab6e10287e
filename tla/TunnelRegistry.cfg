SPECIFICATION Spec
INVARIANTS TypeOK OneTunnel CreatesAlone WatchArmed NoMissedReady
PROPERTY DeathUnlists
CHECK_DEADLOCK FALSE
CONSTANTS
    usb = usb
    network = network
    r1 = r1
    p1 = p1
    DeviceIds = {usb, network}
    Refreshers = {r1}
    Polls = {p1}
    RetryLimits <- MCRetryLimits
    MaxTunnels = 3
    MaxPuts = 1
