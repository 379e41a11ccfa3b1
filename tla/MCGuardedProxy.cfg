SPECIFICATION FairSpec
CONSTANTS
    one = one
    two = two
    shop = shop
    base = base
    other = other
    good = good
    bad = bad
    None = None
    Malformed = Malformed
    Channels = {one, two}
    MaxRequests = 2
    MaxEpochs = 2
    Scenarios <- MCScenarios
    Requests <- MCRequests
    Challenges <- MCChallenges
    Payees = {shop}
    Networks = {base, other}
    Amounts = {1, 2}
    Tools = {good, bad}
    Manifest = {good}
    Granted = {good}
    AllowedPayTo = {}
    AllowedNetworks = {base}
    MaxPerPayment = None
    MaxPerEpoch = 2
INVARIANTS
    TypeOK
    OnlyPermitted
    ReceiptsOnce
    Velocity
    ChallengeNoted
    SettlesInOrder
PROPERTIES
    ChannelEnds
CHECK_DEADLOCK FALSE
