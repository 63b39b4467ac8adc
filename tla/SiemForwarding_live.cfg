SPECIFICATION FairForwardSpec
CONSTANTS
    Tx = {t1, t2}
    Content = {c}
    BatchSize = 1
    MaxId = 1
    MaxLosses = 0
    NoTx = NoTx
    Limit = 1
    Lag = 1
    MaxClock = 2
    MaxFindings = 1
PROPERTIES EverythingIsDelivered
