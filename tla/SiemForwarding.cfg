SPECIFICATION ForwardSpec
CONSTANTS
    Tx = {t1, t2}
    Content = {c}
    BatchSize = 1
    MaxId = 2
    MaxLosses = 0
    NoTx = NoTx
    Limit = 1
    Lag = 1
    MaxClock = 3
    MaxFindings = 2
SYMMETRY TxSymmetry
CONSTRAINT RecordsBound
INVARIANTS NothingIsSkipped
