SPECIFICATION Spec
CONSTANTS
    LogMaxRows = 3
    LogPruneBatchRows = 2
    Limit = 2
    MaxID = 12
    MaxMisses = 0
INVARIANT
    RowsWithinAllowance
