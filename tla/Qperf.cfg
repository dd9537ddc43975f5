SPECIFICATION Spec
CONSTANTS
    ReceiveWindow = 1
    MaxChunks = 2
    ProbeTime = 1
    ReportIntervals = {0, 1}
    EarlyReports = 1
    MaxWait = 2
    MaxLag = 0
INVARIANTS
    TypeOK
    BytesAccounted
    ReportsTile
    ReportsAreLong
    PanicsAfterFailure
    LogTellsOutcome
    PreparedWithFirst
PROPERTY MeasurementEnds
