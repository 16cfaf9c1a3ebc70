CONSTANTS
    r1 = r1
    r2 = r2
    Requests = {r1, r2}
    MaxArrivals = 4
    MaxPlans = 3
    MaxStores = 2
    MaxReports = 2
SPECIFICATION Spec
CHECK_DEADLOCK FALSE
SYMMETRY RequestSymmetry
INVARIANTS
    TypeOK
    RowsMatchFiles
    EntryKept
    ReportOfItsUpload
