CONSTANTS
    kim = kim
    Users = {kim}
    f1 = f1
    f2 = f2
    Files = {f1, f2}
    UploadIds = {1, 2}
    ReportIds = {1, 2}
    SimIds = {1}
    ChatIds = {1}
    Includes <- MCIncludes
    MaxRows = 1
    MaxFiles = 2
    MaxChanges = 2
SPECIFICATION Spec
CHECK_DEADLOCK FALSE
INVARIANTS
    EveryUploadOnce
    ManifestTrue
