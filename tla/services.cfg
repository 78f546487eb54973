SPECIFICATION ServicesSpec
CHECK_DEADLOCK FALSE
CONSTANTS
    Requests = {q1, q2}
    MaxRetries = 2
    create = q1
    Tasks = {t1, t2}
    MaxSlots = 3
    Transfers = {f1, f2}
    FileChunk = 2
    MaxFrame = 2
    MaxLength = 3
    Before = nobody
    onlooker = c2
    Callers = {c1, c2}
    Origins = {https_a, http_a}
    OtherUrl = ssh_a
    Other = others
    Runs = {r1, r2}
    Contexts = {k1}
    NoContext = default
    MaxDrops = 1
    Bytes = {"00-7F", "80-8F", "90-9F", "A0-BF", "C2-DF", "E0", "E1-EF",
             "ED", "F0", "F1-F3", "F4", "C0-C1,F5-FF"}
    MaxBytes = 4
INVARIANTS
    TypeOK AllTypes
    AtMostOnce OkIsOwn RetriesSpent
    NoStaleDial
    UploadedIsData DownloadedIsFile
    CommitIsOwn CredentialsStayHome
    InterruptsStayHome
    TextIsReference
PROPERTIES
    RequestsReturn
    OrderlyResumeIsFresh UrlNeverGoesBack SessionReturns
    TransfersReturn
    DroppedCodeStops
