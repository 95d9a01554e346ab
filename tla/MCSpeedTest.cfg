SPECIFICATION FairSpec
CONSTANTS
    Requests = {q1, q2}
    MaxConcurrent = 1
    Chunk = 2
    UploadCap = 3
    MaxUnits = 4
INVARIANTS
    IInv
    SlotsAccounted
    CountersAddUp
    BytesExact
    SizedDownloadsExact
    UploadAnswerHonest
PROPERTY
    TimedDownloadsEnd
CHECK_DEADLOCK FALSE
