SPECIFICATION Spec
CONSTANTS
    Second = 4
    IntMax = 2047
    Numerals = {"8080", "9000", "99999"}
    Listenable = {"8080", "9000"}
    ParseIP <- MCParseIP
    Loopback = {"127.0.0.1"}
    Private = {"10.0.0.1"}
    LinkLocal = {"169.254.0.1"}
    Formulas = {"=", "=Swiss"}
    MaxText = 3
    NaN = NaN
    MB = 1001
    Groups = {{"Host", "Port"}, {"Mode", "Duration"}, {"DBPath", "HistoryRetentionDays"}, {"DownloadMB", "Streams"}, {"UploadMB", "MaxConcurrent"}, {"WarmupMs", "RatePerMin"}, {"GeoIPDBPath", "GeoIPLicenseKey"}, {"GeoIPEdition"}}
    Tries <- MCTries
    MaxEdits = 4
    RequestEdits = 1
    Posts <- MCPosts
    Bodies <- MCBodies
    Queries <- MCQueries
    Stored <- MCStored
INVARIANTS
    HighestValidLayerWins
    SafeToServe
    RowIsTheServersWord
    AnswersAreBounded
CHECK_DEADLOCK FALSE
