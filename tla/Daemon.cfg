SPECIFICATION DaemonSpec
CONSTANTS
    Tokens = {t1, t2, t3}
    SessionTTL = 2
    MaxClock = 3
    Handlers = {h1, h2}
    Updates <- SettingsUpdates
    Environments <- SettingsEnvironments
    Files <- SettingsFiles
    Spelling <- SettingsSpelling
    Malformed = {"nowhere"}
    Unescaped = {"control byte"}
    MaxUpdates = 3
    NTargets = 2
    ChannelCap = 2
    MaxDatagrams = 5
    Reads <- DecoderReads
    MaxRecordBytes = 9
    MaxReads = 5
    MaxConnections = 2
    MaxSources = 4
    MaxAsking = 2
INVARIANTS
    DaemonTypeOK
    SessionsSurvive
    SettingsAgree
    RestartHonoured
    ForwardedNewest
    DecoderMatches
    StreamKept
PROPERTIES
    SessionsEndForGood
    StopCompletes
