SPECIFICATION ArchiveSpec
CONSTANTS
    Devices <- ArchiveDevices
    Texts <- ArchiveTexts
    DedupeWindow = 1
    Retention = 1
    MaxRecords = 3
    MaxLoad = 3
    MaxTime = 3
    Nodes = {"A", "B", "C"}
    Paths <- ArchivePaths
    NodesRetention = 1
    MaxSeen = 3
    Kinds = {"dm", "located", "error", "delivered"}
    RetentionHours = 1
    MaxHeard = 2
    MaxHour = 3
INVARIANTS
    ArchiveTypeOK
    ConversationsShown
    CountedAreListed
    PositionsNothingForgotten
    StatsFaithful
PROPERTY
    DeleteComplete
