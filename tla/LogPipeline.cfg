SPECIFICATION FairSpec
CONSTANTS
    Notices = {n}
    Terminals = {1, 2}
    FlushLimit = 1
    PageSize = 1
    KeepLatest = 1
    MaxEvents = 2
    Troubles = {"master", "vision", "log", "loss", "commit", "spool"}
    MaxTroubles = 1
INVARIANTS TypeOK NothingLost RetentionKeepsNewest
CHECK_DEADLOCK FALSE
PROPERTIES AcceptedEventStored StoredTerminalReplayed
