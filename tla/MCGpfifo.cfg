CONSTANTS
    Channels = {1, 2}
    SyncpointIds = {"sp"}
    Width = 3
    Programs <- MCPrograms
SPECIFICATION Spec
INVARIANTS
    TypeOK
    ReductionMatchesManual
    TimestampBeforePayload
    SyncpointAfterWork
PROPERTIES
    ChannelsDrain
