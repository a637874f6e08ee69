SPECIFICATION FairSpec
CONSTANTS
    Threads = {"main", "protocol", "dbus"}
    Topics = {"StorageConfig", "DongleInfo", "ModeCommand", "ApplicationCommand", "Report"}
    Retained = {"StorageConfig", "DongleInfo"}
    Stores = {"NodeValues", "NodeMetadata"}
    TopicOf <- MCTopicOf
    Programs <- MCPrograms
    Script <- MCScript
    Nothing = Nothing
    MaxEvents = 8
INVARIANTS RetainedIsLatest
PROPERTIES  ThreadsFinish
CHECK_DEADLOCK FALSE
