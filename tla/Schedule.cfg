\* One task, created, updated and deleted; two troubles.
CONSTANTS
    daily = daily
    Nobody = Nobody
    Tasks = {daily}
    Instances <- TwoRuns
    MaxVersion = 3
    Chats <- TwoChats
    MaxTroubles = 2
SPECIFICATION FairSpec
INVARIANT ClientsReleased
PROPERTIES
    RunIsAsScheduled
    KeepsRunning
