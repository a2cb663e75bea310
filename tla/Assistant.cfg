SPECIFICATION AssistantSpec
CONSTANTS
    s1 = s1
    s2 = s2
    Slots = {s1, s2}
    Keys = {"assistant:user", "intake:user", "email-send"}
    Limit <- Limits
    Interval <- Intervals
    Retain = 3
    MaxTime = 4
    MaxCalls = 3
    Turns <- MCTurns
    Worlds <- MCWorlds
    MaxToolRounds = 1
INVARIANTS
    LimitKept
    AnswersWhole
    AuditTrue
PROPERTIES
    RequestsEnd
CHECK_DEADLOCK FALSE
