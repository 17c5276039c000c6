SPECIFICATION FairSpec
CONSTANTS
    f1 = f1
    q1 = q1
    q2 = q2
    Group = Group
    w1 = w1
    None = None
    Flows <- OneFlow
    Queues <- TwoQueues
    Webs = {w1}
    MinCount = 1
    DeepAlarm = 1
    MaxDepth = 2
    MaxUpsets = 1
INVARIANTS StopTracksAlarm ManualIsExplained
PROPERTIES OverIsAlarmed DrainedIsRun
CHECK_DEADLOCK FALSE
