CONSTANTS
    Starts = 1
    MaxGoal = 2
    MaxInbox = 1
    MaxWatchers = 1
    Pollers = {"p1"}
INIT ChildInit
NEXT ChildNext
PROPERTY SwitchKeepsPoller
CHECK_DEADLOCK FALSE
