SPECIFICATION FairSpec
CONSTANTS
    Scripts <- MCScripts
    QueueMax = 2
    MaxFaults = 1
INVARIANTS ReplyIsTrue NobodyLeft
PROPERTIES RepliesOnce ServerSettles
CHECK_DEADLOCK FALSE
