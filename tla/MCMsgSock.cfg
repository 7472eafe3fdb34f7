SPECIFICATION Spec
CONSTANTS
    Messages <- MCMessages
    MaxMsgLen = 2
    Hdr = 2
    MaxIov = 2
    Capacity = 3
    MaxSends = 3
    NoMsg = NoMsg
INVARIANTS
    WsizeMatches
    NoUseAfterDestroy
    FailuresAreCaused
    NoIdleWakeups
PROPERTIES
    ChannelSpec
    ReceivedUnlessStalled
CHECK_DEADLOCK FALSE
