SPECIFICATION Spec
CONSTANTS
    Messages <- MCGoodMessages
    MaxMsgLen = 2
    Hdr = 2
    MaxIov = 2
    Capacity = 3
    MaxSends = 3
    NoMsg = NoMsg
PROPERTY SentIsReceived
CHECK_DEADLOCK FALSE
