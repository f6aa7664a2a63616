SPECIFICATION FairSpec
CONSTANTS
    TCP_BUF_SIZE = 8
    Header = 2
    Commands = {1, 2, 4}
    Replies = {1, 2, 5}
    NetSize = 8
    MaxUnderWay = 11
    NoMsg = NoMsg
    Garbled = Garbled
INVARIANTS
    Intact
    HalfFits
PROPERTIES
    Answered
CONSTRAINT
    FewUnderWay
CHECK_DEADLOCK FALSE
