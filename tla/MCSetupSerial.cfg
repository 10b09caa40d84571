SPECIFICATION FairSpec
CONSTANTS
    Char <- MCChar
    TextMax <- MCTextMax
    DefaultName <- MCDefaultName
    Crc <- MCCrc
    CDC_LINE_MAX = 11
    ULONG_MAX = 65735
    RxMax = 1
    TxMax = 6
    Requests <- MCRequests
    Endings <- MCEndings
    PendingMax = 2
INVARIANTS TypeOK SavedConfigSurvives AsAsked
PROPERTIES AnswersFit AnswersCome
