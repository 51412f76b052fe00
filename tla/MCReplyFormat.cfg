SPECIFICATION ReplySpec
CONSTANTS
    Sample <- MCSample
    Variants <- MCVariants
    MaxObjects = 2
    CutObjects = 1
INVARIANTS
    FieldsComeBack
    AnswerIsUsedUp
CHECK_DEADLOCK FALSE
