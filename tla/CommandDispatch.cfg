SPECIFICATION FairSpec
CONSTANTS
    Requests = {q1, q2, q3}
    Long = {q3}
    NoId = NoId
    CutId = CutId
    Commands <- OneOfEachKind
    MaxItems = 1
INVARIANTS TypeOK ResultBacked BusyNeverSent AnswersAgree
           NothingForgotten
PROPERTY AnswersArrive
