SPECIFICATION ReadingSpec
CONSTANTS
    c1 = c1
    q1 = q1
    q2 = q2
    Calls <- OneCall
    Reqs <- TwoReqs
    MaxRetired = 1
INVARIANTS TypeOK
PROPERTIES AllSettles AnswerIsLast
CHECK_DEADLOCK FALSE
