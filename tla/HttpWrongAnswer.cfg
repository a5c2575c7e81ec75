SPECIFICATION HttpSpec
CONSTANTS
    Requests = {q1, q2}
    MaxConcurrent = 1
    MaxWaiting = 1
INVARIANT AnswerBelongs
