SPECIFICATION KnowledgeSpec
CONSTANTS
    Questions = {q1}
    Subjects = {"sso"}
    Functions = {eng, sales}
    Askers = {w1}
    StaleDays = 1
    MaxAsks = 1
    MaxDay = 2
PROPERTIES AnswersFillGaps
