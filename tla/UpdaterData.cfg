\* One release, two plans for it, time for a plan to expire and be forgotten.
SPECIFICATION FairDataSpec
CONSTANTS
    Engines = {e1, e2}
    First = e1
    Loads = {"answers", "turns"}
    PlanIds = {p1, p2}
    MaxCode = 1
    Mandatory = {}
    Unwanted = {1}
    PlanTTL = 1
    MaxNow = 3
    MaxSessions = 1
    NoId = NoId
INVARIANTS LiveKeepsFiles AnswersHold
PROPERTIES StagingReclaimed
CHECK_DEADLOCK FALSE
