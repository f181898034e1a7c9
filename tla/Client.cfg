SPECIFICATION MCFairSpec
CONSTANTS
    Tasks <- MCTasks
    MaxReads = 2
    MaxDrops = 1
INVARIANTS
    AnswerIsShownOnce
PROPERTIES
    ComesToRest
    PromptIsShown
CHECK_DEADLOCK FALSE
