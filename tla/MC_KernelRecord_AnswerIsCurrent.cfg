CONSTANTS
    COIN <- MCCOIN
    OneDay <- MCOneDay
    MinAge <- MCMinAge
    MaxAge <- MCMaxAge
    RewardPerCoinDay = 2
    Txs <- MCTxs
    Starts <- MCStarts
    Steps <- MCSteps
    Horizon <- MCHorizon
    Difficulties <- MCDifficulties
    Minutes <- MCMinutes
SPECIFICATION Spec
INVARIANTS
    AnswerIsCurrent
CHECK_DEADLOCK FALSE
