CONSTANTS
    COIN <- MCCOIN
    OneDay <- MCOneDay
    MinAge <- MCMinAge
    MaxAge <- MCMaxAge
    RewardPerCoinDay = 2
    Txs <- MCTxs
    Starts <- MCStarts
    Steps <- MCSteps
    Horizon <- MCHorizon
    Difficulties <- MCDifficulties
    Minutes <- MCMinutes
SPECIFICATION Spec
INVARIANTS
    TypeOK
    ProbWeightIsCoinDay
    AnswerForAskedArgs
CHECK_DEADLOCK FALSE
