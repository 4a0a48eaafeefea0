\* Relocker safety and liveness on the small instance.
CONSTANTS
    Timeouts <- MCTimeouts
    StartTime <- MCStartTime
    MaxUnlocks <- MCMaxUnlocks
    MaxRPC <- MCMaxRPC
SPECIFICATION Spec
\* The run ends when the RPC budget is spent; a real node keeps serving.
CHECK_DEADLOCK FALSE
INVARIANTS
    TypeOK
    
    UnlockedUntilBacked

    
    
