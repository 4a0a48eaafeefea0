CONSTANTS
    A = A
    B = B
    Accounts <- MCAccounts
    Amounts <- MCAmounts
    MinInput <- MCMinInput
    MaxPos <- MCMaxPos
SPECIFICATION Spec
INVARIANTS
    TypeOK
    OrderPosUnique
    MovesBalanced
