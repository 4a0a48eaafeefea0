\* Key hand-out and account receiving keys on the small instance.
CONSTANTS
    A1 = A1
    A2 = A2
    F = F
    Accounts <- MCAccounts
    Foreign <- MCForeign
    KeypoolSize <- MCKeypoolSize
    Sizes <- MCSizes
    MaxKeys <- MCMaxKeys
    MaxUnlocks <- MCMaxUnlocks
SPECIFICATION Spec
INVARIANTS
    TypeOK
    KeysIssuedOnce
    CurrentKeyLabelled
