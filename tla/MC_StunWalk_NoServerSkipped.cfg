\* GetExternalIPbySTUN: NoServerSkipped is expected to fail.
CONSTANTS
    StunSrvListQty <- MCQty
    RndBytes <- MCBytes
    Rnds <- MCRnds
    BufSize <- MCBufSize
    Replies <- MCReplies
SPECIFICATION Spec
\* GetExternalIPbySTUN returns: its final state has no successor.
CHECK_DEADLOCK FALSE
INVARIANT NoServerSkipped
