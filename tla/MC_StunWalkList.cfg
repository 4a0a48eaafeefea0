\* The walk over a list of 893 servers that all time out.
CONSTANTS
    StunSrvListQty <- MCQty
    RndBytes <- MCBytes
    Rnds <- MCRnds
    BufSize <- MCBufSize
    Replies <- MCReplies
SPECIFICATION Spec
\* GetExternalIPbySTUN returns: its final state has no successor.
CHECK_DEADLOCK FALSE
INVARIANTS CoprimeCoverage
PROPERTIES EventuallyDone
