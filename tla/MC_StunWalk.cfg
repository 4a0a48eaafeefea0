\* The walk of GetExternalIPbySTUN over six servers.
CONSTANTS
    StunSrvListQty <- MCQty
    RndBytes <- MCBytes
    Rnds <- MCRnds
    BufSize <- MCBufSize
    Replies <- MCReplies
SPECIFICATION Spec
\* GetExternalIPbySTUN returns: its final state has no successor.
CHECK_DEADLOCK FALSE
INVARIANTS TypeOK CoprimeCoverage NulInsideBuffer

