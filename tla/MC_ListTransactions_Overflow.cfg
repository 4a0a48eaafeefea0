\* listtransactions with count + from past INT_MAX: PageIsReference fails.
CONSTANTS
    IntWidth <- MCWidth
    Streams <- MCStreams
    Counts <- MCLarge
    Froms <- MCLarge
    NParams <- MCNParams
SPECIFICATION Spec
\* The handler returns: its final state has no successor.
CHECK_DEADLOCK FALSE
INVARIANT PageIsReference
