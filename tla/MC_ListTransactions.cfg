\* listtransactions with count and from no larger than the rows there are.
CONSTANTS
    IntWidth <- MCWidth
    Streams <- MCStreams
    Counts <- MCSmall
    Froms <- MCSmall
    NParams <- MCNParams
SPECIFICATION Spec
\* The handler returns: its final state has no successor.
CHECK_DEADLOCK FALSE
INVARIANTS TypeOK PageIsReference
