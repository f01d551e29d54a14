CONSTANTS
    Producers <- MCProducers
    Consumers <- MCConsumers
    Vals <- MCVals
    Foreign <- MCForeign
    BufLen = 24
    MaxSends = 2
    SeqStarts <- MCSeqStarts
SPECIFICATION Spec
INVARIANT
    ProducedFramesApplied
