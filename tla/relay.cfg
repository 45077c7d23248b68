SPECIFICATION RelayFairSpec
CONSTANT Blocks <- FewBlocks
INVARIANT RequestKeptApart
PROPERTY AnswerDelivered
PROPERTY EndPassedOn
PROPERTY PumpsEnd
CHECK_DEADLOCK FALSE
