\* Every graph of three modules.
SPECIFICATION FairSpec
\* The search ends.
CHECK_DEADLOCK FALSE
CONSTANTS Count = 3
INVARIANTS SearchInv OrderIsRight CycleIsReal AnswerIsRight
PROPERTIES Ends
