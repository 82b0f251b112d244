SPECIFICATION FairSpec
PROPERTIES InterruptEnds TurnSettles WorkingSettles EveryBatchIsAcked
CHECK_DEADLOCK FALSE
