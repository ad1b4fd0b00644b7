\* Two polls and two events in ledgers 1 and 2; ledger 0 closed at time 3.
SPECIFICATION IndexerSpec
CONSTANTS
  None = None
  Poll = {k1, k2}
  MaxEvents = 2
  MaxLedger = 2
  Genesis = 3
INVARIANT LastProcessedIsProcessed
CHECK_DEADLOCK FALSE
