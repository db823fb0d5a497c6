SPECIFICATION FairSpec
CONSTANTS
    Setups <- MCSetups
    MaxProcesses = 3
    MaxFailures = 1
INVARIANT NoHandlerOverlap
INVARIANT SendAfterAllPrepared
INVARIANT TotalsComplete
 
\* The script stops when it is done, or waits for a lost sender.
CHECK_DEADLOCK FALSE
