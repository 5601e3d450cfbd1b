SPECIFICATION FairSpec
CONSTANTS
    Workers = {w1, w2, w3}
    MaxJobs = 3
INVARIANTS TypeOK NoLostWakeup InOrderOnce WaitMeansDone DestroyWaitsForJobs
PROPERTIES JobsFinish WaitReturns DestroyReturns
